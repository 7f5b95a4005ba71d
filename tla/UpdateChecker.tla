---------------------------- MODULE UpdateChecker ----------------------------
(***************************************************************************)
(* The firmware update checks (main.go, updateChecker): one goroutine      *)
(* sends on the channel trigger at every tick, handlers of the admin       *)
(* server's /updatecheck do so on request, and one goroutine receives and  *)
(* does the check, until the context is done.  trigger has room for one    *)
(* value, and the ticker closes it.                                        *)
(*                                                                         *)
(* Every call of runWithNetworking starts a checker of its own.  One that  *)
(* fails is called again with the same context, and its checker goes on    *)
(* beside the new one; one whose context is done may leave goroutines that *)
(* have not noticed yet.  Hence several checkers, in the order of calls.   *)
(***************************************************************************)
EXTENDS Naturals

CONSTANTS MaxCheckers,  \* bound on the calls of runWithNetworking since a reset
          Handlers,     \* goroutines that serve /updatecheck
          Capacity,     \* of the channel trigger, 1 in the code
          MaxTriggers   \* bound on the ticks and requests

ASSUME CheckerConstants ==
    MaxCheckers \in Nat /\ Capacity \in Nat \ {0} /\ MaxTriggers \in Nat

Checkers == 1 .. MaxCheckers

VARIABLES ctx,             \* the context of a checker: "none" before it is started
          queued, closed,  \* its channel trigger
          ticker, consumer, \* what its goroutines are doing
          updaterReady,    \* its updateFetcher and updateClient are set
          handler,         \* the checker that a handler sends to, 0 for none
          triggers         \* how many ticks and requests there were, never reset

channel == <<queued, closed>>
checkerVars == <<ctx, channel, ticker, consumer, updaterReady, handler, triggers>>

CheckerInit ==
    /\ ctx = [c \in Checkers |-> "none"]
    /\ queued = [c \in Checkers |-> 0] /\ closed = [c \in Checkers |-> FALSE]
    /\ ticker = [c \in Checkers |-> "select"] /\ consumer = [c \in Checkers |-> "select"]
    /\ updaterReady = [c \in Checkers |-> FALSE]
    /\ handler = [h \in Handlers |-> 0]
    /\ triggers = 0

\* runWithNetworking gets as far as updateChecker, after all earlier calls returned.
Start(c) ==
    /\ ctx[c] = "none" /\ \A d \in 1 .. c - 1 : ctx[d] # "none"
    /\ ctx' = [ctx EXCEPT ![c] = "live"]
    /\ UNCHANGED <<channel, ticker, consumer, updaterReady, handler, triggers>>

\* The network goes down: there is one context at a time.
Cancel ==
    /\ \E c \in Checkers : ctx[c] = "live"
    /\ ctx' = [c \in Checkers |-> IF ctx[c] = "live" THEN "done" ELSE ctx[c]]
    /\ UNCHANGED <<channel, ticker, consumer, updaterReady, handler, triggers>>
-----------------------------------------------------------------------------
Tick(c) ==
    /\ ctx[c] # "none" /\ ticker[c] = "select" /\ triggers < MaxTriggers
    /\ ticker' = [ticker EXCEPT ![c] = "send"] /\ triggers' = triggers + 1
    /\ UNCHANGED <<ctx, channel, consumer, updaterReady, handler>>

\* trigger <- struct{}{} blocks while the channel is full.
TickerSends(c) ==
    /\ ticker[c] = "send" /\ queued[c] < Capacity
    /\ queued' = [queued EXCEPT ![c] = @ + 1]
    /\ ticker' = [ticker EXCEPT ![c] = "select"]
    /\ UNCHANGED <<ctx, closed, consumer, updaterReady, handler, triggers>>

\* A mutant: the ticker goes on when the context is done.
TickerStopsNever(c) == FALSE /\ UNCHANGED checkerVars

TickerStops(c) ==
    /\ ticker[c] = "select" /\ ctx[c] = "done"
    /\ closed' = [closed EXCEPT ![c] = TRUE]
    /\ ticker' = [ticker EXCEPT ![c] = "done"]
    /\ UNCHANGED <<ctx, queued, consumer, updaterReady, handler, triggers>>

(***************************************************************************)
(* The handler of /updatecheck.  A send on the closed channel panics; the  *)
(* HTTP server recovers, and the request fails.                            *)
(***************************************************************************)
Request(h, c) ==
    /\ handler[h] = 0 /\ ctx[c] # "none" /\ triggers < MaxTriggers
    /\ handler' = [handler EXCEPT ![h] = c] /\ triggers' = triggers + 1
    /\ UNCHANGED <<ctx, channel, ticker, consumer, updaterReady>>

HandlerSends(h) ==
    /\ handler[h] # 0
    /\ LET c == handler[h]
       IN \/ closed[c] /\ UNCHANGED queued
          \/ ~closed[c] /\ queued[c] < Capacity /\ queued' = [queued EXCEPT ![c] = @ + 1]
    /\ handler' = [handler EXCEPT ![h] = 0]
    /\ UNCHANGED <<ctx, closed, ticker, consumer, updaterReady, triggers>>

(***************************************************************************)
(* The goroutine that does the checks.  Creating the updater, Scan and     *)
(* Update may each fail; only the first two skip the rest of the check.    *)
(* The URLs that are compiled in are not empty (updater would panic).      *)
(***************************************************************************)
Goes(c, s) == consumer' = [consumer EXCEPT ![c] = s]

Receive(c) ==
    /\ ctx[c] # "none" /\ consumer[c] = "select"
    /\ \/ queued[c] > 0 /\ queued' = [queued EXCEPT ![c] = @ - 1] /\ Goes(c, "create")
       \/ queued[c] = 0 /\ closed[c] /\ Goes(c, "done") /\ UNCHANGED queued
    /\ UNCHANGED <<ctx, closed, ticker, updaterReady, handler, triggers>>

ConsumerStops(c) ==
    /\ consumer[c] = "select" /\ ctx[c] = "done"
    /\ Goes(c, "done")
    /\ UNCHANGED <<ctx, channel, ticker, updaterReady, handler, triggers>>

\* A mutant: the error of a failed updater ends the goroutine (return for continue).
afterFailedCreateDone == "done"

afterFailedCreate == "select"

Create(c) ==
    /\ consumer[c] = "create"
    /\ \/ updaterReady' = [updaterReady EXCEPT ![c] = TRUE] /\ Goes(c, "scan")
       \/ ~updaterReady[c] /\ Goes(c, afterFailedCreate) /\ UNCHANGED updaterReady
    /\ UNCHANGED <<ctx, channel, ticker, handler, triggers>>

Scan(c) ==
    /\ consumer[c] = "scan"
    /\ \E s \in {"update", "select"} : Goes(c, s)
    /\ UNCHANGED <<ctx, channel, ticker, updaterReady, handler, triggers>>

\* Update has returned: an error is logged, and the success counter goes up either way.
UpdateReturns(c) ==
    /\ Goes(c, "select")
    /\ UNCHANGED <<ctx, channel, ticker, updaterReady, handler, triggers>>

ConsumerStep(c) == Receive(c) \/ ConsumerStops(c) \/ Create(c)

CheckerNext ==
    \/ Cancel
    \/ \E c \in Checkers :
          \/ Start(c) \/ Tick(c) \/ TickerSends(c) \/ TickerStops(c) \/ ConsumerStep(c)
          \/ \E h \in Handlers : Request(h, c)
    \/ \E h \in Handlers : HandlerSends(h)
-----------------------------------------------------------------------------
CheckerTypeOK ==
    /\ ctx \in [Checkers -> {"none", "live", "done"}]
    /\ queued \in [Checkers -> 0 .. Capacity] /\ closed \in [Checkers -> BOOLEAN]
    /\ ticker \in [Checkers -> {"select", "send", "done"}]
    /\ consumer \in [Checkers -> {"select", "create", "scan", "update", "fetch", "verify",
                                  "send", "done"}]
    /\ updaterReady \in [Checkers -> BOOLEAN]
    /\ handler \in [Handlers -> 0 .. MaxCheckers]
    /\ triggers \in Nat

(***************************************************************************)
(* A request to /updatecheck is answered while the network is up: the      *)
(* handler's send on trigger does not block for ever.                      *)
(***************************************************************************)
RequestAnswered ==
    \A h \in Handlers : handler[h] # 0 ~> (handler[h] = 0 \/ ctx[handler[h]] = "done")

(***************************************************************************)
(* Once the context is done the ticker's goroutine ends and closes trigger *)
(* ("should gracefully stop when the passed-in context is Done", main.go:  *)
(* 278), unless it is blocked in its send (main.go:409) on a channel that  *)
(* is full and that nobody receives from any more, or the device reboots.  *)
(***************************************************************************)
TickerEnds ==
    \A c \in Checkers :
        ctx[c] = "done" ~>
            \/ ticker[c] = "done" \/ ctx[c] = "none"
            \/ ticker[c] = "send" /\ queued[c] = Capacity /\ consumer[c] = "done"
=============================================================================

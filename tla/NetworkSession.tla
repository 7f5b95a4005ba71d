--------------------------- MODULE NetworkSession ---------------------------
(***************************************************************************)
(* What runDHCP promises to the function f that it is given (net.go): the  *)
(* abstract specification that module NetLifecycle implements.             *)
(*                                                                         *)
(* f runs for an address that is on the interface and that the routes are  *)
(* for, from the moment the address was installed until f has ended.  f is *)
(* asked to end before it ends, and the address is removed only once f has *)
(* ended, so that no two runs of f overlap and none outlives its address.  *)
(***************************************************************************)
CONSTANTS Addrs, NoAddr

VARIABLES iface,   \* the addresses on the interface
          routes,  \* the address that the route table is for
          running, \* the addresses that an f runs for
          asked,   \* the context of f is done
          ended    \* an f has ended, and its address is still there

session == <<iface, routes, running, asked, ended>>

Init ==
    /\ iface = {} /\ routes = NoAddr
    /\ running = {} /\ asked = FALSE /\ ended = FALSE

\* The context of f may be done already: that of runDHCP may.
Install(x) ==
    /\ iface = {} /\ running = {} /\ ~ended
    /\ iface' = {x} /\ routes' = x /\ running' = {x}
    /\ asked' \in BOOLEAN
    /\ UNCHANGED ended

\* The routes are set again when a lease is renewed.
Reroute ==
    /\ \E x \in Addrs : (iface # {} => iface = {x}) /\ routes' = x
    /\ UNCHANGED <<iface, running, asked, ended>>

Ask ==
    /\ ~asked /\ asked' = TRUE
    /\ UNCHANGED <<iface, routes, running, ended>>

End ==
    /\ running # {} /\ asked
    /\ running' = {} /\ ended' = TRUE
    /\ UNCHANGED <<iface, routes, asked>>

Remove ==
    /\ iface # {} /\ running = {} /\ ended
    /\ iface' = {} /\ ended' = FALSE
    /\ UNCHANGED <<routes, running, asked>>

Next == (\E x \in Addrs : Install(x)) \/ Reroute \/ Ask \/ End \/ Remove

Spec == Init /\ [][Next]_session
=============================================================================

----------------------------- MODULE DHCPAcquire -----------------------------
(***************************************************************************)
(* The exchange of messages with DHCP servers (third_party/dhcp/client.go, *)
(* acquire, send and recv): DISCOVER and OFFER, REQUEST and ACK or NAK,    *)
(* with retransmissions, in the three states Run calls acquire in.         *)
(*                                                                         *)
(* The network keeps every message ever sent.  A message may reach its     *)
(* receiver late, even in a later transaction, out of order, more than     *)
(* once, or never.  There are several servers; a server may grant another  *)
(* address than the one it was asked for.  An address has a prefix length, *)
(* and a reply without a subnet mask has length NoMask.  An OFFER need not *)
(* identify its server.                                                    *)
(***************************************************************************)
EXTENDS Naturals, FiniteSets

CONSTANTS Addrs, NoAddr, Servers, NoServer,
          MaskLength,  \* the prefix length in the replies with a subnet mask
          MaxXid,      \* bound on the number of transactions
          MaxReplies   \* bound on the number of replies

NoMask == 0
Prefixes == {NoMask, MaskLength}

ASSUME AcquireConstants ==
    /\ NoAddr \notin Addrs /\ NoServer \notin Servers
    /\ MaskLength \in Nat \ {NoMask}
    /\ MaxXid \in Nat /\ MaxReplies \in Nat

AddressWithPrefix == [addr : Addrs \cup {NoAddr}, prefix : Prefixes]

\* server is optDHCPServer, NoServer if it is left out or empty; to is who can read
\* the message.
Request == [typ : {"DISCOVER", "REQUEST"}, xid : 1 .. MaxXid, addr : Addrs \cup {NoAddr},
            server : Servers \cup {NoServer}, to : SUBSET Servers]
Reply == [typ : {"OFFER", "ACK", "NAK"}, xid : 1 .. MaxXid, addr : Addrs,
          prefix : Prefixes, server : Servers \cup {NoServer}]

VARIABLES pc,         \* what acquire is doing, "idle" between two calls
          state,      \* info.State
          info,       \* info.Addr
          server,     \* info.Server
          requested,  \* requestedAddr
          xid,        \* the transactions so far; the number of the current one
          held,       \* Run has a lease that has not expired
          sent, replies,  \* the network
          granted,    \* the grants of the servers, <<server, address with prefix, xid>>
          heldXid     \* history: the transaction that the lease held is of

client == <<pc, state, info, server, requested, xid, held, heldXid>>
vars == <<client, sent, replies, granted>>

Init ==
    /\ pc = "idle" /\ state = "initSelecting"
    /\ info = [addr |-> NoAddr, prefix |-> NoMask]
    /\ server = NoServer /\ requested = info
    /\ xid = 0 /\ heldXid = 0 /\ held = FALSE
    /\ sent = {} /\ replies = {} /\ granted = {}
-----------------------------------------------------------------------------
\* A mutant: every acquisition begins with a DISCOVER.
FirstMessageDiscover(s) == "sendDiscover"

FirstMessage(s) == IF s = "initSelecting" THEN "sendDiscover" ELSE "sendRequest"

(***************************************************************************)
(* Run calls acquire, with a fresh transaction ID: in initSelecting when   *)
(* there is no lease, in renewing or rebinding while there is one.         *)
(***************************************************************************)
Start(s) ==
    /\ pc = "idle" /\ xid < MaxXid
    /\ held <=> s # "initSelecting"
    /\ state' = s
    /\ xid' = xid + 1
    /\ requested' = info
    /\ pc' = FirstMessage(s)
    /\ UNCHANGED <<info, server, held, heldXid, sent, replies, granted>>

\* Run notices between two calls that the lease has run out.
Expire ==
    /\ pc = "idle" /\ held
    /\ held' = FALSE
    /\ UNCHANGED <<pc, state, info, server, requested, xid, heldXid, sent, replies, granted>>

SendDiscover ==
    /\ pc = "sendDiscover"
    /\ sent' = sent \cup {[typ |-> "DISCOVER", xid |-> xid, addr |-> requested.addr,
                           server |-> NoServer, to |-> Servers]}
    /\ pc' = "recvOffer"
    /\ UNCHANGED <<state, info, server, requested, xid, held, heldXid, replies, granted>>

\* The server option only in initSelecting, unicast only in renewing; if the offer
\* did not identify its server, the option is empty and the unicast reaches nobody.
SendRequest ==
    /\ pc = "sendRequest"
    /\ sent' = sent \cup {[typ |-> "REQUEST", xid |-> xid, addr |-> requested.addr,
                           server |-> IF state = "initSelecting" THEN server ELSE NoServer,
                           to |-> IF state = "renewing" THEN {server} \ {NoServer} ELSE Servers]}
    /\ pc' = "recvAck"
    /\ UNCHANGED <<state, info, server, requested, xid, held, heldXid, replies, granted>>

\* The retransmission timeout: the same message is sent again.
Retransmit ==
    /\ \/ pc = "recvOffer" /\ pc' = "sendDiscover"
       \/ pc = "recvAck" /\ pc' = "sendRequest"
    /\ UNCHANGED <<state, info, server, requested, xid, held, heldXid, sent, replies, granted>>

(***************************************************************************)
(* acquire returns an error: an endpoint or a send fails, a message cannot *)
(* be decoded, the context is done.                                        *)
(***************************************************************************)
AcquireFails ==
    /\ pc # "idle"
    /\ pc' = "idle"
    /\ UNCHANGED <<state, info, server, requested, xid, held, heldXid, sent, replies, granted>>

\* A mutant: replies to another transaction are taken too.
ReceivedAnyXid(m, typ) == m.typ = typ

(***************************************************************************)
(* recv drops the messages of other transactions, and acquire those of a   *)
(* type that it does not wait for.                                         *)
(***************************************************************************)
Received(m, typ) == m.xid = xid /\ m.typ = typ

\* A mutant: the server that was chosen first stays.
FirstServer(m) == IF server = NoServer THEN m.server ELSE server

ServerOf(m) == m.server

\* The first offer is taken.
RecvOffer(m) ==
    /\ pc = "recvOffer" /\ Received(m, "OFFER")
    /\ server' = ServerOf(m)
    /\ requested' = [addr |-> m.addr,
                     prefix |-> IF m.prefix = NoMask THEN info.prefix ELSE m.prefix]
    /\ pc' = "sendRequest"
    /\ UNCHANGED <<state, info, xid, held, heldXid, sent, replies, granted>>

Matches(m) == [addr |-> m.addr, prefix |-> m.prefix] = requested

\* An ACK for another address is an error, and so is a NAK.
RecvAck(m) ==
    /\ pc = "recvAck"
    /\ \/ /\ Received(m, "ACK") /\ Matches(m)
          /\ info' = requested
          /\ held' = TRUE /\ heldXid' = xid
       \/ /\ Received(m, "NAK") \/ (Received(m, "ACK") /\ ~Matches(m))
          /\ UNCHANGED <<info, held, heldXid>>
    /\ pc' = "idle"
    /\ UNCHANGED <<state, server, requested, xid, sent, replies, granted>>
-----------------------------------------------------------------------------
(***************************************************************************)
(* The servers (external).  Server s answers a REQUEST that it can read    *)
(* only when it is the server that the option names, if there is one, and  *)
(* identifies itself in its answers, but maybe not in an OFFER.            *)
(***************************************************************************)
Reads(s, r) == s \in r.to /\ r.server \in {s, NoServer}

Answer(s, r, typ, x, prefix, id) ==
    /\ Reads(s, r) /\ Cardinality(replies) < MaxReplies
    /\ replies' = replies \cup {[typ |-> typ, xid |-> r.xid, addr |-> x,
                                 prefix |-> prefix, server |-> id]}
    /\ UNCHANGED <<client, sent>>

ServerOffers(s, r, x, prefix) ==
    /\ r.typ = "DISCOVER"
    /\ \E id \in {s, NoServer} : Answer(s, r, "OFFER", x, prefix, id)
    /\ UNCHANGED granted

ServerAcks(s, r, x, prefix) ==
    /\ r.typ = "REQUEST"
    /\ Answer(s, r, "ACK", x, prefix, s)
    /\ granted' = granted \cup {<<s, [addr |-> x, prefix |-> prefix], r.xid>>}

ServerNaks(s, r) ==
    /\ r.typ = "REQUEST" /\ r.addr # NoAddr
    /\ Answer(s, r, "NAK", r.addr, NoMask, s)
    /\ UNCHANGED granted

Next ==
    \/ \E s \in {"initSelecting", "renewing", "rebinding"} : Start(s)
    \/ Expire
    \/ SendDiscover \/ SendRequest \/ Retransmit \/ AcquireFails
    \/ \E m \in replies : RecvOffer(m) \/ RecvAck(m)
    \/ \E s \in Servers, r \in sent :
          \/ ServerNaks(s, r)
          \/ \E x \in Addrs, prefix \in Prefixes :
                ServerOffers(s, r, x, prefix) \/ ServerAcks(s, r, x, prefix)

Spec == Init /\ [][Next]_vars
-----------------------------------------------------------------------------
TypeOK ==
    /\ pc \in {"idle", "sendDiscover", "recvOffer", "sendRequest", "recvAck"}
    /\ state \in {"initSelecting", "renewing", "rebinding"}
    /\ info \in AddressWithPrefix /\ requested \in AddressWithPrefix
    /\ server \in Servers \cup {NoServer}
    /\ xid \in 0 .. MaxXid /\ heldXid \in 0 .. MaxXid /\ (pc # "idle" => xid > 0)
    /\ held \in BOOLEAN
    /\ sent \subseteq Request /\ replies \subseteq Reply
    /\ granted \subseteq Servers \X AddressWithPrefix \X (1 .. MaxXid)

(***************************************************************************)
(* A lease that the client holds was granted: some server answered a       *)
(* REQUEST of the transaction that acquired it with an ACK for that very   *)
(* address and prefix length, however messages were delayed, repeated or   *)
(* mixed up between servers and transactions (client.go:629-641, 736-739). *)
(* So the prefix of an earlier lease, which an OFFER without a subnet mask *)
(* makes the client ask with (client.go:558), is not held on to unless the *)
(* server confirms it.                                                     *)
(***************************************************************************)
HeldIsGranted == held => \E s \in Servers : <<s, info, heldXid>> \in granted

(***************************************************************************)
(* Renewing and rebinding never change the address or its prefix length,   *)
(* so acquired takes them for renewals and leaves the network alone        *)
(* (net.go:110).                                                           *)
(***************************************************************************)
RenewalKeepsAddress == [][held => info' = info]_vars

(***************************************************************************)
(* A REQUEST that selects an offer names a server and the address that     *)
(* this server offered in the same transaction, although info.Server and   *)
(* requestedAddr are overwritten one after the other and survive failed    *)
(* transactions, and an OFFER may come without a server identifier         *)
(* (client.go:551-567).                                                    *)
(***************************************************************************)
SelectsAnOffer ==
    \A r \in sent : r.server # NoServer =>
        \E m \in replies : /\ m.typ = "OFFER" /\ m.xid = r.xid
                           /\ m.server = r.server /\ m.addr = r.addr
=============================================================================

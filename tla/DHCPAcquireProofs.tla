-------------------------- MODULE DHCPAcquireProofs --------------------------
(***************************************************************************)
(* What the exchange with the DHCP servers guarantees, for every number of *)
(* servers, addresses, transactions and replies.  The invariant follows a  *)
(* transaction: a client that holds a lease asks for nothing but that      *)
(* lease, and one that selects has an offer of the current transaction for *)
(* what it is about to request.  Nothing is assumed of the network but     *)
(* that a reply which arrives was sent.                                    *)
(***************************************************************************)
EXTENDS DHCPAcquire, TLAPS

\* The prover, unless a step names another.
USE SMTT(30)

\* An ACK is the grant of what it says.
AcksAreGrants ==
    \A m \in replies : m.typ = "ACK" =>
        /\ m.server \in Servers
        /\ <<m.server, [addr |-> m.addr, prefix |-> m.prefix], m.xid>> \in granted

\* While there is a lease, acquire asks for it and for nothing else.
RenewsWhatIsHeld ==
    pc # "idle" /\ held =>
        /\ state # "initSelecting" /\ requested = info
        /\ pc \in {"sendRequest", "recvAck"}

Offered(x, s, a) ==
    \E m \in replies : m.typ = "OFFER" /\ m.xid = x /\ m.server = s /\ m.addr = a

\* What a selecting client requests was offered to it in this transaction.
RequestsWhatIsOffered ==
    pc \in {"sendRequest", "recvAck"} /\ state = "initSelecting" =>
        Offered(xid, server, requested.addr)

AcquireInv ==
    /\ AcksAreGrants /\ RenewsWhatIsHeld /\ RequestsWhatIsOffered
    /\ HeldIsGranted /\ SelectsAnOffer
-----------------------------------------------------------------------------
LEMMA AcquireInit ==
    Init => AcquireInv
BY DEF Init, AcquireInv, AcksAreGrants, RenewsWhatIsHeld, RequestsWhatIsOffered, HeldIsGranted,
       SelectsAnOffer

\* The steps of the client between its messages.
LEMMA QuietStep ==
    ASSUME AcquireInv,
           \/ \E s \in {"initSelecting", "renewing", "rebinding"} : Start(s)
           \/ Expire \/ Retransmit \/ AcquireFails
    PROVE  AcquireInv'
<1>1. UNCHANGED <<info, heldXid, sent, replies, granted>> /\ (held' => held)
    BY DEF Start, Expire, Retransmit, AcquireFails
<1>2. AcksAreGrants' /\ HeldIsGranted' /\ SelectsAnOffer'
    BY <1>1 DEF AcquireInv, AcksAreGrants, HeldIsGranted, SelectsAnOffer
<1>3. RenewsWhatIsHeld'
    BY Zenon DEF AcquireInv, RenewsWhatIsHeld, Start, FirstMessage, Expire, Retransmit, AcquireFails
<1>4. RequestsWhatIsOffered'
    BY <1>1 DEF AcquireInv, RequestsWhatIsOffered, Offered, Start, FirstMessage, Expire,
                Retransmit, AcquireFails
<1> QED
    BY <1>2, <1>3, <1>4 DEF AcquireInv

LEMMA SendStep ==
    ASSUME AcquireInv, SendDiscover \/ SendRequest
    PROVE  AcquireInv'
<1>1. UNCHANGED <<state, info, server, requested, xid, held, heldXid, replies, granted>>
    BY DEF SendDiscover, SendRequest
<1>2. AcksAreGrants' /\ HeldIsGranted'
    BY <1>1 DEF AcquireInv, AcksAreGrants, HeldIsGranted
<1>3. RenewsWhatIsHeld' /\ RequestsWhatIsOffered'
    BY <1>1 DEF AcquireInv, RenewsWhatIsHeld, RequestsWhatIsOffered, Offered, SendDiscover,
                SendRequest
<1>4. SelectsAnOffer'
    <2> SUFFICES ASSUME NEW r \in sent', r.server # NoServer
                 PROVE  \E m \in replies : /\ m.typ = "OFFER" /\ m.xid = r.xid
                                           /\ m.server = r.server /\ m.addr = r.addr
        BY <1>1 DEF SelectsAnOffer
    <2>1. CASE r \in sent
        BY <2>1 DEF AcquireInv, SelectsAnOffer
    <2>2. CASE r \notin sent
        <3>1. /\ pc = "sendRequest" /\ state = "initSelecting"
              /\ r.xid = xid /\ r.server = server /\ r.addr = requested.addr
            BY <2>2 DEF SendDiscover, SendRequest
        <3> QED
            BY <3>1 DEF AcquireInv, RequestsWhatIsOffered, Offered
    <2> QED
        BY <2>1, <2>2
<1> QED
    BY <1>2, <1>3, <1>4 DEF AcquireInv

LEMMA OfferStep ==
    ASSUME AcquireInv, NEW m \in replies, RecvOffer(m)
    PROVE  AcquireInv'
<1>1. /\ pc = "recvOffer" /\ UNCHANGED <<state, info, xid, held, heldXid, sent, replies, granted>>
      /\ m.xid = xid /\ m.typ = "OFFER" /\ server' = m.server /\ requested'.addr = m.addr
    BY DEF RecvOffer, Received, ServerOf
<1>2. AcksAreGrants' /\ HeldIsGranted' /\ SelectsAnOffer'
    BY <1>1 DEF AcquireInv, AcksAreGrants, HeldIsGranted, SelectsAnOffer
<1>3. ~held
    BY <1>1 DEF AcquireInv, RenewsWhatIsHeld
<1>4. RenewsWhatIsHeld' /\ RequestsWhatIsOffered'
    BY <1>1, <1>3 DEF RenewsWhatIsHeld, RequestsWhatIsOffered, Offered
<1> QED
    BY <1>2, <1>4 DEF AcquireInv

LEMMA AckStep ==
    ASSUME AcquireInv, NEW m \in replies, RecvAck(m)
    PROVE  AcquireInv' /\ (held => info' = info)
<1>1. pc = "recvAck" /\ pc' = "idle" /\ UNCHANGED <<sent, replies, granted>>
    BY DEF RecvAck
<1>2. AcksAreGrants' /\ SelectsAnOffer' /\ RenewsWhatIsHeld' /\ RequestsWhatIsOffered'
    BY <1>1 DEF AcquireInv, AcksAreGrants, SelectsAnOffer, RenewsWhatIsHeld,
                RequestsWhatIsOffered
<1>3. CASE UNCHANGED <<info, held, heldXid>>
    BY <1>1, <1>2, <1>3 DEF AcquireInv, HeldIsGranted
<1>4. CASE ~UNCHANGED <<info, held, heldXid>>
    <2>1. /\ m.typ = "ACK" /\ m.xid = xid /\ [addr |-> m.addr, prefix |-> m.prefix] = requested
          /\ info' = requested /\ heldXid' = xid
        BY <1>4 DEF RecvAck, Received, Matches
    <2>2. m.server \in Servers /\ <<m.server, info', heldXid'>> \in granted
        BY <2>1 DEF AcquireInv, AcksAreGrants
    <2>3. HeldIsGranted'
        BY <1>1, <2>2 DEF HeldIsGranted
    <2>4. held => info' = info
        BY <1>1, <2>1 DEF AcquireInv, RenewsWhatIsHeld
    <2> QED
        BY <1>2, <2>3, <2>4 DEF AcquireInv
<1> QED
    BY <1>3, <1>4

\* A server adds a reply, and for an ACK its grant.
LEMMA ServerStep ==
    ASSUME AcquireInv, NEW s \in Servers, NEW r \in sent,
           \/ ServerNaks(s, r)
           \/ \E x \in Addrs, prefix \in Prefixes :
                 ServerOffers(s, r, x, prefix) \/ ServerAcks(s, r, x, prefix)
    PROVE  AcquireInv'
<1>1. UNCHANGED <<client, sent>> /\ replies \subseteq replies' /\ granted \subseteq granted'
    BY DEF ServerNaks, ServerOffers, ServerAcks, Answer
<1>2. HeldIsGranted' /\ SelectsAnOffer' /\ RequestsWhatIsOffered' /\ RenewsWhatIsHeld'
    BY <1>1 DEF AcquireInv, HeldIsGranted, SelectsAnOffer, RequestsWhatIsOffered, Offered,
                RenewsWhatIsHeld, client
<1>3. AcksAreGrants'
    <2> SUFFICES ASSUME NEW m \in replies'
                 PROVE  m.typ = "ACK" =>
                           /\ m.server \in Servers
                           /\ <<m.server, [addr |-> m.addr, prefix |-> m.prefix], m.xid>>
                                 \in granted'
        BY Zenon DEF AcksAreGrants
    <2>1. CASE m \in replies
        BY <2>1, <1>1 DEF AcquireInv, AcksAreGrants
    <2>2. CASE m \notin replies
        <3>1. CASE ServerNaks(s, r)
            BY <2>2, <3>1 DEF ServerNaks, Answer
        <3>2. ASSUME NEW x \in Addrs, NEW prefix \in Prefixes, ServerOffers(s, r, x, prefix)
              PROVE  m.typ = "OFFER"
            BY <2>2, <3>2 DEF ServerOffers, Answer
        <3>3. ASSUME NEW x \in Addrs, NEW prefix \in Prefixes, ServerAcks(s, r, x, prefix)
              PROVE  /\ m.server = s
                     /\ <<s, [addr |-> m.addr, prefix |-> m.prefix], m.xid>> \in granted'
            BY <2>2, <3>3 DEF ServerAcks, Answer
        <3> QED
            BY <3>1, <3>2, <3>3
    <2> QED
        BY <2>1, <2>2
<1> QED
    BY <1>2, <1>3 DEF AcquireInv

LEMMA AcquireNext ==
    ASSUME AcquireInv, [Next]_vars
    PROVE  AcquireInv' /\ (held => info' = info)
<1>1. CASE UNCHANGED vars
    BY <1>1 DEF vars, client, AcquireInv, AcksAreGrants, RenewsWhatIsHeld, RequestsWhatIsOffered,
                Offered, HeldIsGranted, SelectsAnOffer
<1>2. ASSUME NEW m \in replies, RecvAck(m)
      PROVE  AcquireInv' /\ (held => info' = info)
    BY <1>2, AckStep
<1>3. CASE /\ Next
           /\ ~\E m \in replies : RecvAck(m)
    <2>1. AcquireInv'
        BY <1>3, QuietStep, SendStep, OfferStep, ServerStep DEF Next
    <2>2. info' = info
        BY <1>3 DEF Next, Start, Expire, SendDiscover, SendRequest, Retransmit, AcquireFails,
                    RecvOffer, ServerNaks, ServerOffers, ServerAcks, Answer, client
    <2> QED
        BY <2>1, <2>2
<1> QED
    BY <1>1, <1>2, <1>3

(***************************************************************************)
(* A lease that is held was granted, address and prefix, in the            *)
(* transaction that acquired it (client.go:629-646, 739-742).              *)
(***************************************************************************)
THEOREM LeaseIsGranted == Spec => []HeldIsGranted
<1>1. AcquireInv => HeldIsGranted
    BY DEF AcquireInv
<1> QED
    BY <1>1, AcquireInit, AcquireNext, PTL DEF Spec

(***************************************************************************)
(* A REQUEST that selects a server is for what that server offered in the  *)
(* same transaction (client.go:551-567).                                   *)
(***************************************************************************)
THEOREM RequestIsOffered == Spec => []SelectsAnOffer
<1>1. AcquireInv => SelectsAnOffer
    BY DEF AcquireInv
<1> QED
    BY <1>1, AcquireInit, AcquireNext, PTL DEF Spec

(***************************************************************************)
(* The address and prefix of a lease do not change while it is held        *)
(* (client.go:374-386, 629-637).                                           *)
(***************************************************************************)
THEOREM LeaseIsKept == Spec => RenewalKeepsAddress
BY AcquireInit, AcquireNext, PTL DEF Spec, RenewalKeepsAddress
-----------------------------------------------------------------------------
LEMMA ReplyType ==
    ASSUME TypeOK, NEW s \in Servers, NEW r \in sent, NEW x \in Addrs, NEW prefix \in Prefixes,
           NEW typ \in {"OFFER", "ACK", "NAK"}, NEW id \in Servers \cup {NoServer},
           Answer(s, r, typ, x, prefix, id)
    PROVE  replies' \subseteq Reply
<1>1. r.xid \in 1 .. MaxXid
    BY DEF TypeOK, Request
<1> QED
    BY <1>1 DEF Answer, TypeOK, Reply

\* Type correctness of the exchange.
THEOREM TypeCorrect == Spec => []TypeOK
<1>1. Init => TypeOK
    <2> SUFFICES ASSUME Init PROVE TypeOK
        OBVIOUS
    <2>1. info \in AddressWithPrefix /\ requested \in AddressWithPrefix
        BY DEF Init, AddressWithPrefix, Prefixes
    <2>2. xid \in 0 .. MaxXid /\ heldXid \in 0 .. MaxXid
        BY AcquireConstants DEF Init
    <2> QED
        BY <2>1, <2>2, Zenon DEF Init, TypeOK
<1>2. ASSUME TypeOK, [Next]_vars, AcquireInv PROVE TypeOK'
    <2>1. CASE \E s \in {"initSelecting", "renewing", "rebinding"} : Start(s)
        BY <1>2, <2>1, AcquireConstants DEF Start, FirstMessage, TypeOK
    <2>2. CASE Expire \/ Retransmit \/ AcquireFails
        BY <1>2, <2>2, Zenon DEF Expire, Retransmit, AcquireFails, TypeOK
    <2>3. CASE SendDiscover \/ SendRequest
        <3>1. xid \in 1 .. MaxXid
            BY <1>2, <2>3, AcquireConstants DEF TypeOK, SendDiscover, SendRequest
        <3>2. requested.addr \in Addrs \cup {NoAddr} /\ server \in Servers \cup {NoServer}
            BY <1>2 DEF TypeOK, AddressWithPrefix
        <3>3. sent' \subseteq Request
            <4>1. CASE SendDiscover
                BY <1>2, <3>1, <3>2, <4>1 DEF SendDiscover, TypeOK, Request
            <4>2. CASE SendRequest
                BY <1>2, <3>1, <3>2, <4>2 DEF SendRequest, TypeOK, Request
            <4> QED
                BY <2>3, <4>1, <4>2
        <3> QED
            BY <1>2, <2>3, <3>3 DEF SendDiscover, SendRequest, TypeOK
    <2>4. ASSUME NEW m \in replies, RecvOffer(m) \/ RecvAck(m) PROVE TypeOK'
        <3>1. /\ m.addr \in Addrs /\ m.prefix \in Prefixes
              /\ m.server \in Servers \cup {NoServer}
            BY <1>2 DEF TypeOK, Reply
        <3>2. info.prefix \in Prefixes
            BY <1>2 DEF TypeOK, AddressWithPrefix
        <3>3. CASE RecvOffer(m)
            <4>1. requested' \in AddressWithPrefix
                BY <3>1, <3>2, <3>3 DEF RecvOffer, AddressWithPrefix
            <4> QED
                BY <1>2, <3>1, <3>3, <4>1 DEF RecvOffer, ServerOf, TypeOK
        <3>4. CASE RecvAck(m)
            BY <1>2, <3>4, Zenon DEF RecvAck, TypeOK
        <3> QED
            BY <2>4, <3>3, <3>4
    <2>5. ASSUME NEW s \in Servers, NEW r \in sent, ServerNaks(s, r) PROVE TypeOK'
        <3>1. r.addr \in Addrs /\ NoMask \in Prefixes
            BY <1>2, <2>5 DEF ServerNaks, TypeOK, Request, Prefixes
        <3>2. replies' \subseteq Reply
            BY <1>2, <2>5, <3>1, ReplyType DEF ServerNaks
        <3> QED
            BY <1>2, <2>5, <3>2 DEF ServerNaks, Answer, client, TypeOK
    <2>6. ASSUME NEW s \in Servers, NEW r \in sent, NEW x \in Addrs, NEW prefix \in Prefixes,
                 ServerOffers(s, r, x, prefix) \/ ServerAcks(s, r, x, prefix)
          PROVE  TypeOK'
        <3>1. replies' \subseteq Reply
            BY <1>2, <2>6, ReplyType DEF ServerOffers, ServerAcks
        <3>2. granted' \subseteq Servers \X AddressWithPrefix \X (1 .. MaxXid)
            BY <1>2, <2>6 DEF ServerOffers, ServerAcks, TypeOK, Request, AddressWithPrefix
        <3> QED
            BY <1>2, <2>6, <3>1, <3>2 DEF ServerOffers, ServerAcks, Answer, client, TypeOK
    <2>7. CASE UNCHANGED vars
        BY <1>2, <2>7 DEF vars, client, TypeOK
    <2> QED
        BY <1>2, <2>1, <2>2, <2>3, <2>4, <2>5, <2>6, <2>7 DEF Next
<1> QED
    BY <1>1, <1>2, AcquireInit, AcquireNext, PTL DEF Spec
=============================================================================

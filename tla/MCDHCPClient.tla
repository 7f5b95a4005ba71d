---------------------------- MODULE MCDHCPClient ----------------------------
(***************************************************************************)
(* Instances of DHCPClient for TLC.  Seconds counts modulo 2^14, so that a *)
(* lease of 20 seconds is enough for 20 * 875 to overflow.                 *)
(***************************************************************************)
EXTENDS DHCPClient

CONSTANTS addr1, addr2

TwoAddrs == {addr1, addr2}

Lease(l, t1, t2) == [LeaseLength |-> l, RenewTime |-> t1, RebindTime |-> t2]

\* All times sent, only the length sent, nothing sent, T1 not before the end.
UsualOffers == {Lease(8, 3, 6), Lease(8, 0, 0), Lease(0, 0, 0), Lease(6, 9, 0)}

\* T2 past the end of the lease; a long lease without T1 and T2; no length, and T1
\* past the end of the default lease.
AllOffers == UsualOffers \cup {Lease(8, 3, 9), Lease(20, 0, 0), Lease(0, 11, 0)}

OneOffer == {Lease(8, 3, 6)}

NoJumps == {}
BothJumps == {-3, 5}
=============================================================================

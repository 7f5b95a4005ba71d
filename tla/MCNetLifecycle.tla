--------------------------- MODULE MCNetLifecycle ---------------------------
(***************************************************************************)
(* Instances of NetLifecycle for TLC.                                      *)
(***************************************************************************)
EXTENDS NetLifecycle

CONSTANTS addr1, addr2

TwoAddrs == {addr1, addr2}

OneOffer == {[LeaseLength |-> 5, RenewTime |-> 2, RebindTime |-> 4]}

NoJumps == {}
=============================================================================

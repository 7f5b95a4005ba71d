---------------------------- MODULE MCDHCPAcquire ----------------------------
(***************************************************************************)
(* DHCPAcquire with two servers and two addresses.                         *)
(***************************************************************************)
EXTENDS DHCPAcquire, TLC

CONSTANTS addr1, addr2, server1, server2

TwoAddrs == {addr1, addr2}
TwoServers == {server1, server2}

AddrsAndServers == Permutations(TwoAddrs) \cup Permutations(TwoServers)
=============================================================================

------------------------------ MODULE MCStartup ------------------------------
(***************************************************************************)
(* Startup with a hash that tells the diversifiers of small counters       *)
(* apart.                                                                  *)
(***************************************************************************)
EXTENDS Startup

Hash(diversifier) ==
    <<diversifier[1] = "", diversifier[2] = "WitnessKey-id",
      IF Len(diversifier) = 3 THEN diversifier[3] ELSE 0, Len(diversifier)>>
=============================================================================

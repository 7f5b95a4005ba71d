-------------------------- MODULE MCFirmwareUpdate --------------------------
(***************************************************************************)
(* FirmwareUpdate with an OS release that its second signer has not signed *)
(* and one of exactly three chunks.                                        *)
(***************************************************************************)
EXTENDS FirmwareUpdate

CONSTANTS h1

OneHandler == {h1}

Log == << [component |-> "OS", signers |-> {"os1"}, len |-> 1],
          [component |-> "applet", signers |-> {"applet"}, len |-> 3] >>
=============================================================================

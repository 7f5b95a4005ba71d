------------------------------- MODULE Startup -------------------------------
(***************************************************************************)
(* The applet from its start to the running witness (main.go, main): the   *)
(* checks with the Trusted OS, the configuration, the keys (key.go), the   *)
(* network, the handler of Ethernet frames (module EventHandler), storage. *)
(* An error that ends the applet resets the device, as does a power cut.   *)
(* The custodian may ask the OS for a new identity at any time, and fuse   *)
(* the device for secure boot between two boots.                           *)
(*                                                                         *)
(* External is the OS, with its identity counter and its derivation of     *)
(* keys from a secret of the device.  Formatting of names and notes is     *)
(* left out.                                                               *)
(***************************************************************************)
EXTENDS EventHandler

CONSTANTS Sum16(_),   \* the first 16 bytes of the SHA-256 of a diversifier
          MaxBoots,   \* bound on the starts
          MaxCounter  \* bound on the identity counter

VARIABLES at,         \* the next step of main
          cfg,        \* the configuration, as far as it steers the start
          hab,        \* the OS: secure boot is on
          counter,    \* the OS: IdentityCounter
          status,     \* what deriveIdentityKeys got from RPC.Status
          keys,       \* the variables of key.go
          published,  \* the OS: the last SetWitnessStatus
          signer,     \* the key the witness signs with
          boots       \* how many starts there have been

bootVars == <<at, cfg, hab, counter, status, keys, published, signer, boots>>
vars == <<bootVars, eventVars>>

Default == [dhcp |-> TRUE, ntp |-> TRUE]
Configs == [dhcp : BOOLEAN, ntp : BOOLEAN]
Nothing == [identity |-> "none"]

BootInit ==
    /\ at = "version" /\ cfg = Default
    /\ status = Nothing /\ keys = Nothing /\ published = Nothing /\ signer = <<>>

Init ==
    /\ BootInit /\ EventInit
    /\ hab \in BOOLEAN /\ counter = 0
    /\ boots = 1

Goes(s) == at' = s

(***************************************************************************)
(* The OS.  A reset starts the applet anew with an empty ring.             *)
(***************************************************************************)
NewIdentity ==
    /\ counter < MaxCounter
    /\ counter' = counter + 1
    /\ UNCHANGED <<at, cfg, hab, status, keys, published, signer, boots, eventVars>>

Reset ==
    /\ boots < MaxBoots
    /\ boots' = boots + 1
    /\ \E fused \in BOOLEAN : (hab => fused) /\ hab' = fused
    /\ at' = "version" /\ cfg' = Default
    /\ status' = Nothing /\ keys' = Nothing /\ published' = Nothing /\ signer' = <<>>
    /\ ring' = <<>> /\ event' = FALSE /\ fiq' = FALSE
    /\ handler' = "none" /\ enabling' = FALSE /\ cut' = FALSE
    /\ queue' = <<>> /\ notifying' = 0 /\ sent' = 0 /\ empty' = FALSE
    /\ UNCHANGED <<counter, arrived, packets>>
-----------------------------------------------------------------------------
\* log.Fatalf and klog.Exitf, of main or, if it cannot register, of eventHandler.
Fatal ==
    /\ \/ at \in {"version", "config", "status", "identity", "derive", "network", "storage", "ntp"}
       \/ handler = "registering"
    /\ Goes("exited")
    /\ handler' = "none" /\ fiq' = FALSE /\ enabling' = FALSE
    /\ UNCHANGED <<cfg, hab, counter, status, keys, published, signer, boots,
                   ring, arrived, event, cut, txVars>>

\* RPC.Version checks the version, RPC.Status is logged.
Version == at = "version" /\ Goes("config") /\ UNCHANGED cfg

Status == at = "status" /\ Goes("identity") /\ UNCHANGED cfg

\* RPC.Config: an error, or an empty answer, leaves the defaults; an answer replaces them.
Config ==
    /\ at = "config"
    /\ Goes("status")
    /\ cfg' \in Configs

Checks ==
    /\ Version \/ Status \/ Config
    /\ UNCHANGED <<hab, counter, status, keys, published, signer, boots, eventVars>>

(***************************************************************************)
(* deriveIdentityKeys.  A key is what a stream of bytes yields from an     *)
(* offset on, and the name of the witness is made of the first 8 bytes of  *)
(* its stream.  The stream depends on the 16 bytes that the diversifier is *)
(* hashed to (and on the device).                                          *)
(***************************************************************************)
ReadIdentity ==
    /\ at = "identity"
    /\ status' = [identity |-> "status", hab |-> hab, counter |-> counter]
    /\ Goes("derive")
    /\ UNCHANGED <<cfg, hab, counter, keys, published, signer, boots, eventVars>>

Prefix(st) == IF st.hab THEN "" ELSE "DEV:"

deriveHKDF(diversifier) == [secret |-> Sum16(diversifier)]

deriveNoteSigner(diversifier, nameBytes) == <<deriveHKDF(diversifier), nameBytes>>

deriveEd25519(diversifier) == <<deriveHKDF(diversifier), 0>>

Witness(st) == deriveNoteSigner(<<Prefix(st), "WitnessKey-id", st.counter>>, 8)

Attestation(st) == deriveNoteSigner(<<Prefix(st), "ID-Attestation">>, 0)

Bastion(st) == deriveEd25519(<<Prefix(st), "BastionKey-id", 0>>)

attestNote(st, text) == [by |-> Attestation(st), text |-> text]

\* A mutant: the counter is asked for again.
attestIDNow(st, pubkey) == attestNote(st, <<counter, pubkey>>)

attestID(st, pubkey) == attestNote(st, <<st.counter, pubkey>>)

attestBastion(st, id) == attestNote(st, <<0, id>>)

deriveIdentityKeys ==
    /\ at = "derive"
    /\ keys' = [identity |-> Witness(status),
                attest |-> Attestation(status),
                attestedID |-> attestID(status, Witness(status)),
                bastion |-> Bastion(status),
                attestedBastion |-> attestBastion(status, Bastion(status))]
    /\ status' = Nothing
    /\ Goes("publish")
    /\ UNCHANGED <<cfg, hab, counter, published, signer, boots, eventVars>>

\* SetWitnessStatus, whose error is not looked at.
SetWitnessStatus == published' \in {published, keys}

Publish ==
    /\ at = "publish"
    /\ SetWitnessStatus
    /\ Goes("network")
    /\ UNCHANGED <<cfg, hab, counter, status, keys, signer, boots, eventVars>>
-----------------------------------------------------------------------------
\* startNetworking; packets can be sent from here on.
startNetworking ==
    /\ at = "network"
    /\ Goes("handler")
    /\ UNCHANGED <<cfg, hab, counter, status, keys, published, signer, boots, eventVars>>

\* go eventHandler(): main does not wait for it.
StartHandler ==
    /\ at = "handler"
    /\ handler' = "registering"
    /\ Goes("storage")
    /\ UNCHANGED <<cfg, hab, counter, status, keys, published, signer, boots,
                   ring, arrived, event, fiq, enabling, cut, txVars>>

\* openStorage, and Init of the persistence layer.
OpenStorage ==
    /\ at = "storage"
    /\ Goes("run")
    /\ UNCHANGED <<cfg, hab, counter, status, keys, published, signer, boots, eventVars>>

(***************************************************************************)
(* runWithNetworking, called by runDHCP or, with a static address, in a    *)
(* loop: the status is published once more, with the address.  It gets     *)
(* past the wait for NTP only if a server is configured: runNTP returns a  *)
(* nil channel otherwise.  It may return there, as the context is done or  *)
(* after a cold start, and when the witness ends, and is called again.     *)
(***************************************************************************)
runWithNetworking ==
    /\ \/ at = "run" /\ SetWitnessStatus /\ Goes("ntp") /\ UNCHANGED signer
       \/ at = "ntp" /\ (cfg.dhcp \/ cfg.ntp) /\ Goes("run") /\ UNCHANGED <<published, signer>>
       \/ at = "ntp" /\ cfg.ntp /\ signer' = keys.identity /\ Goes("serving") /\ UNCHANGED published
       \/ at = "serving" /\ signer' = <<>> /\ Goes("run") /\ UNCHANGED published
    /\ UNCHANGED <<cfg, hab, counter, status, keys, boots, eventVars>>

MainStep ==
    \/ Checks \/ ReadIdentity \/ deriveIdentityKeys \/ Publish
    \/ startNetworking \/ StartHandler \/ OpenStorage \/ runWithNetworking

NetworkStarted ==
    at \in {"handler", "storage", "run", "ntp", "serving"}

Next ==
    \/ NewIdentity \/ Reset \/ Fatal \/ MainStep
    \/ (Arrive \/ Interrupt \/ HandlerStep) /\ at # "exited" /\ UNCHANGED bootVars
    \/ (SendPacket \/ WriteNotify) /\ NetworkStarted /\ UNCHANGED bootVars

(***************************************************************************)
(* Fairness: an enabled interrupt that is pending is taken, and the        *)
(* goroutines are scheduled.                                               *)
(***************************************************************************)
Spec ==
    /\ Init /\ [][Next]_vars
    /\ WF_vars(Interrupt /\ at # "exited" /\ UNCHANGED bootVars)
    /\ WF_vars(HandlerStep /\ at # "exited" /\ UNCHANGED bootVars)
-----------------------------------------------------------------------------
(***************************************************************************)
(* The status that the OS shows the custodian is of the key that the       *)
(* witness signs with, and its attestation names the counter that this key *)
(* was derived from, also if the custodian has asked for a new identity in *)
(* the meantime (key.go:95, main.go:189, 286).                             *)
(***************************************************************************)
PublishedIsSigner ==
    published # Nothing =>
        /\ signer \in {<<>>, published.identity}
        /\ published.attestedID.by = published.attest
        /\ \E st \in [identity : {"status"}, hab : BOOLEAN, counter : 0 .. counter] :
              /\ published.identity = Witness(st)
              /\ published.attestedID.text = <<st.counter, published.identity>>
=============================================================================

--------------------------- MODULE FirmwareUpdate ---------------------------
(***************************************************************************)
(* What an update check does (update.go, update_client.go): it looks for a *)
(* newer release in the firmware log, downloads the binary, verifies the   *)
(* bundle and sends it to the Trusted OS in chunks.  The OS installs it    *)
(* with the last chunk and reboots.  Extends the checkers of module        *)
(* UpdateChecker, several of which may be at work at the same time.        *)
(*                                                                         *)
(* Byte k of release r is <<r, k>>.  External are the library's Fetcher    *)
(* and Updater, the verifier of bundles, and the OS.                       *)
(***************************************************************************)
EXTENDS UpdateChecker, Sequences, FiniteSets

CONSTANTS Releases,   \* the releases that get into the log: component, signers, len
          ChunkSize,  \* fwUpdateChunkSize
          SeqLimit    \* Sequence counts modulo this (2^32 in the code)

Components == {"OS", "applet", "boot"}
Keys == {"applet", "os1", "os2", "boot"}

ASSUME FirmwareConstants ==
    /\ Releases \in Seq([component : Components, signers : SUBSET Keys, len : Nat])
    /\ ChunkSize \in Nat \ {0}
    /\ SeqLimit \in Nat \ {0}
    /\ \A r \in 1 .. Len(Releases) : Releases[r].len < SeqLimit

VARIABLES scanned,    \* how many the updateFetcher of a checker has seen
          installed,  \* the release installed of a component, 0 for the first one
          job,        \* the update that a checker is at
          os          \* what the OS has of an update: the next Sequence, the bytes

fwVars == <<scanned, installed, job, os>>
vars == <<checkerVars, fwVars>>

Firmware(r) == [k \in 1 .. Releases[r].len |-> <<r, k>>]

(***************************************************************************)
(* rel is the release, rest the bytes of fb.Firmware that are left to be   *)
(* sent, seq the Sequence of the next chunk.  disturbed is a history       *)
(* variable: another checker has sent a chunk since this one's first.      *)
(***************************************************************************)
NoJob == [rel |-> 0, rest |-> <<>>, seq |-> 0, disturbed |-> FALSE]

Empty == [next |-> 0, buf |-> <<>>]

Init ==
    /\ CheckerInit
    /\ scanned = [c \in Checkers |-> 0]
    /\ installed = [x \in Components |-> 0]
    /\ job = [c \in Checkers |-> NoJob]
    /\ os = Empty
-----------------------------------------------------------------------------
\* Update returns, with an error or because there is nothing to do.
Return(c) ==
    /\ UpdateReturns(c)
    /\ job' = [job EXCEPT ![c] = NoJob]

\* The log grows, and its distributor may lag behind: Scan sees what it has seen, or more.
ScanLog(c) ==
    /\ Scan(c)
    /\ \E n \in scanned[c] .. Len(Releases) :
          scanned' = [scanned EXCEPT ![c] = IF consumer'[c] = "update" THEN n ELSE @]
    /\ UNCHANGED <<installed, job, os>>

\* The latest release of component x that the fetcher of c knows, if it is newer.
Newer(c, x) ==
    {r \in 1 .. scanned[c] :
       /\ Releases[r].component = x /\ r > installed[x]
       /\ \A q \in 1 .. scanned[c] : Releases[q].component = x => q <= r}

Update(c) ==
    /\ consumer[c] = "update"
    /\ \/ /\ \E x \in {"OS", "applet"} : \E r \in Newer(c, x) :
                job' = [job EXCEPT ![c] = [NoJob EXCEPT !.rel = r]]
          /\ Goes(c, "fetch")
          /\ UNCHANGED <<ctx, channel, ticker, updaterReady, handler, triggers>>
       \/ /\ Newer(c, "OS") \cup Newer(c, "applet") = {}
          /\ Return(c)
    /\ UNCHANGED <<scanned, installed, os>>

(***************************************************************************)
(* binFetcher and readHTTP.  An error of the request, the time being out,  *)
(* and any status but 200 make Update fail.  An error while the body is    *)
(* read is dropped: what has arrived is taken for the binary.              *)
(***************************************************************************)
readHTTP(c) ==
    /\ consumer[c] = "fetch"
    /\ \/ /\ \E n \in 0 .. Releases[job[c].rel].len :
                job' = [job EXCEPT ![c].rest = SubSeq(Firmware(job[c].rel), 1, n)]
          /\ Goes(c, "verify")
          /\ UNCHANGED <<ctx, channel, ticker, updaterReady, handler, triggers>>
       \/ Return(c)
    /\ UNCHANGED <<scanned, installed, os>>

Verifiers(x) ==
    CASE x = "applet" -> {"applet"}
      [] x = "OS" -> {"os1", "os2"}
      [] OTHER -> Keys

\* The BundleVerifier: every key has signed, and the binary has the hash of the manifest.
BundleVerifies(r, bin, keys) == keys \subseteq Releases[r].signers /\ bin = Firmware(r)

\* Mutants: one known signature is enough; the binary is not looked at.
VerifyAnyKey(r, bin) == bin = Firmware(r)
VerifyManifest(r, bin) == Verifiers(Releases[r].component) \subseteq Releases[r].signers

\* fwVerifier.Verify: the manifest opens with any of the three keys, then each must do.
Verify(r, bin) ==
    /\ Releases[r].signers \cap (Verifiers("applet") \cup Verifiers("OS")) # {}
    /\ Releases[r].component \in {"applet", "OS"}
    /\ BundleVerifies(r, bin, Verifiers(Releases[r].component))

VerifyBundle(c) ==
    /\ consumer[c] = "verify"
    /\ IF Verify(job[c].rel, job[c].rest)
       THEN /\ Goes(c, "send")
            /\ UNCHANGED <<ctx, channel, ticker, updaterReady, handler, triggers, job>>
       ELSE Return(c)
    /\ UNCHANGED <<scanned, installed, os>>
-----------------------------------------------------------------------------
(***************************************************************************)
(* sendChunkedUpdate: one RPC per step.  The last chunk carries the proof. *)
(***************************************************************************)
\* A mutant: a chunk that is full is never taken for the last one.
LastIsPartial(rest) == 0 < Len(rest) /\ Len(rest) < ChunkSize

Last(rest) == ChunkSize >= Len(rest)

Image(rest) == SubSeq(rest, 1, IF ChunkSize >= Len(rest) THEN Len(rest) ELSE ChunkSize)

(***************************************************************************)
(* The OS: chunk 0 begins an update, the next ones continue it in order.   *)
(* It installs only what it has verified itself.                           *)
(***************************************************************************)
InOrder(c) == job[c].seq = 0 \/ job[c].seq = os.next

Buffered(c) == (IF job[c].seq = 0 THEN <<>> ELSE os.buf) \o Image(job[c].rest)

Acceptable(c) ==
    InOrder(c) /\ (Last(job[c].rest) => Buffered(c) = Firmware(job[c].rel))

Disturb(c, j) ==
    [d \in Checkers |-> IF d # c /\ j[d].seq > 0 THEN [j[d] EXCEPT !.disturbed = TRUE] ELSE j[d]]

SendChunk(c) ==
    /\ consumer[c] = "send" /\ Acceptable(c) /\ ~Last(job[c].rest)
    /\ os' = [next |-> (job[c].seq + 1) % SeqLimit, buf |-> Buffered(c)]
    /\ job' = Disturb(c, [job EXCEPT
                 ![c].rest = SubSeq(@, Len(Image(@)) + 1, Len(@)),
                 ![c].seq = (@ + 1) % SeqLimit])
    /\ UNCHANGED <<checkerVars, scanned, installed>>

\* The RPC returns an error, because the OS refuses the chunk or for another reason.
OSRefuses(c) ==
    /\ consumer[c] = "send" /\ ~Acceptable(c)
    /\ UpdateReturns(c)
    /\ job' = Disturb(c, [job EXCEPT ![c] = NoJob])
    /\ os' = Empty
    /\ UNCHANGED <<scanned, installed>>

SendFails(c) ==
    /\ consumer[c] = "send" /\ Acceptable(c)
    /\ Return(c)
    /\ UNCHANGED <<scanned, installed, os>>

\* The last chunk: the RPC does not return, the device starts again.
Install(c) ==
    /\ consumer[c] = "send" /\ Acceptable(c) /\ Last(job[c].rest)
    /\ installed' = [installed EXCEPT ![Releases[job[c].rel].component] = job[c].rel]
    /\ ctx' = [d \in Checkers |-> "none"]
    /\ queued' = [d \in Checkers |-> 0] /\ closed' = [d \in Checkers |-> FALSE]
    /\ ticker' = [d \in Checkers |-> "select"] /\ consumer' = [d \in Checkers |-> "select"]
    /\ updaterReady' = [d \in Checkers |-> FALSE]
    /\ handler' = [h \in Handlers |-> 0] /\ UNCHANGED triggers
    /\ scanned' = [d \in Checkers |-> 0] /\ job' = [d \in Checkers |-> NoJob]
    /\ os' = Empty

UpdateStep(c) ==
    \/ ScanLog(c) \/ Update(c) \/ readHTTP(c) \/ VerifyBundle(c)
    \/ SendChunk(c) \/ OSRefuses(c) \/ SendFails(c) \/ Install(c)

Next ==
    \/ CheckerNext /\ UNCHANGED fwVars
    \/ \E c \in Checkers : UpdateStep(c)

Spec == Init /\ [][Next]_vars

(***************************************************************************)
(* Every goroutine is scheduled; the senders a channel blocks are served   *)
(* in order; a select whose context is done takes that case sooner or      *)
(* later.  The calls of a check return: downloads have a timeout, an RPC   *)
(* is answered.  Ticks, requests and the end of the context need not come. *)
(***************************************************************************)
FairSpec ==
    /\ Spec
    /\ \A c \in Checkers :
          /\ SF_vars(TickerSends(c) /\ UNCHANGED fwVars)
          /\ SF_vars(TickerStops(c) /\ UNCHANGED fwVars)
          /\ WF_vars((ConsumerStep(c) /\ UNCHANGED fwVars) \/ UpdateStep(c))
    /\ \A h \in Handlers : SF_vars(HandlerSends(h) /\ UNCHANGED fwVars)
-----------------------------------------------------------------------------
Bytes == Nat \X Nat
Job == [rel : 0 .. Len(Releases), rest : Seq(Bytes), seq : Nat, disturbed : BOOLEAN]

TypeOK ==
    /\ CheckerTypeOK
    /\ scanned \in [Checkers -> 0 .. Len(Releases)]
    /\ installed \in [Components -> Nat]
    /\ job \in [Checkers -> Job]
    /\ os \in [next : Nat, buf : Seq(Bytes)]

(***************************************************************************)
(* What Verify has accepted arrives at the OS as it is, whatever happened  *)
(* to earlier attempts: the OS refuses a chunk only if another checker was *)
(* sending at the same time (update_client.go:61-79), which the chunked    *)
(* protocol cannot tell apart.  In particular a download that was cut off, *)
(* which readHTTP reports as complete (update.go:214), is never sent.      *)
(***************************************************************************)
SentAsVerified ==
    \A c \in Checkers : consumer[c] = "send" /\ ~job[c].disturbed => Acceptable(c)

(***************************************************************************)
(* Only a newer release of the component is installed, and one that all    *)
(* of its keys have signed: both OS keys for the OS (update.go:141-161).   *)
(***************************************************************************)
InstallsSigned ==
    [][\A x \in Components :
         LET r == installed'[x]
         IN r # installed[x] => /\ r > installed[x]
                                /\ Releases[r].component = x /\ x \in {"OS", "applet"}
                                /\ Verifiers(x) \subseteq Releases[r].signers]_vars

(***************************************************************************)
(* Sending an update comes to an end, by an error or with the reboot,      *)
(* although the loop has no exit of its own (update_client.go:61).         *)
(***************************************************************************)
SendEnds == \A c \in Checkers : consumer[c] = "send" ~> consumer[c] # "send"
=============================================================================

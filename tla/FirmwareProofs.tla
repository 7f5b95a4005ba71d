--------------------------- MODULE FirmwareProofs ---------------------------
(***************************************************************************)
(* What is sent to the Trusted OS and what gets installed, for any number  *)
(* of checkers, releases of any size, and any chunk size.  The invariant   *)
(* relates the two ends of a transfer: as long as no other checker has     *)
(* sent a chunk, what the OS has buffered followed by what is left to send *)
(* is the release, and both ends count the same Sequence.  The Sequence    *)
(* does not wrap because a release is smaller than its range.              *)
(***************************************************************************)
EXTENDS FirmwareUpdate, SequenceTheorems, TLAPS

\* The prover, unless a step names another: the steps with arithmetic or records need SMT.
USE ZenonT(30)

Active == {"fetch", "verify", "send"}

FwType ==
    /\ consumer \in [Checkers -> {"select", "create", "scan", "update", "done"} \cup Active]
    /\ scanned \in [Checkers -> 0 .. Len(Releases)]
    /\ installed \in [Components -> Nat]
    /\ job \in [Checkers -> Job]
    /\ os \in [next : Nat, buf : Seq(Bytes)]

\* What a checker works on is a newer release of a component that it updates.
Chosen(c) ==
    consumer[c] \in Active =>
        LET r == job[c].rel
        IN  /\ r \in 1 .. Len(Releases) /\ Releases[r].component \in {"OS", "applet"}
            /\ r > installed[Releases[r].component]

Signed(c) ==
    consumer[c] = "send" =>
        Verifiers(Releases[job[c].rel].component) \subseteq Releases[job[c].rel].signers

Fresh(c) == consumer[c] # "send" => job[c].seq = 0

InStep(c) ==
    consumer[c] = "send" /\ ~job[c].disturbed =>
        LET j == job[c]
        IN  IF j.seq = 0 THEN j.rest = Firmware(j.rel)
            ELSE /\ os.next = j.seq /\ os.buf \o j.rest = Firmware(j.rel)
                 /\ j.seq + Len(j.rest) <= Releases[j.rel].len

CheckInv(c) == Chosen(c) /\ Signed(c) /\ Fresh(c) /\ InStep(c)

FwInv == FwType /\ \A c \in Checkers : CheckInv(c)
-----------------------------------------------------------------------------
LEMMA ReleaseType ==
    ASSUME NEW r \in 1 .. Len(Releases)
    PROVE  /\ Releases[r].len \in Nat /\ Releases[r].len < SeqLimit
           /\ Releases[r].component \in Components
           /\ Firmware(r) \in Seq(Bytes) /\ Len(Firmware(r)) = Releases[r].len
<1> DEFINE Release == [component : Components, signers : SUBSET Keys, len : Nat]
<1>1. Releases[r] \in Release
    <2>1. Releases \in Seq(Release)
        BY FirmwareConstants
    <2> HIDE DEF Release
    <2> QED
        BY <2>1, SMTT(30)
<1>2. Releases[r].len \in Nat /\ Releases[r].component \in Components
    BY <1>1
<1>3. Firmware(r) \in [1 .. Releases[r].len -> Bytes]
    BY <1>2, FirmwareConstants, SMTT(30) DEF Firmware, Bytes
<1>4. Firmware(r) \in Seq(Bytes) /\ Len(Firmware(r)) = Releases[r].len
    BY <1>2, <1>3, SMTT(30)
<1>5. Releases[r].len < SeqLimit
    BY FirmwareConstants
<1> QED
    BY <1>2, <1>4, <1>5

LEMMA ReleaseCount ==
    Len(Releases) \in Nat
BY FirmwareConstants, LenProperties

\* A chunk that is not the last and what follows it make up what was left.
LEMMA ChunkSplits ==
    ASSUME NEW s \in Seq(Bytes), ~Last(s)
    PROVE  /\ Image(s) \in Seq(Bytes) /\ Len(Image(s)) = ChunkSize
           /\ SubSeq(s, Len(Image(s)) + 1, Len(s)) \in Seq(Bytes)
           /\ Len(SubSeq(s, Len(Image(s)) + 1, Len(s))) = Len(s) - ChunkSize
           /\ Image(s) \o SubSeq(s, Len(Image(s)) + 1, Len(s)) = s
<1>1. Len(s) \in Nat /\ ChunkSize \in Nat \ {0} /\ ChunkSize < Len(s)
    BY FirmwareConstants, SMTT(30) DEF Last
<1>2. Image(s) = SubSeq(s, 1, ChunkSize)
    BY <1>1, SMTT(30) DEF Image
<1>3. \A i \in 1 .. Len(s) : s[i] \in Bytes
    BY ElementOfSeq
<1>4. Image(s) \in Seq(Bytes) /\ Len(Image(s)) = ChunkSize
    <2>1. \A i \in 1 .. ChunkSize : s[i] \in Bytes
        BY <1>1, <1>3, SMTT(30)
    <2>2. ChunkSize \in Int /\ 1 <= ChunkSize /\ 1 \in Int
        BY <1>1, SMTT(30)
    <2>3. /\ SubSeq(s, 1, ChunkSize) \in Seq(Bytes)
          /\ Len(SubSeq(s, 1, ChunkSize)) = IF 1 <= ChunkSize THEN ChunkSize - 1 + 1 ELSE 0
        BY <2>1, <2>2, SubSeqProperties
    <2> QED
        BY <1>2, <2>2, <2>3, SMTT(30)
<1>5. /\ SubSeq(s, ChunkSize + 1, Len(s)) \in Seq(Bytes)
      /\ Len(SubSeq(s, ChunkSize + 1, Len(s))) = Len(s) - ChunkSize
    BY <1>1, <1>3, SubSeqProperties, SMTT(30)
<1>6. SubSeq(s, 1, ChunkSize) \o SubSeq(s, ChunkSize + 1, Len(s)) = SubSeq(s, 1, Len(s))
    <2>1. /\ 1 \in 1 .. Len(s) + 1 /\ ChunkSize \in 1 - 1 .. Len(s)
          /\ Len(s) \in ChunkSize .. Len(s)
        BY <1>1, SMTT(30)
    <2> QED
        BY <2>1, ConcatAdjacentSubSeq
<1> QED
    BY <1>2, <1>4, <1>5, <1>6, SubSeqFull

LEMMA BytesAssociative ==
    ASSUME NEW s \in Seq(Bytes), NEW t \in Seq(Bytes), NEW u \in Seq(Bytes)
    PROVE  (s \o t) \o u = s \o (t \o u)
BY ConcatAssociative, SMTT(30)

\* The Sequence does not wrap, as every chunk has at least a byte.
LEMMA SequenceCounts ==
    ASSUME NEW q \in Nat, NEW m \in Nat, NEW n \in Nat, NEW k \in Nat \ {0}, NEW limit \in Nat,
           q + m <= n, n < limit, m > k
    PROVE  (q + 1) % limit = q + 1 /\ q + 1 + (m - k) <= n
BY SMTT(30)

\* The last chunk is all that was left.
LEMMA LastChunk ==
    ASSUME NEW s \in Seq(Bytes), Last(s)
    PROVE  Image(s) = s
BY SubSeqFull, FirmwareConstants DEF Last, Image

\* As long as no other checker has sent, the OS accepts the next chunk.
LEMMA InStepAccepted ==
    ASSUME FwInv, NEW c \in Checkers, consumer[c] = "send", ~job[c].disturbed
    PROVE  Acceptable(c)
<1>1. job[c].rest \in Seq(Bytes) /\ os.buf \in Seq(Bytes)
    BY DEF FwInv, FwType, Job
<1>2. InStep(c)
    BY DEF FwInv, CheckInv
<1>3. CASE job[c].seq = 0
    <2>1. job[c].rest = Firmware(job[c].rel) /\ <<>> \o job[c].rest = job[c].rest
        BY <1>1, <1>2, <1>3, ConcatEmptySeq DEF InStep
    <2> QED
        BY <1>1, <1>3, <2>1, LastChunk DEF Acceptable, InOrder, Buffered
<1>4. CASE job[c].seq # 0
    <2>1. os.next = job[c].seq /\ os.buf \o job[c].rest = Firmware(job[c].rel)
        BY <1>2, <1>4 DEF InStep
    <2> QED
        BY <1>1, <1>4, <2>1, LastChunk DEF Acceptable, InOrder, Buffered
<1> QED
    BY <1>3, <1>4
-----------------------------------------------------------------------------
\* What a step of another checker leaves true of d.
LEMMA OtherChecker ==
    ASSUME FwInv, NEW d \in Checkers,
           consumer'[d] = consumer[d], installed' = installed,
           \/ job'[d] = job[d] /\ (os' = os \/ job[d].seq = 0)
           \/ job'[d] = [job[d] EXCEPT !.disturbed = TRUE]
    PROVE  CheckInv(d)'
<1>1. /\ job'[d].rel = job[d].rel /\ job'[d].rest = job[d].rest /\ job'[d].seq = job[d].seq
      /\ ~job'[d].disturbed => job'[d] = job[d] /\ (os' = os \/ job[d].seq = 0)
    <2>1. job[d] \in Job
        BY DEF FwInv, FwType
    <2> QED
        BY <2>1 DEF Job
<1>2. Chosen(d)' /\ Signed(d)' /\ Fresh(d)'
    BY <1>1 DEF FwInv, CheckInv, Chosen, Signed, Fresh
<1>3. InStep(d)'
    BY <1>1 DEF FwInv, CheckInv, InStep
<1> QED
    BY <1>2, <1>3 DEF CheckInv

\* The steps of the goroutines around a check.
LEMMA CheckerStep ==
    ASSUME FwInv, CheckerNext, UNCHANGED fwVars
    PROVE  FwInv'
<1>1. \A d \in Checkers : \/ consumer'[d] = consumer[d]
                          \/ /\ consumer[d] \in {"select", "create"}
                             /\ consumer'[d] \in {"select", "create", "scan", "done"}
    BY DEF FwInv, FwType, CheckerNext, Cancel, Start, Tick, TickerSends, TickerStops, Request,
           HandlerSends, ConsumerStep, Receive, ConsumerStops, Create, afterFailedCreate, Goes
<1>2. DOMAIN consumer' = Checkers /\ consumer' = [d \in Checkers |-> consumer'[d]]
    BY DEF FwInv, FwType, CheckerNext, Cancel, Start, Tick, TickerSends, TickerStops, Request,
           HandlerSends, ConsumerStep, Receive, ConsumerStops, Create, afterFailedCreate, Goes
<1>3. FwType'
    <2>1. \A d \in Checkers :
            consumer'[d] \in {"select", "create", "scan", "update", "done"} \cup Active
        BY <1>1 DEF FwInv, FwType, Active
    <2>2. consumer' \in [Checkers -> {"select", "create", "scan", "update", "done"} \cup Active]
        BY <1>2, <2>1
    <2> QED
        BY <2>2 DEF FwInv, FwType, fwVars
<1>4. ASSUME NEW d \in Checkers
      PROVE  CheckInv(d)'
    <2>1. CASE consumer'[d] = consumer[d]
        BY <2>1, OtherChecker DEF fwVars
    <2>2. CASE consumer'[d] # consumer[d]
        BY <2>2, <1>1 DEF FwInv, CheckInv, Chosen, Signed, Fresh, InStep, Active, fwVars
    <2> QED
        BY <2>1, <2>2
<1> QED
    BY <1>3, <1>4 DEF FwInv

LEMMA DisturbType ==
    ASSUME NEW c \in Checkers, NEW j \in [Checkers -> Job]
    PROVE  /\ Disturb(c, j) \in [Checkers -> Job] /\ Disturb(c, j)[c] = j[c]
           /\ \A d \in Checkers :
                 \/ Disturb(c, j)[d] = j[d] /\ (d = c \/ j[d].seq = 0)
                 \/ Disturb(c, j)[d] = [j[d] EXCEPT !.disturbed = TRUE]
<1>1. \A d \in Checkers : j[d] \in Job /\ j[d].seq \in Nat
    BY DEF Job
<1>2. \A d \in Checkers : [j[d] EXCEPT !.disturbed = TRUE] \in Job
    BY <1>1 DEF Job
<1>3. \A d \in Checkers : ~(j[d].seq > 0) => j[d].seq = 0
    BY <1>1, SMTT(30)
<1> QED
    BY <1>1, <1>2, <1>3 DEF Disturb

\* A checker whose job ends; the other jobs may be disturbed.
LEMMA ReturnStep ==
    ASSUME FwInv, NEW c \in Checkers, UpdateReturns(c), UNCHANGED <<scanned, installed>>,
           \/ job' = [job EXCEPT ![c] = NoJob] /\ os' = os
           \/ job' = Disturb(c, [job EXCEPT ![c] = NoJob]) /\ os' = Empty
    PROVE  FwInv'
<1> DEFINE j == [job EXCEPT ![c] = NoJob]
<1>1. consumer' = [consumer EXCEPT ![c] = "select"] /\ consumer'[c] = "select"
    BY DEF UpdateReturns, Goes, FwInv, FwType
<1>2. NoJob \in Job /\ Empty \in [next : Nat, buf : Seq(Bytes)]
    BY ReleaseCount, EmptySeq, SMTT(30) DEF NoJob, Empty, Job
<1>3. /\ j \in [Checkers -> Job] /\ j[c] = NoJob
      /\ \A d \in Checkers : d # c => j[d] = job[d]
    BY <1>2 DEF FwInv, FwType
<1> HIDE DEF j
<1>4. /\ job' \in [Checkers -> Job] /\ job'[c] = NoJob
      /\ \A d \in Checkers : d # c =>
            \/ job'[d] = job[d] /\ (os' = os \/ job[d].seq = 0)
            \/ job'[d] = [job[d] EXCEPT !.disturbed = TRUE]
    <2>1. CASE job' = j /\ os' = os
        BY <2>1, <1>3
    <2>2. CASE job' = Disturb(c, j) /\ os' = Empty
        <3>1. /\ job' \in [Checkers -> Job] /\ job'[c] = j[c]
              /\ \A d \in Checkers : \/ job'[d] = j[d] /\ (d = c \/ j[d].seq = 0)
                                     \/ job'[d] = [j[d] EXCEPT !.disturbed = TRUE]
            BY <2>2, <1>3, DisturbType, SMTT(30)
        <3> QED
            BY <3>1, <1>3
    <2> QED
        BY <2>1, <2>2 DEF j
<1>5. FwType'
    BY <1>1, <1>2, <1>4 DEF FwInv, FwType
<1>6. CheckInv(c)'
    BY <1>1, <1>4, SMTT(30) DEF CheckInv, Chosen, Signed, Fresh, InStep, NoJob, Active
<1>7. ASSUME NEW d \in Checkers, d # c
      PROVE  CheckInv(d)'
    <2>1. consumer'[d] = consumer[d]
        BY <1>1, <1>7 DEF FwInv, FwType
    <2> QED
        BY <2>1, <1>4, <1>7, OtherChecker
<1> QED
    BY <1>5, <1>6, <1>7 DEF FwInv

LEMMA ScanStep ==
    ASSUME FwInv, NEW c \in Checkers, ScanLog(c)
    PROVE  FwInv'
<1>1. PICK s \in {"update", "select"} : consumer' = [consumer EXCEPT ![c] = s]
    BY DEF ScanLog, Scan, Goes
<1>2. scanned' \in [Checkers -> 0 .. Len(Releases)]
    BY ReleaseCount, SMTT(30) DEF ScanLog, FwInv, FwType
<1>3. consumer[c] = "scan" /\ UNCHANGED <<installed, job, os>>
    BY DEF ScanLog, Scan
<1>4. FwType'
    BY <1>1, <1>2, <1>3 DEF FwInv, FwType
<1>5. ASSUME NEW d \in Checkers
      PROVE  CheckInv(d)'
    <2>1. CASE d = c
        BY <2>1, <1>1, <1>3 DEF FwInv, FwType, CheckInv, Chosen, Signed, Fresh, InStep, Active
    <2>2. CASE d # c
        BY <2>2, <1>1, <1>3, OtherChecker DEF FwInv, FwType
    <2> QED
        BY <2>1, <2>2
<1> QED
    BY <1>4, <1>5 DEF FwInv

LEMMA UpdateStepInv ==
    ASSUME FwInv, NEW c \in Checkers, Update(c)
    PROVE  FwInv'
<1>1. CASE Return(c)
    BY <1>1, ReturnStep DEF Return, Update
<1>2. CASE ~Return(c)
    <2>0. PICK x \in {"OS", "applet"} :
            \E r \in Newer(c, x) : job' = [job EXCEPT ![c] = [NoJob EXCEPT !.rel = r]]
        BY <1>2 DEF Update
    <2>1. PICK r \in Newer(c, x) : job' = [job EXCEPT ![c] = [NoJob EXCEPT !.rel = r]]
        BY <2>0
    <2>2. /\ consumer' = [consumer EXCEPT ![c] = "fetch"]
          /\ UNCHANGED <<scanned, installed, os>>
        BY <1>2 DEF Update, Goes
    <2>3. r \in 1 .. Len(Releases) /\ Releases[r].component = x /\ r > installed[x]
        BY ReleaseCount, SMTT(30) DEF Newer, FwInv, FwType
    <2>4. /\ [NoJob EXCEPT !.rel = r] \in Job
          /\ [NoJob EXCEPT !.rel = r].rel = r /\ [NoJob EXCEPT !.rel = r].seq = 0
        <3>1. r \in 0 .. Len(Releases) /\ <<>> \in Seq(Bytes)
            BY <2>3, ReleaseCount, EmptySeq, SMTT(30)
        <3> QED
            BY <3>1 DEF NoJob, Job
    <2>5. FwType'
        BY <2>1, <2>2, <2>4 DEF FwInv, FwType, Active
    <2>6. job'[c].rel = r /\ job'[c].seq = 0 /\ consumer'[c] = "fetch"
        BY <2>1, <2>2, <2>4 DEF FwInv, FwType
    <2>7. CheckInv(c)'
        BY <2>2, <2>3, <2>6 DEF CheckInv, Chosen, Signed, Fresh, InStep, Active
    <2>8. ASSUME NEW d \in Checkers, d # c
          PROVE  CheckInv(d)'
        <3>1. consumer'[d] = consumer[d] /\ job'[d] = job[d]
            BY <2>1, <2>2, <2>8 DEF FwInv, FwType
        <3> QED
            BY <3>1, <2>2, OtherChecker
    <2> QED
        BY <2>5, <2>7, <2>8 DEF FwInv
<1> QED
    BY <1>1, <1>2

LEMMA DownloadStep ==
    ASSUME FwInv, NEW c \in Checkers, readHTTP(c)
    PROVE  FwInv'
<1>1. CASE Return(c)
    BY <1>1, ReturnStep DEF Return, readHTTP
<1>2. CASE ~Return(c)
    <2> DEFINE r == job[c].rel
    <2>1. PICK n \in 0 .. Releases[r].len :
            job' = [job EXCEPT ![c].rest = SubSeq(Firmware(r), 1, n)]
        BY <1>2 DEF readHTTP
    <2>2. /\ consumer[c] = "fetch" /\ consumer' = [consumer EXCEPT ![c] = "verify"]
          /\ UNCHANGED <<scanned, installed, os>>
        BY <1>2 DEF readHTTP, Goes
    <2>3. Chosen(c) /\ Fresh(c) /\ job[c] \in Job
        BY DEF FwInv, FwType, CheckInv
    <2>4. r \in 1 .. Len(Releases)
        BY <2>2, <2>3 DEF Chosen, Active
    <2>5. SubSeq(Firmware(r), 1, n) \in Seq(Bytes)
        <3>1. \A k \in 1 .. n : Firmware(r)[k] \in Bytes
            BY <2>4, ReleaseType, SMTT(30) DEF Firmware, Bytes
        <3> QED
            BY <3>1, <2>4, ReleaseType, SubSeqProperties, SMTT(30)
    <2>6. /\ job'[c] \in Job /\ job'[c].rel = r /\ job'[c].seq = job[c].seq
          /\ job' \in [Checkers -> Job] /\ \A d \in Checkers : d # c => job'[d] = job[d]
        BY <2>1, <2>3, <2>5 DEF FwInv, FwType, Job
    <2>7. FwType'
        BY <2>2, <2>6 DEF FwInv, FwType, Active
    <2>8. consumer'[c] = "verify" /\ \A d \in Checkers : d # c => consumer'[d] = consumer[d]
        BY <2>2 DEF FwInv, FwType
    <2>9. CheckInv(c)'
        BY <2>2, <2>3, <2>6, <2>8 DEF CheckInv, Chosen, Signed, Fresh, InStep, Active
    <2>10. ASSUME NEW d \in Checkers, d # c
           PROVE  CheckInv(d)'
        BY <2>2, <2>6, <2>8, <2>10, OtherChecker
    <2> QED
        BY <2>7, <2>9, <2>10 DEF FwInv
<1> QED
    BY <1>1, <1>2

LEMMA VerifyStep ==
    ASSUME FwInv, NEW c \in Checkers, VerifyBundle(c)
    PROVE  FwInv'
<1>1. CASE ~Verify(job[c].rel, job[c].rest)
    BY <1>1, ReturnStep DEF Return, VerifyBundle
<1>2. CASE Verify(job[c].rel, job[c].rest)
    <2>1. /\ consumer[c] = "verify" /\ consumer' = [consumer EXCEPT ![c] = "send"]
          /\ UNCHANGED <<scanned, installed, job, os>>
        BY <1>2 DEF VerifyBundle, Goes
    <2>2. consumer'[c] = "send" /\ \A d \in Checkers : d # c => consumer'[d] = consumer[d]
        BY <2>1 DEF FwInv, FwType
    <2>3. FwType'
        BY <2>1 DEF FwInv, FwType, Active
    <2>4. Chosen(c)' /\ Fresh(c)'
        BY <2>1, <2>2 DEF FwInv, CheckInv, Chosen, Fresh, Active
    <2>5. /\ job[c].rest = Firmware(job[c].rel) /\ job[c].seq = 0
          /\ Verifiers(Releases[job[c].rel].component) \subseteq Releases[job[c].rel].signers
        BY <1>2, <2>1 DEF Verify, BundleVerifies, FwInv, CheckInv, Fresh
    <2>6. Signed(c)' /\ InStep(c)'
        BY <2>1, <2>5 DEF Signed, InStep, Firmware
    <2>7. ASSUME NEW d \in Checkers, d # c
          PROVE  CheckInv(d)'
        BY <2>1, <2>2, <2>7, OtherChecker
    <2> QED
        BY <2>3, <2>4, <2>6, <2>7 DEF FwInv, CheckInv
<1> QED
    BY <1>1, <1>2

\* The OS takes a chunk: both ends move on by it.
LEMMA ChunkStep ==
    ASSUME FwInv, NEW c \in Checkers, SendChunk(c)
    PROVE  FwInv'
<1> DEFINE s == job[c].rest
           r == job[c].rel
           q == job[c].seq
           next == (q + 1) % SeqLimit
           before == IF q = 0 THEN <<>> ELSE os.buf
           left == SubSeq(s, Len(Image(s)) + 1, Len(s))
           new == [job[c] EXCEPT !.rest = left, !.seq = next]
           j == [job EXCEPT ![c] = new]
<1>1. /\ consumer[c] = "send" /\ Acceptable(c) /\ ~Last(s)
      /\ os' = [next |-> next, buf |-> Buffered(c)]
      /\ UNCHANGED <<consumer, scanned, installed>>
    BY DEF SendChunk, checkerVars
<1>2. /\ job[c] \in Job /\ s \in Seq(Bytes) /\ q \in Nat /\ os.buf \in Seq(Bytes)
      /\ CheckInv(c) /\ r \in 1 .. Len(Releases)
    BY <1>1 DEF FwInv, FwType, Job, CheckInv, Chosen, Active
<1>3. /\ Image(s) \in Seq(Bytes) /\ left \in Seq(Bytes)
      /\ Len(left) = Len(s) - ChunkSize /\ Image(s) \o left = s
    BY <1>1, <1>2, ChunkSplits
<1>4. Buffered(c) \in Seq(Bytes)
    BY <1>2, <1>3, ConcatProperties, EmptySeq DEF Buffered
<1>5. next \in Nat
    BY <1>2, FirmwareConstants, SMTT(30)
<1>6. /\ new \in Job /\ new.rel = r /\ new.rest = left /\ new.seq = next
      /\ new.disturbed = job[c].disturbed
    BY <1>2, <1>3, <1>5 DEF Job
<1>7. job' = Disturb(c, j)
    BY DEF SendChunk
<1>8. j \in [Checkers -> Job] /\ j[c] = new /\ \A d \in Checkers : d # c => j[d] = job[d]
    BY <1>6 DEF FwInv, FwType
<1> HIDE DEF j, new
<1>9. /\ job' \in [Checkers -> Job] /\ job'[c] = new
      /\ \A d \in Checkers : d # c =>
            \/ job'[d] = job[d] /\ job[d].seq = 0
            \/ job'[d] = [job[d] EXCEPT !.disturbed = TRUE]
    <2>1. /\ job' \in [Checkers -> Job] /\ job'[c] = j[c]
          /\ \A d \in Checkers : \/ job'[d] = j[d] /\ (d = c \/ j[d].seq = 0)
                                 \/ job'[d] = [j[d] EXCEPT !.disturbed = TRUE]
        BY <1>7, <1>8, DisturbType, SMTT(30)
    <2> QED
        BY <2>1, <1>8
<1>10. FwType'
    BY <1>1, <1>4, <1>5, <1>9 DEF FwInv, FwType
<1>11. Chosen(c)' /\ Signed(c)' /\ Fresh(c)'
    BY <1>1, <1>2, <1>6, <1>9 DEF CheckInv, Chosen, Signed, Fresh
<1>12. InStep(c)'
    <2> SUFFICES ASSUME ~job[c].disturbed
                 PROVE  /\ next # 0
                        /\ Buffered(c) \o left = Firmware(r)
                        /\ next + Len(left) <= Releases[r].len
        BY <1>1, <1>6, <1>9 DEF InStep, Firmware
    <2>1. /\ Releases[r].len \in Nat /\ Releases[r].len < SeqLimit
          /\ Len(Firmware(r)) = Releases[r].len
        BY <1>2, ReleaseType
    <2>2. Len(s) \in Nat /\ Len(s) > ChunkSize /\ ChunkSize \in Nat \ {0} /\ SeqLimit \in Nat
        BY <1>1, <1>2, FirmwareConstants, SMTT(30) DEF Last
    <2>3. InStep(c) /\ consumer[c] = "send"
        BY <1>1, <1>2 DEF CheckInv
    <2>4. q + Len(s) <= Releases[r].len /\ before \o s = Firmware(r)
        <3>1. CASE q = 0
            <4>1. s = Firmware(r) /\ <<>> \o s = s
                BY <3>1, <2>3, <1>2, ConcatEmptySeq DEF InStep
            <4> QED
                BY <4>1, <3>1, <2>1, SMTT(30)
        <3>2. CASE q # 0
            BY <3>2, <2>3 DEF InStep
        <3> QED
            BY <3>1, <3>2
    <2>5. next = q + 1 /\ q + 1 + (Len(s) - ChunkSize) <= Releases[r].len
        BY <2>1, <2>2, <2>4, <1>2, SequenceCounts
    <2>6. next # 0 /\ next + Len(left) <= Releases[r].len
        <3>1. q + 1 # 0
            BY <1>2, SMTT(30)
        <3> QED
            BY <2>5, <3>1, <1>3
    <2>7. Buffered(c) \o left = before \o (Image(s) \o left)
        <3>1. before \in Seq(Bytes)
            BY <1>2, EmptySeq
        <3>2. Buffered(c) = before \o Image(s)
            BY DEF Buffered
        <3>3. Image(s) \in Seq(Bytes) /\ left \in Seq(Bytes)
            BY <1>3
        <3> HIDE DEF before, left, s
        <3>4. (before \o Image(s)) \o left = before \o (Image(s) \o left)
            BY <3>1, <3>3, BytesAssociative
        <3> QED
            BY <3>2, <3>4
    <2> QED
        BY <2>4, <2>6, <2>7, <1>3
<1>13. ASSUME NEW d \in Checkers, d # c
       PROVE  CheckInv(d)'
    BY <1>1, <1>9, <1>13, OtherChecker
<1> QED
    BY <1>10, <1>11, <1>12, <1>13 DEF FwInv, CheckInv

LEMMA InstallStep ==
    ASSUME FwInv, NEW c \in Checkers, Install(c)
    PROVE  /\ FwInv'
           /\ LET r == job[c].rel
              IN  /\ r > installed[Releases[r].component]
                  /\ Releases[r].component \in {"OS", "applet"}
                  /\ Verifiers(Releases[r].component) \subseteq Releases[r].signers
                  /\ installed' = [installed EXCEPT ![Releases[r].component] = r]
<1>1. NoJob \in Job /\ Empty \in [next : Nat, buf : Seq(Bytes)] /\ NoJob.seq = 0
    BY ReleaseCount, EmptySeq, SMTT(30) DEF NoJob, Empty, Job
<1>2. /\ consumer[c] = "send" /\ Chosen(c) /\ Signed(c)
      /\ consumer' = [d \in Checkers |-> "select"] /\ scanned' = [d \in Checkers |-> 0]
      /\ job' = [d \in Checkers |-> NoJob] /\ os' = Empty
      /\ installed' = [installed EXCEPT ![Releases[job[c].rel].component] = job[c].rel]
    BY DEF FwInv, CheckInv, Install
<1>3. installed' \in [Components -> Nat]
    <2>1. job[c].rel \in Nat /\ installed \in [Components -> Nat]
        BY <1>2, ReleaseCount, SMTT(30) DEF FwInv, FwType, Chosen, Active
    <2> QED
        BY <2>1, <1>2
<1>4. FwType'
    BY <1>1, <1>2, <1>3, ReleaseCount, SMTT(30) DEF FwType
<1>5. \A d \in Checkers : CheckInv(d)'
    BY <1>1, <1>2 DEF CheckInv, Chosen, Signed, Fresh, InStep, Active
<1> QED
    BY <1>2, <1>4, <1>5 DEF FwInv, Chosen, Signed, Active

LEMMA FwInit ==
    Init => FwInv
<1> SUFFICES ASSUME Init PROVE FwInv
    OBVIOUS
<1>1. NoJob \in Job /\ Empty \in [next : Nat, buf : Seq(Bytes)] /\ NoJob.seq = 0
    BY ReleaseCount, EmptySeq, SMTT(30) DEF NoJob, Empty, Job
<1>2. FwType
    BY <1>1, ReleaseCount, SMTT(30) DEF Init, CheckerInit, FwType
<1>3. \A d \in Checkers : CheckInv(d)
    BY <1>1 DEF Init, CheckerInit, CheckInv, Chosen, Signed, Fresh, InStep, Active
<1> QED
    BY <1>2, <1>3 DEF FwInv

LEMMA FwNext ==
    ASSUME FwInv, [Next]_vars
    PROVE  FwInv'
<1>1. CASE UNCHANGED vars
    <2>1. FwType'
        BY <1>1 DEF vars, checkerVars, fwVars, FwInv, FwType
    <2>2. \A d \in Checkers : CheckInv(d)'
        BY <1>1, OtherChecker DEF vars, checkerVars, fwVars
    <2> QED
        BY <2>1, <2>2 DEF FwInv
<1>2. CASE CheckerNext /\ UNCHANGED fwVars
    BY <1>2, CheckerStep
<1>3. ASSUME NEW c \in Checkers, UpdateStep(c)
      PROVE  FwInv'
    <2>1. CASE OSRefuses(c) \/ SendFails(c)
        BY <2>1, ReturnStep DEF OSRefuses, SendFails, Return
    <2> QED
        BY <1>3, <2>1, ScanStep, UpdateStepInv, DownloadStep, VerifyStep, ChunkStep, InstallStep
           DEF UpdateStep
<1> QED
    BY <1>1, <1>2, <1>3 DEF Next

(***************************************************************************)
(* What Verify has accepted is what the OS gets, and is accepted by it     *)
(* unless another checker sends at the same time (update_client.go:61-79). *)
(***************************************************************************)
THEOREM OSGetsWhatWasVerified == Spec => []SentAsVerified
<1>1. FwInv => SentAsVerified
    BY InStepAccepted DEF SentAsVerified
<1> QED
    BY <1>1, FwInit, FwNext, PTL DEF Spec

(***************************************************************************)
(* Only newer releases are installed, signed by all keys of the component  *)
(* (update.go:140-160).                                                    *)
(***************************************************************************)
THEOREM OnlySignedInstalled == Spec => InstallsSigned
<1>1. FwInv /\ [Next]_vars =>
        \A x \in Components :
           LET r == installed'[x]
           IN r # installed[x] => /\ r > installed[x]
                                  /\ Releases[r].component = x /\ x \in {"OS", "applet"}
                                  /\ Verifiers(x) \subseteq Releases[r].signers
    <2> SUFFICES ASSUME FwInv, [Next]_vars, NEW x \in Components, installed'[x] # installed[x]
                 PROVE  LET r == installed'[x]
                        IN  /\ r > installed[x]
                            /\ Releases[r].component = x /\ x \in {"OS", "applet"}
                            /\ Verifiers(x) \subseteq Releases[r].signers
        OBVIOUS
    <2>1. PICK c \in Checkers : Install(c)
        BY DEF Next, vars, fwVars, UpdateStep, ScanLog, Update, readHTTP, VerifyBundle, SendChunk,
               OSRefuses, SendFails
    <2>2. installed \in [Components -> Nat]
        BY DEF FwInv, FwType
    <2> QED
        BY <2>1, <2>2, InstallStep
<1> QED
    BY <1>1, FwInit, FwNext, PTL DEF Spec, InstallsSigned
-----------------------------------------------------------------------------
LEMMA CheckerNextType ==
    ASSUME CheckerTypeOK, CheckerNext
    PROVE  CheckerTypeOK'
<1>1. CASE Cancel
    BY <1>1 DEF Cancel, channel, CheckerTypeOK
<1>2. ASSUME NEW c \in Checkers, Start(c) \/ Tick(c) \/ TickerStops(c) PROVE CheckerTypeOK'
    <2>1. CASE Start(c)
        BY <2>1 DEF Start, channel, CheckerTypeOK
    <2>2. CASE Tick(c)
        BY <2>2, SMTT(30) DEF Tick, channel, CheckerTypeOK
    <2>3. CASE TickerStops(c)
        BY <2>3 DEF TickerStops, CheckerTypeOK
    <2> QED
        BY <1>2, <2>1, <2>2, <2>3
<1>3. ASSUME NEW c \in Checkers, TickerSends(c) PROVE CheckerTypeOK'
    BY <1>3, CheckerConstants, SMTT(30) DEF TickerSends, CheckerTypeOK
<1>4. ASSUME NEW c \in Checkers, Receive(c) PROVE CheckerTypeOK'
    BY <1>4, CheckerConstants, SMTT(30) DEF Receive, Goes, CheckerTypeOK
<1>5. ASSUME NEW c \in Checkers, ConsumerStops(c) \/ Create(c) PROVE CheckerTypeOK'
    BY <1>5 DEF ConsumerStops, Create, Goes, afterFailedCreate, channel, CheckerTypeOK
<1>6. ASSUME NEW c \in Checkers, NEW h \in Handlers, Request(h, c) PROVE CheckerTypeOK'
    BY <1>6, CheckerConstants, SMTT(30) DEF Request, channel, Checkers, CheckerTypeOK
<1>7. ASSUME NEW h \in Handlers, HandlerSends(h) PROVE CheckerTypeOK'
    <2>1. handler[h] \in Checkers
        BY <1>7, CheckerConstants, SMTT(30) DEF HandlerSends, Checkers, CheckerTypeOK
    <2>2. queued' \in [Checkers -> 0 .. Capacity]
        BY <1>7, <2>1, CheckerConstants, SMTT(30) DEF HandlerSends, CheckerTypeOK
    <2>3. handler' \in [Handlers -> 0 .. MaxCheckers]
        BY <1>7, CheckerConstants, SMTT(30) DEF HandlerSends, CheckerTypeOK
    <2> QED
        BY <1>7, <2>2, <2>3 DEF HandlerSends, CheckerTypeOK
<1> QED
    BY <1>1, <1>2, <1>3, <1>4, <1>5, <1>6, <1>7 DEF CheckerNext, ConsumerStep

LEMMA UpdateStepType ==
    ASSUME CheckerTypeOK, NEW c \in Checkers, UpdateStep(c)
    PROVE  CheckerTypeOK'
<1>1. CASE Install(c)
    BY <1>1, CheckerConstants, SMTT(30) DEF Install, CheckerTypeOK
<1>2. CASE SendChunk(c)
    BY <1>2 DEF SendChunk, checkerVars, channel, CheckerTypeOK
<1>3. CASE ~Install(c) /\ ~SendChunk(c)
    <2>1. /\ UNCHANGED <<ctx, channel, ticker, updaterReady, handler, triggers>>
          /\ \E s \in {"select", "update", "fetch", "verify", "send"} : Goes(c, s)
        BY <1>3 DEF UpdateStep, ScanLog, Scan, Update, readHTTP, VerifyBundle, OSRefuses,
                    SendFails, Return, UpdateReturns
    <2> QED
        BY <2>1 DEF Goes, channel, CheckerTypeOK
<1> QED
    BY <1>1, <1>2, <1>3

\* Type correctness of the checkers and of their updates.
THEOREM TypeCorrect == Spec => []TypeOK
<1>1. Init => CheckerTypeOK
    BY CheckerConstants, SMTT(30) DEF Init, CheckerInit, CheckerTypeOK
<1>2. CheckerTypeOK /\ [Next]_vars => CheckerTypeOK'
    <2>1. CheckerTypeOK /\ UNCHANGED vars => CheckerTypeOK'
        BY DEF vars, checkerVars, channel, CheckerTypeOK
    <2> QED
        BY <2>1, CheckerNextType, UpdateStepType DEF Next
<1>3. CheckerTypeOK /\ FwInv => TypeOK
    BY DEF FwInv, FwType, TypeOK
<1> QED
    BY <1>1, <1>2, <1>3, FwInit, FwNext, PTL DEF Spec
-----------------------------------------------------------------------------
\* While its context is live a checker keeps receiving and its channel stays open.
CheckerServes ==
    \A c \in Checkers :
        /\ closed[c] <=> ticker[c] = "done"
        /\ closed[c] \/ consumer[c] = "done" => ctx[c] = "done"

LEMMA ServesStep ==
    ASSUME CheckerTypeOK, CheckerServes, CheckerNext
    PROVE  CheckerServes'
<1>1. CASE Cancel
    BY <1>1 DEF Cancel, channel, CheckerTypeOK, CheckerServes
<1>2. ASSUME NEW c \in Checkers, Start(c) PROVE CheckerServes'
    BY <1>2 DEF Start, channel, CheckerTypeOK, CheckerServes
<1>3. ASSUME NEW c \in Checkers, Tick(c) \/ TickerSends(c) PROVE CheckerServes'
    <2>1. /\ ticker[c] # "done" /\ ticker'[c] # "done"
          /\ \A d \in Checkers : d # c => ticker'[d] = ticker[d]
        BY <1>3 DEF Tick, TickerSends, CheckerTypeOK
    <2>2. UNCHANGED <<ctx, closed, consumer>>
        BY <1>3 DEF Tick, TickerSends, channel
    <2> QED
        BY <2>1, <2>2 DEF CheckerServes
<1>4. ASSUME NEW c \in Checkers, TickerStops(c) PROVE CheckerServes'
    <2>1. /\ ctx[c] = "done" /\ closed'[c] /\ ticker'[c] = "done"
          /\ \A d \in Checkers : d # c => closed'[d] = closed[d] /\ ticker'[d] = ticker[d]
        BY <1>4 DEF TickerStops, CheckerTypeOK
    <2>2. UNCHANGED <<ctx, consumer>>
        BY <1>4 DEF TickerStops
    <2> QED
        BY <2>1, <2>2 DEF CheckerServes
<1>5. ASSUME NEW c \in Checkers, ConsumerStep(c) PROVE CheckerServes'
    <2>1. UNCHANGED <<ctx, closed, ticker>>
        BY <1>5 DEF ConsumerStep, Receive, ConsumerStops, Create, channel
    <2>2. \A d \in Checkers : \/ consumer'[d] = consumer[d] \/ consumer'[d] # "done"
                              \/ closed[d] \/ ctx[d] = "done"
        BY <1>5, SMTT(30) DEF ConsumerStep, Receive, ConsumerStops, Create, afterFailedCreate,
                              Goes, CheckerTypeOK
    <2> QED
        BY <2>1, <2>2 DEF CheckerServes
<1>6. ASSUME NEW h \in Handlers, HandlerSends(h) \/ \E c \in Checkers : Request(h, c)
      PROVE  CheckerServes'
    <2>1. UNCHANGED <<ctx, closed, ticker, consumer>>
        BY <1>6 DEF HandlerSends, Request, channel
    <2> QED
        BY <2>1 DEF CheckerServes
<1> QED
    BY <1>1, <1>2, <1>3, <1>4, <1>5, <1>6 DEF CheckerNext

LEMMA ServesUpdate ==
    ASSUME CheckerTypeOK, CheckerServes, NEW c \in Checkers, UpdateStep(c)
    PROVE  CheckerServes'
<1>1. CASE Install(c)
    BY <1>1 DEF Install, CheckerServes
<1>2. CASE SendChunk(c)
    BY <1>2 DEF SendChunk, checkerVars, channel, CheckerServes
<1>3. CASE ~Install(c) /\ ~SendChunk(c)
    <2>1. /\ UNCHANGED <<ctx, channel, ticker, updaterReady, handler, triggers>>
          /\ \E s \in {"select", "update", "fetch", "verify", "send"} : Goes(c, s)
        BY <1>3 DEF UpdateStep, ScanLog, Scan, Update, readHTTP, VerifyBundle, OSRefuses,
                    SendFails, Return, UpdateReturns
    <2>2. \A d \in Checkers : consumer'[d] = consumer[d] \/ consumer'[d] # "done"
        BY <2>1, SMTT(30) DEF Goes, CheckerTypeOK
    <2> QED
        BY <2>1, <2>2 DEF channel, CheckerServes
<1> QED
    BY <1>1, <1>2, <1>3

(***************************************************************************)
(* While the context of a checker is live, its channel is open and its     *)
(* consumer comes back to receive: no error of a check ends the goroutine, *)
(* and only the ticker closes trigger, once, as its last step (main.go:    *)
(* 403-445).  A handler thus never panics on the channel of a live checker *)
(* nor waits for a consumer that is gone, on which RequestAnswered rests.  *)
(***************************************************************************)
THEOREM LiveCheckerServes == Spec => []CheckerServes
<1>1. Init => CheckerTypeOK /\ CheckerServes
    <2>1. Init => CheckerTypeOK
        BY CheckerConstants, SMTT(30) DEF Init, CheckerInit, CheckerTypeOK
    <2> QED
        BY <2>1 DEF Init, CheckerInit, CheckerServes
<1>2. CheckerTypeOK /\ CheckerServes /\ [Next]_vars => (CheckerTypeOK /\ CheckerServes)'
    <2>1. CheckerTypeOK /\ CheckerServes /\ UNCHANGED vars => (CheckerTypeOK /\ CheckerServes)'
        BY DEF vars, checkerVars, channel, CheckerTypeOK, CheckerServes
    <2> QED
        BY <2>1, CheckerNextType, UpdateStepType, ServesStep, ServesUpdate DEF Next
<1> QED
    BY <1>1, <1>2, PTL DEF Spec
-----------------------------------------------------------------------------
\* What a checker has left to send becomes shorter by a chunk, or it does not move.
Shortens(c) ==
    consumer[c] = "send" /\ consumer'[c] = "send" =>
        /\ job'[c].rel = job[c].rel
        /\ \/ job'[c].rest = job[c].rest /\ job'[c].seq = job[c].seq
           \/ /\ Len(job'[c].rest) = Len(job[c].rest) - ChunkSize /\ Len(job'[c].rest) > 0
              /\ job'[c].seq = (job[c].seq + 1) % SeqLimit

SendAdvances == \A c \in Checkers : Shortens(c)

LEMMA KeptShortens ==
    ASSUME FwInv, NEW d \in Checkers,
           job'[d] = job[d] \/ job'[d] = [job[d] EXCEPT !.disturbed = TRUE]
    PROVE  Shortens(d)
<1>1. job[d] \in Job
    BY DEF FwInv, FwType
<1>2. job'[d].rel = job[d].rel /\ job'[d].rest = job[d].rest /\ job'[d].seq = job[d].seq
    BY <1>1 DEF Job
<1> QED
    BY <1>2 DEF Shortens

LEMMA ChunkShortens ==
    ASSUME FwInv, NEW c \in Checkers, SendChunk(c)
    PROVE  SendAdvances
<1> DEFINE s == job[c].rest
           left == SubSeq(s, Len(Image(s)) + 1, Len(s))
           next == (job[c].seq + 1) % SeqLimit
           new == [job[c] EXCEPT !.rest = left, !.seq = next]
           j == [job EXCEPT ![c] = new]
<1>1. job[c] \in Job /\ s \in Seq(Bytes) /\ job[c].seq \in Nat /\ ~Last(s)
    BY DEF FwInv, FwType, Job, SendChunk
<1>2. left \in Seq(Bytes) /\ Len(left) = Len(s) - ChunkSize
    BY <1>1, ChunkSplits
<1>3. Len(s) - ChunkSize > 0
    BY <1>1, FirmwareConstants, LenProperties, SMTT(30) DEF Last
<1>4. next \in Nat
    BY <1>1, FirmwareConstants, SMTT(30)
<1>5. new \in Job /\ new.rel = job[c].rel /\ new.rest = left /\ new.seq = next
    BY <1>1, <1>2, <1>4 DEF Job
<1>6. job' = Disturb(c, j)
    BY DEF SendChunk
<1>7. j \in [Checkers -> Job] /\ j[c] = new /\ \A d \in Checkers : d # c => j[d] = job[d]
    BY <1>5 DEF FwInv, FwType
<1> HIDE DEF j, new
<1>8. /\ job'[c] = new
      /\ \A d \in Checkers :
            d # c => job'[d] = job[d] \/ job'[d] = [job[d] EXCEPT !.disturbed = TRUE]
    <2>1. /\ job'[c] = j[c]
          /\ \A d \in Checkers : job'[d] = j[d] \/ job'[d] = [j[d] EXCEPT !.disturbed = TRUE]
        BY <1>6, <1>7, DisturbType, SMTT(30)
    <2> QED
        BY <2>1, <1>7
<1>9. Shortens(c)
    BY <1>2, <1>3, <1>5, <1>8 DEF Shortens
<1> QED
    BY <1>8, <1>9, KeptShortens DEF SendAdvances

LEMMA OtherShortens ==
    ASSUME FwInv, NEW c \in Checkers, UpdateStep(c), ~SendChunk(c), ~Install(c)
    PROVE  SendAdvances
<1>1. consumer[c] # "send" \/ consumer'[c] # "send"
    BY DEF UpdateStep, ScanLog, Scan, Update, readHTTP, VerifyBundle, OSRefuses, SendFails,
           Return, UpdateReturns, Goes, FwInv, FwType
<1>2. ASSUME NEW d \in Checkers, d # c
      PROVE  job'[d] = job[d] \/ job'[d] = [job[d] EXCEPT !.disturbed = TRUE]
    <2>1. CASE OSRefuses(c)
        <3> DEFINE j == [job EXCEPT ![c] = NoJob]
        <3>1. job' = Disturb(c, j) /\ j[d] = job[d]
            BY <2>1, <1>2 DEF OSRefuses, FwInv, FwType
        <3> QED
            BY <3>1 DEF Disturb
    <2>2. CASE ~OSRefuses(c)
        BY <2>2, <1>2 DEF UpdateStep, ScanLog, Update, readHTTP, VerifyBundle, SendFails, Return,
                          FwInv, FwType
    <2> QED
        BY <2>1, <2>2
<1>3. Shortens(c)
    BY <1>1 DEF Shortens
<1> QED
    BY <1>2, <1>3, KeptShortens DEF SendAdvances

(***************************************************************************)
(* Every chunk that the OS takes shortens what is left of the binary, by   *)
(* its own length, and never to nothing: the loop of sendChunkedUpdate,    *)
(* which has no exit of its own, ends with the last chunk or an error      *)
(* after as many rounds as there are chunks, whatever the other checkers   *)
(* do (update_client.go:61-79).  This is the variant behind SendEnds.      *)
(***************************************************************************)
THEOREM EveryChunkAdvances == Spec => [][SendAdvances]_vars
<1>1. FwInv /\ Next => SendAdvances
    <2> SUFFICES ASSUME FwInv, Next PROVE SendAdvances
        OBVIOUS
    <2>1. CASE UNCHANGED fwVars
        BY <2>1, KeptShortens DEF fwVars, SendAdvances
    <2>2. ASSUME NEW c \in Checkers, Install(c) PROVE SendAdvances
        BY <2>2 DEF Install, SendAdvances, Shortens
    <2> QED
        BY <2>1, <2>2, ChunkShortens, OtherShortens DEF Next
<1> QED
    BY <1>1, FwInit, FwNext, PTL DEF Spec
=============================================================================

------------------------------ MODULE PlatformIo ------------------------------
(***************************************************************************)
(* How a failure below the protocols is told to the caller (src/io/mod.rs,  *)
(* and the ESP-IDF connector, src/io/esp_idf.rs, that most of it is for):   *)
(* the verdict on a certificate, the class of an error code, the count of a *)
(* read, the outcome of a read that races its deadline.  Callers act on it: *)
(* they retry, or they offer to trust a certificate on first use.           *)
(*                                                                         *)
(* An mbedTLS verification mask is the set of its flags; an mbedTLS code is *)
(* an integer, as in C.                                                     *)
(***************************************************************************)
EXTENDS Integers, Sequences, FiniteSets, Options, Inputs

(***************************************************************************)
(* Certificates.                                                            *)
(***************************************************************************)
\* The precedence of the flags, the most fundamental defect first.
\* (Mutant: the missing anchor comes before the dates.)
VerdictOrderMutant ==
  <<[flags |-> {"MISSING"}, as |-> "Missing"],
    [flags |-> {"BAD_PK"}, as |-> "UnsupportedAlgorithm"],
    [flags |-> {"KEY_USAGE"}, as |-> "InvalidPurpose"],
    [flags |-> {"REVOKED"}, as |-> "Revoked"],
    [flags |-> {"NOT_TRUSTED"}, as |-> "UntrustedAnchor"],
    [flags |-> {"EXPIRED"}, as |-> "Expired"],
    [flags |-> {"FUTURE"}, as |-> "NotYetValid"],
    [flags |-> {"CN_MISMATCH"}, as |-> "NameMismatch"]>>
VerdictOrder ==
  <<[flags |-> {"MISSING"}, as |-> "Missing"],
    [flags |-> {"BAD_MD", "BAD_PK", "BAD_KEY"}, as |-> "UnsupportedAlgorithm"],
    [flags |-> {"KEY_USAGE", "EXT_KEY_USAGE", "NS_CERT_TYPE"}, as |-> "InvalidPurpose"],
    [flags |-> {"REVOKED"}, as |-> "Revoked"],
    [flags |-> {"EXPIRED"}, as |-> "Expired"],
    [flags |-> {"FUTURE"}, as |-> "NotYetValid"],
    [flags |-> {"NOT_TRUSTED"}, as |-> "UntrustedAnchor"],
    [flags |-> {"CN_MISMATCH"}, as |-> "NameMismatch"]>>

\* What is found is never None, which is nothing found.
Verdicts == {VerdictOrder[i].as : i \in DOMAIN VerdictOrder} \cup {"Unspecified"}
ErrorKinds == {"ConnectionReset", "ConnectionAborted", "OutOfMemory"}
ASSUME FoundAssumption == None \notin Verdicts \cup ErrorKinds

\* map_mbedtls_verify_flags; `ran` is FALSE for the mask u32::MAX.
MapVerifyFlags(ran, flags) ==
  LET measured == flags \ {"SKIP_VERIFY"}
      hits == {i \in DOMAIN VerdictOrder : VerdictOrder[i].flags \cap measured # {}}
      first == CHOOSE i \in hits : \A j \in hits : i <= j IN
  IF ~ran \/ measured = {} THEN None
  ELSE IF hits = {} THEN "Unspecified" ELSE VerdictOrder[first].as

\* account_for_trust_store
\* (Mutant: any verdict is the store's fault when the store is short.)
AccountForTrustStoreMutant(failure, loaded, expected) ==
  IF loaded < expected THEN "IncompleteTrustStore" ELSE failure
AccountForTrustStore(failure, loaded, expected) ==
  IF failure = "UntrustedAnchor" /\ loaded < expected THEN "IncompleteTrustStore" ELSE failure

(***************************************************************************)
(* Error codes.                                                             *)
(***************************************************************************)
ConnectionReset == {-80, -29312, -30848}   \* NET_CONN_RESET, CONN_EOF, PEER_CLOSE_NOTIFY
ConnectionAborted == {-76, -78}            \* NET_RECV_FAILED, NET_SEND_FAILED
\* ALLOC_FAILED: MPI, ASN1, PEM, X509, DHM, PK, ECP, MD, CIPHER, SSL
AllocFailed == {-16, -106, -4480, -10368, -13312, -16256, -19840, -20864, -24960, -32512}

\* is_mbedtls_alloc_failure: either part of the code.
\* (Mutant: the whole code.)
IsAllocFailureMutant(code) == code \in AllocFailed
IsAllocFailure(code) ==
  LET magnitude == -code IN
  /\ magnitude > 0
  /\ \/ -(magnitude % 128) \in AllocFailed
     \/ -(magnitude - (magnitude % 128)) \in AllocFailed

\* mbedtls_error_kind
MbedtlsErrorKind(code) ==
  CASE code \in ConnectionReset -> "ConnectionReset"
    [] code \in ConnectionAborted -> "ConnectionAborted"
    [] OTHER -> IF IsAllocFailure(code) THEN "OutOfMemory" ELSE None

\* mbedtls_code_from_esp_tls_record
CodeFromRecord(recorded) == -recorded

\* map_embedded_io_error_kind
MapErrorKind(kind) ==
  CASE kind \in {"ConnectionRefused", "ConnectionAborted", "ConnectionReset", "NotConnected",
                 "TimedOut", "AddrInUse", "AddrNotAvailable", "InvalidInput"} -> kind
    [] kind = "BrokenPipe" -> "ConnectionReset"
    [] kind = "OutOfMemory" -> "ResourceExhausted"
    [] OTHER -> "Other"

\* map_io_error_kind, on what std reports
MapStdKind(kind) ==
  CASE kind = "UnexpectedEof" -> "ConnectionReset"
    [] kind \in {"StorageFull", "HostUnreachable"} -> "Other"
    [] OTHER -> kind

\* map_esp_tls_connect_error: from the two records of a failed step.
MapConnectError(espErr, recorded) ==
  LET kind == IF recorded = None THEN None ELSE MbedtlsErrorKind(CodeFromRecord(recorded)) IN
  IF kind # None THEN MapErrorKind(kind)
  ELSE IF espErr = "ESP_ERR_NO_MEM" THEN "ResourceExhausted" ELSE "Other"

\* connect, where a handshake step fails for good: the certificate's verdict, if
\* there is one, before the code's.
HandshakeFailure(ran, flags, loaded, expected, espErr, recorded) ==
  LET verdict == MapVerifyFlags(ran, flags) IN
  IF verdict # None THEN AccountForTrustStore(verdict, loaded, expected)
  ELSE MapConnectError(espErr, recorded)

(***************************************************************************)
(* Reads and deadlines.                                                     *)
(***************************************************************************)
ReadCap == 256
NoCap == 65536   \* usize::MAX

\* esp_tls_read_cap
\* (Mutant: a session of unknown version is not capped.)
EspTlsReadCapMutant(reachable, version) ==
  IF reachable /\ version = "Tls13" THEN ReadCap ELSE NoCap
EspTlsReadCap(reachable, version) ==
  IF reachable /\ version # "Tls12" THEN ReadCap ELSE NoCap

\* EspIdfTlsStream::read asks for this many bytes.
Requested(len, cap) == IF len < cap THEN len ELSE cap

\* esp_tls_read_count
EspTlsReadCount(n, requested) ==
  IF n <= requested THEN [ok |-> TRUE, n |-> n, as |-> "bytes"]
  ELSE [ok |-> FALSE, n |-> 0,
        as |-> MapErrorKind(IF n = 257 THEN "OutOfMemory" ELSE "Other")]

\* deadline_error and timer_failure_error
DeadlineError(slept) ==
  CASE slept = "ok" -> "TimedOut"
    [] slept = "exhausted" -> "ResourceExhausted"
    [] OTHER -> "Other"

\* race: the read is polled first.
\* (Mutant: the deadline is.)
RaceMutant(read, slept) == IF slept # "pending" THEN "sleep" ELSE "read"
Race(read, slept) == IF read # "pending" THEN "read" ELSE "sleep"

ReadResult(read) ==
  CASE read = "eof" -> "ConnectionReset"
    [] read = "bytes" -> "bytes"
    [] OTHER -> MapErrorKind(read)

\* read_chunk, at the poll that ends it: remaining is None without a real clock.
ReadChunkOutcome(remaining, read, slept) ==
  CASE remaining = None -> ReadResult(read)
    [] remaining = 0 -> "TimedOut"
    [] OTHER -> IF Race(read, slept) = "read" THEN ReadResult(read) ELSE DeadlineError(slept)

(***************************************************************************)
(* Inputs and properties.                                                   *)
(***************************************************************************)
Flags == {"MISSING", "BAD_PK", "KEY_USAGE", "REVOKED", "EXPIRED", "FUTURE", "NOT_TRUSTED",
          "CN_MISMATCH", "SKIP_VERIFY", "OTHER"}
HighCodes == {0, 128, 4480, 9088, 10368, 32512}
LowCodes == {0, 14, 16, 76, 80, 106, 104}

IoInputs ==
  [of : {"handshake"}, ran : BOOLEAN, flags : SUBSET Flags, loaded : 0..2, expected : 1..2]
    \cup [of : {"code"}, high : HighCodes, low : LowCodes, espErr : {None, "ESP_ERR_NO_MEM"},
          recorded : BOOLEAN]
    \cup [of : {"esp-read"}, reachable : BOOLEAN, version : {None, "Tls12", "Tls13"},
          len : {1, 256, 257, 4096}, ticketFails : {0, 257, 32794}]
    \cup [of : {"read"}, remaining : {None, 0, 7},
          read : {"pending", "bytes", "eof", "BrokenPipe", "OutOfMemory", "PermissionDenied"},
          slept : {"pending", "ok", "exhausted", "failed"}]
    \cup [of : {"std"}, kind : {"UnexpectedEof", "OutOfMemory", "Interrupted", "BrokenPipe",
          "PermissionDenied", "HostUnreachable", "TimedOut", "ConnectionRefused"}]

\* UntrustedAnchor, the one failure for which a caller may offer to trust the
\* certificate on first use, is given only where nothing else is wrong but the
\* name, every anchor was there to be tried, and verification ran; whatever the
\* record of codes holds, a measured defect is a certificate failure
\* (io/mod.rs:83, io/mod.rs:443).
CaptureOnlySound ==
  Given("handshake") =>
    LET out == HandshakeFailure(input.ran, input.flags, input.loaded, input.expected, None, 80)
        measured == input.flags \ {"SKIP_VERIFY"} IN
    /\ (out = "UntrustedAnchor") =
         (/\ input.ran /\ input.loaded >= input.expected
          /\ "NOT_TRUSTED" \in measured
          /\ measured \subseteq {"NOT_TRUSTED", "CN_MISMATCH", "OTHER"})
    /\ (out = "IncompleteTrustStore") =>
         measured \subseteq {"NOT_TRUSTED", "CN_MISMATCH", "OTHER"}
    /\ (out = "ConnectionReset") = (~input.ran \/ measured = {})

\* Exhausted memory is reported as that by every path that can meet it (either
\* part of an mbedTLS code, from the call or from ESP-IDF's negated record, the
\* ESP record, a std error, a timer that could not be allocated), and nothing
\* else is: a caller waits for memory instead of redialling.
ExhaustionReported ==
  /\ Given("code") =>
       LET code == -(input.high + input.low)
           whole == code \in ConnectionReset \cup ConnectionAborted
           out == MapConnectError(input.espErr, IF input.recorded THEN -code ELSE None) IN
       (out = "ResourceExhausted") =
         (\/ input.recorded /\ ~whole /\ {-input.high, -input.low} \cap AllocFailed # {}
          \/ (~input.recorded \/ ~whole) /\ input.espErr = "ESP_ERR_NO_MEM")
  /\ Given("std") =>
       ((MapErrorKind(MapStdKind(input.kind)) = "ResourceExhausted") = (input.kind = "OutOfMemory"))
  /\ Given("std") /\ input.kind \in {"Interrupted", "PermissionDenied"} =>
       MapErrorKind(MapStdKind(input.kind)) = "Other"

\* An error code that esp_tls returns as a count is never handed out as that
\* many bytes, whatever buffer the caller reads into (io/mod.rs:386).
ErrorCodeNeverData ==
  Given("esp-read") =>
    LET meets == input.reachable /\ input.version # "Tls12" /\ input.ticketFails # 0
        asked == Requested(input.len, EspTlsReadCap(input.reachable, input.version))
        n == IF meets THEN input.ticketFails ELSE asked
        out == EspTlsReadCount(n, asked) IN
    out.ok = ~meets /\ out.n <= input.len

\* A read that has its bytes returns them even if the deadline passes at the
\* same poll, so no byte is taken off the stream and dropped; and a timeout is
\* reported only when the clock says so, never because the timer failed.
ReadBeatsDeadline ==
  Given("read") /\ ~(input.read = "pending" /\ (input.slept = "pending" \/ input.remaining = None)) =>
    LET out == ReadChunkOutcome(input.remaining, input.read, input.slept) IN
    /\ (input.read = "bytes" /\ input.remaining # 0) = (out = "bytes")
    /\ (out = "TimedOut") => (input.remaining = 0 \/ input.slept = "ok")
===============================================================================

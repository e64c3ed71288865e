------------------------------ MODULE KProfiles ------------------------------
(***************************************************************************)
(* The pressure-advance table: PrinterClient::get_k_profiles                *)
(* (src/client/ams.rs) and what it reads (src/diagnostics/kprofile.rs).     *)
(* Firmware ignores the first extrusion_cali_get of a connection, so the    *)
(* client spends one on it before it asks; the flag that says this is done  *)
(* is one of those begin_connection resets (src/client/connect.rs), while   *)
(* the connection itself is dialled lazily, inside the publish that the     *)
(* flag was read for.                                                       *)
(***************************************************************************)
EXTENDS Integers, FiniteSets, Options

CONSTANT MaxAsked   \* bound: requests minted

VARIABLES
  kLive,    \* is PrinterClient.mqtt there?
  primed,   \* k_profile_primed
  heard,    \* extrusion_cali_get requests the printer has had on this connection
  kStep,    \* where get_k_profiles is: "none", "prime", "ask" or "wait"
  kSeq,     \* the last sequence id minted
  kAsked,   \* the call's nozzle_diameter: the table it asks for, or None for all
  replies,  \* replies on the wire and in the session's buffer
  answer,   \* the last answer a caller was given: [asked, reply], or None
  wasted,   \* history: is the request now awaited the first of its connection?
  ownRisk   \* history: is the flag up because the caller set it, or dropped a
            \* disconnect or an attach?

kVars == <<kLive, primed, heard, kStep, kSeq, kAsked, replies, answer, wasted, ownRisk>>

Diameters == {"0.4", "0.6"}
ASSUME DiametersAssumption == None \notin Diameters

\* The entries of a table, one for a diameter; those of the set names carry it.
Table(asked) == IF asked = None THEN Diameters ELSE {asked}
Entries(asked, names) ==
  {[is |-> d, named |-> IF d \in names THEN d ELSE None] : d \in Table(asked)}
\* The envelope's nozzle_diameter and an entry's are both optional; `of` says which
\* request the reply answers, which the code has from its sequence id alone.
ReplyOf(seq, asked, envelope, entries) ==
  [seq |-> seq, of |-> asked, envelope |-> envelope, entries |-> entries]

KInit ==
  /\ kLive = FALSE /\ primed = FALSE /\ heard = 0 /\ kStep = "none" /\ kSeq = 0
  /\ kAsked = None
  /\ replies = {} /\ answer = None /\ wasted = FALSE /\ ownRisk = FALSE

\* begin_connection.  (Mutant: the flag survives the connection.)
PrimedAtConnectMutant == primed
PrimedAtConnect == FALSE

\* ensure_mqtt, as far as this table goes: a session that is there is used as it
\* is; without one a session is dialled, and nothing of the old one arrives.
EnsureSession ==
  IF kLive THEN [primed |-> primed, heard |-> heard, replies |-> replies]
  ELSE [primed |-> PrimedAtConnect, heard |-> 0, replies |-> {}]

\* The printer has the request.  It answers every one but the first, with the
\* diameter on its entries, on the envelope (single-nozzle firmware), on both or
\* on neither; an envelope's is that of the entries that carry none.
Heard(s) ==
  /\ heard' = IF s.heard = 0 THEN 1 ELSE 2
  /\ IF s.heard = 0 THEN replies' = s.replies
     ELSE \E names \in SUBSET Table(kAsked), envelope \in Opt(Table(kAsked)) :
            /\ \A d \in Table(kAsked) \ names : envelope \in {None, d}
            /\ replies' = s.replies \cup {ReplyOf(kSeq, kAsked, envelope, Entries(kAsked, names))}

\* publish_request after its ensure_mqtt: delivered, or lost with the link.
\* Whether it succeeds is known when it returns.
Published(done) ==
  LET s == EnsureSession IN
  /\ kLive' = TRUE
  /\ IF done THEN Heard(s) ELSE heard' = s.heard /\ replies' = s.replies

\* get_k_profiles up to its first await: the prime, or with the flag set the
\* request itself; both carry the diameter asked for.
GetKProfiles(asked) ==
  /\ kStep = "none" /\ kSeq < MaxAsked
  /\ kSeq' = kSeq + 1 /\ kAsked' = asked
  /\ kStep' = IF primed THEN "ask" ELSE "prime"
  /\ wasted' = FALSE /\ ownRisk' = (ownRisk /\ primed)
  /\ UNCHANGED <<kLive, primed, heard, replies, answer>>

\* The prime is out: the flag is set, and the request gets an id of its own.
PrimePublished ==
  /\ kStep = "prime"
  /\ Published(TRUE)
  /\ primed' = TRUE /\ kSeq' = kSeq + 1 /\ kStep' = "ask"
  /\ UNCHANGED <<kAsked, answer, wasted, ownRisk>>

RequestPublished ==
  /\ kStep = "ask"
  /\ Published(TRUE)
  /\ primed' = EnsureSession.primed
  /\ wasted' = (EnsureSession.heard = 0)
  /\ kStep' = "wait"
  /\ UNCHANGED <<kSeq, kAsked, answer, ownRisk>>

\* The dial or the write fails, or the caller drops the call in it: the
\* printer may have had the request.
PublishCut(reached) ==
  /\ kStep \in {"prime", "ask"}
  /\ Published(reached)
  /\ primed' = EnsureSession.primed
  /\ kStep' = "none"
  /\ UNCHANGED <<kSeq, kAsked, answer, wasted, ownRisk>>

DialCut ==
  /\ kStep \in {"prime", "ask"} /\ ~kLive
  /\ kStep' = "none"
  /\ UNCHANGED <<kLive, primed, heard, kSeq, kAsked, replies, answer, wasted, ownRisk>>

\* The matcher: the command's own reply.
\* (Mutant: any extrusion_cali_get reply will do.)
OwnReplyMutant(r) == TRUE
OwnReply(r) == r.seq = kSeq

\* An entry without a diameter takes the envelope's, if that has one.
\* (Mutant: the envelope's goes over the entries' own.)
WithDiameterMutant(r) ==
  [r EXCEPT !.entries = {[is |-> e.is, named |-> r.envelope] : e \in r.entries}]
WithDiameter(r) ==
  [r EXCEPT !.entries = {[is |-> e.is, named |-> Or(e.named, r.envelope)] : e \in r.entries}]

\* poll_until: from the buffer or from the wire.
Answered(r) ==
  /\ kStep = "wait" /\ OwnReply(r)
  /\ replies' = replies \ {r}
  /\ answer' = [asked |-> kAsked, reply |-> WithDiameter(r)]
  /\ kStep' = "none" /\ wasted' = FALSE
  /\ UNCHANGED <<kLive, primed, heard, kSeq, kAsked, ownRisk>>

\* The command timeout, a dead link, or the caller's drop.
WaitEnds ==
  /\ kStep = "wait" /\ kStep' = "none" /\ wasted' = FALSE
  /\ UNCHANGED <<kLive, primed, heard, kSeq, kAsked, replies, answer, ownRisk>>

\* disconnect_mqtt: close_mqtt_session, then begin_connection; dropped in the
\* first's await, the session is gone and the flag is not reset (attach_mqtt
\* begins the same way).
DisconnectSession(whole) ==
  /\ kStep = "none" /\ kLive
  /\ kLive' = FALSE /\ replies' = {} /\ heard' = 0
  /\ primed' = IF whole THEN PrimedAtConnect ELSE primed
  /\ ownRisk' = (ownRisk \/ ~whole)
  /\ UNCHANGED <<kStep, kSeq, kAsked, answer, wasted>>

\* attach_mqtt: a session the caller dialled, over whatever there was.
AttachSession ==
  /\ kStep = "none"
  /\ kLive' = TRUE /\ replies' = {} /\ heard' = 0 /\ primed' = PrimedAtConnect
  /\ UNCHANGED <<kStep, kSeq, kAsked, answer, wasted, ownRisk>>

SetKProfilePrimed(to) ==
  /\ kStep = "none"
  /\ primed' = to /\ ownRisk' = (ownRisk \/ to)
  /\ UNCHANGED <<kLive, heard, kStep, kSeq, kAsked, replies, answer, wasted>>

KNext ==
  \/ \E asked \in Opt(Diameters) : GetKProfiles(asked)
  \/ PrimePublished \/ RequestPublished \/ DialCut \/ WaitEnds
  \/ AttachSession
  \/ \E b \in BOOLEAN : PublishCut(b) \/ DisconnectSession(b) \/ SetKProfilePrimed(b)
  \/ \E r \in replies : Answered(r)

KSpec == KInit /\ [][KNext]_kVars

(***************************************************************************)
(* Properties.                                                              *)
(***************************************************************************)
\* The request a caller waits for is never the one the firmware ignores,
\* whatever calls failed or were dropped and however often the link was
\* replaced (client/ams.rs:470 reads the flag before the publish dials), unless
\* the caller took the priming on itself or dropped a disconnect half-way.
RequestNotWasted == wasted => ownRisk

\* A caller is given the table it asked for, though the matcher goes by sequence
\* ids alone and an earlier, dropped call may have left its reply, of another table,
\* behind; and no entry of it has another's diameter: it has its own, or none where
\* neither the printer's entry nor its envelope carried one (client/ams.rs:486).
AnswerIsOwn ==
  answer # None =>
    /\ answer.reply.of = answer.asked
    /\ \A e \in answer.reply.entries :
         \/ e.named = e.is
         \/ e.named = None /\ answer.reply.envelope = None
=============================================================================

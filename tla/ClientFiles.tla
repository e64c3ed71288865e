----------------------------- MODULE ClientFiles -----------------------------
(***************************************************************************)
(* PrinterClient's file operations over FTPS (src/client/files.rs): the    *)
(* listing of a kind of file with the printer-clock probe that may precede *)
(* it, and uploads.  FtpsControl models the session these run on; here a   *)
(* command succeeds, is refused, or fails so that the session is poisoned  *)
(* and the next ftps() dials another.  The caller may drop the future of an*)
(* operation at any await.                                                 *)
(***************************************************************************)
EXTENDS Integers, Sequences, FiniteSets, Options

CONSTANTS
  FileSessions,   \* bound: FTPS sessions dialled
  FileOps,        \* bound: file operations
  TimerEpochs,    \* the FTPS timers a reading may have been taken on
  Clockless       \* those of them with no real clock

ASSUME FilesAssumption ==
  /\ FileSessions \in Nat /\ FileOps \in Nat
  /\ TimerEpochs \subseteq Nat /\ Clockless \subseteq TimerEpochs
  /\ None \notin {"advanced", "asRead"}

VARIABLES
  fsession,    \* "none", "open", "poisoned"
  dialled,     \* number of sessions
  sessionClock,  \* FtpsClient.printer_clock of the session: "NotRun", "Failed", "Read"
  probesClock,     \* core.ftps_clock_probe
  clockReading, \* core.ftps_clock_reading: None or the timer it was taken on
  timerNow,    \* which timer the FTPS client runs on
  fop,         \* the operation under way: [at, dir, ref]
  fops,        \* number of operations begun
  probeFile,   \* is the probe's file on the card?
  listed,   \* directories whose files this listing has listed
  probed,      \* history: the probes begun, [sess, op, done]
  excused,     \* history: has the probe's file been left by a failure or a drop?
  card,        \* model files uploaded to the card: [accepted, checked]
  fileOutcome  \* how the last operation ended

fileVars == <<fsession, dialled, sessionClock, probesClock, clockReading, timerNow, fop, fops,
              probeFile, listed, probed, excused, card, fileOutcome>>

ModelDirs == <<"/cache", "/">>       \* MODEL_DIRS
HostClock == {"host", None}          \* host_clock: set, or never set
NoOp == [at |-> "idle", dir |-> 0, ref |-> None]
FileAt(at) == [fop EXCEPT !.at = at]

FilesInit ==
  /\ fsession = "none" /\ dialled = 0 /\ sessionClock = "NotRun"
  /\ probesClock \in BOOLEAN /\ clockReading = None /\ timerNow \in TimerEpochs
  /\ fop = NoOp /\ fops = 0
  /\ probeFile = FALSE /\ listed = {} /\ probed = <<>> /\ excused = FALSE
  /\ card = {} /\ fileOutcome = None

(***************************************************************************)
(* ftps(): a session that is missing or poisoned is dialled, with its clock*)
(* not yet read; ClientSlots models the dialling.                          *)
(***************************************************************************)
fileHist == <<probed, excused, card>>

ReachFtps ==
  \/ fsession = "open" /\ UNCHANGED <<fsession, dialled, sessionClock>>
  \/ /\ fsession # "open" /\ dialled < FileSessions
     /\ fsession' = "open" /\ dialled' = dialled + 1 /\ sessionClock' = "NotRun"

EndFileOp(how) == fop' = NoOp /\ fileOutcome' = how

\* The dial fails, and the operation with it.
FtpsDialFails ==
  /\ fop.at \in {"reading", "probe", "relist", "list", "store"} /\ fsession # "open"
  /\ EndFileOp("error")
  /\ UNCHANGED <<fsession, dialled, sessionClock, probesClock, clockReading, timerNow, fops, probeFile,
                 listed, fileHist>>

\* The caller drops the future.  During the probe's transfer that poisons the
\* session; a probe that is dropped leaves no clock and no cleaning up.
DropFileOp ==
  /\ fop.at # "idle"
  /\ EndFileOp("dropped")
  /\ excused' = (excused \/ fop.at \in {"upload", "mdtm", "delete"})
  /\ \/ UNCHANGED fsession
     \/ fop.at \in {"upload", "mdtm", "delete", "list", "store"} /\ fsession' = "poisoned"
  /\ probeFile' \in {probeFile, probeFile \/ fop.at = "upload"}
  /\ UNCHANGED <<dialled, sessionClock, probesClock, clockReading, timerNow, fops, listed, probed, card>>

\* The printer closes the session between operations.
SessionBreaks ==
  /\ fop.at = "idle" /\ fsession = "open"
  /\ fsession' = "poisoned"
  /\ UNCHANGED <<dialled, sessionClock, probesClock, clockReading, timerNow, fop, fops, probeFile, listed,
                 fileHist, fileOutcome>>

(***************************************************************************)
(* list_files_each of models, and listing_reference.                       *)
(***************************************************************************)
\* PrinterClockReading::now: a reading taken on timer r, on the client's timer.
\* A real clock that reads earlier than it shows it was taken on another; a timer
\* with no real clock shows nothing, and the reading stands as it was taken.
ReadingNow(r) ==
  IF timerNow \in Clockless THEN "asRead" ELSE IF r <= timerNow THEN "advanced" ELSE None

BeginList ==
  /\ fop.at = "idle" /\ fops < FileOps
  /\ fops' = fops + 1 /\ listed' = {}
  /\ \/ clockReading # None /\ fop' = [NoOp EXCEPT !.at = "reading"]
     \/ clockReading = None /\ probesClock /\ fop' = [NoOp EXCEPT !.at = "probe"]
     \/ clockReading = None /\ ~probesClock
          /\ \E h \in HostClock : fop' = [NoOp EXCEPT !.at = "list", !.ref = h]
  /\ fileOutcome' = None
  /\ UNCHANGED <<fsession, dialled, sessionClock, probesClock, clockReading, timerNow, probeFile, fileHist>>

\* The supplied reading, or its clearing.
UseReading ==
  /\ fop.at = "reading" /\ ReachFtps
  /\ IF ReadingNow(clockReading) # None
     THEN /\ fop' = [fop EXCEPT !.at = "list", !.ref = ReadingNow(clockReading)]
          /\ UNCHANGED clockReading
     ELSE /\ clockReading' = None
          /\ IF probesClock THEN fop' = FileAt("probe")
             ELSE \E h \in HostClock : fop' = [fop EXCEPT !.at = "list", !.ref = h]
  /\ UNCHANGED <<probesClock, timerNow, fops, probeFile, listed, fileHist, fileOutcome>>

\* Does this listing probe?
\* (Mutant: a probe that failed is run again.)
ProbesMutant == sessionClock' # "Read"
Probes == sessionClock' = "NotRun"

StartProbe ==
  /\ fop.at = "probe" /\ ReachFtps
  /\ IF Probes
     THEN /\ fop' = FileAt("upload")
          /\ probed' = Append(probed, [sess |-> dialled', op |-> fops, done |-> FALSE])
     ELSE fop' = FileAt("relist") /\ UNCHANGED probed
  /\ UNCHANGED <<probesClock, clockReading, timerNow, fops, probeFile, listed, excused, card, fileOutcome>>

\* probe_printer_clock: STOR, MDTM, DELE.  A transfer that fails may leave a
\* partial file, and may poison the session.
ProbeUpload(ok, breaks, leaves) ==
  /\ fop.at = "upload" /\ (ok => ~breaks /\ leaves)
  /\ probeFile' = (probeFile \/ leaves)
  /\ fsession' = IF breaks THEN "poisoned" ELSE fsession
  /\ fop' = IF ok THEN FileAt("mdtm") ELSE [FileAt("delete") EXCEPT !.ref = "failed"]
  /\ UNCHANGED <<dialled, sessionClock, probesClock, clockReading, timerNow, fops, listed, fileHist, fileOutcome>>

ProbeMdtm(ok, breaks) ==
  /\ fop.at = "mdtm" /\ (ok => ~breaks)
  /\ fsession' = IF breaks THEN "poisoned" ELSE fsession
  /\ fop' = [FileAt("delete") EXCEPT !.ref = IF ok THEN "read" ELSE "failed"]
  /\ UNCHANGED <<dialled, sessionClock, probesClock, clockReading, timerNow, fops, probeFile, listed, fileHist,
                 fileOutcome>>

\* Is the probe's file deleted?
\* (Mutant: only after a reading.)
CleansUpMutant == fsession = "open" /\ fop.ref = "read"
CleansUp == fsession = "open"

\* ... and the clock the probe leaves.
ProbeDelete(ok, breaks) ==
  /\ fop.at = "delete" /\ (ok => ~breaks)
  /\ IF CleansUp
     THEN /\ probeFile' = (probeFile /\ ~ok)
          /\ fsession' = IF breaks THEN "poisoned" ELSE fsession
     ELSE ~ok /\ ~breaks /\ UNCHANGED <<fsession, probeFile>>
  /\ excused' = (excused \/ (CleansUp /\ ~ok) \/ fsession # "open")
  /\ probed' = [probed EXCEPT ![Len(probed)].done = TRUE]
  /\ sessionClock' = IF fop.ref = "read" THEN "Read" ELSE "Failed"
  /\ fop' = [fop EXCEPT !.at = IF fsession' = "poisoned" THEN "reopen" ELSE "relist", !.ref = None]
  /\ UNCHANGED <<dialled, probesClock, clockReading, timerNow, fops, listed, card, fileOutcome>>

\* The session that follows one the probe broke is not probed in its turn.
ReopenAfterProbe ==
  /\ fop.at = "reopen"
  /\ \/ /\ dialled < FileSessions
        /\ fsession' = "open" /\ dialled' = dialled + 1 /\ sessionClock' = "Failed"
        /\ fop' = FileAt("relist") /\ UNCHANGED fileOutcome
     \/ UNCHANGED <<fsession, dialled, sessionClock>> /\ EndFileOp("error")
  /\ UNCHANGED <<probesClock, clockReading, timerNow, fops, probeFile, listed, fileHist>>

\* The reference clock of the listing, and on to the directories: the session's
\* own reading is of the client's timer.
ChooseReference ==
  /\ fop.at = "relist" /\ ReachFtps
  /\ \E h \in HostClock :
       fop' = [fop EXCEPT !.at = "list",
                     !.ref = IF sessionClock' = "Read" THEN Or(ReadingNow(timerNow), h) ELSE h]
  /\ UNCHANGED <<probesClock, clockReading, timerNow, fops, probeFile, listed, fileHist, fileOutcome>>

\* One LIST of the listing's directories; a failure ends it.
ListDirectory ==
  /\ fop.at = "list" /\ ReachFtps /\ fop.dir < Len(ModelDirs)
  /\ listed' = listed \cup {ModelDirs[fop.dir + 1]}
  /\ IF fop.dir + 1 = Len(ModelDirs) THEN EndFileOp("listed")
     ELSE fop' = [fop EXCEPT !.dir = @ + 1] /\ UNCHANGED fileOutcome
  /\ UNCHANGED <<probesClock, clockReading, timerNow, fops, probeFile, fileHist>>

ListFails(breaks) ==
  /\ fop.at = "list" /\ fsession = "open"
  /\ fsession' = IF breaks THEN "poisoned" ELSE fsession
  /\ listed' \in {listed, listed \cup {ModelDirs[fop.dir + 1]}}
  /\ EndFileOp("error")
  /\ UNCHANGED <<dialled, sessionClock, probesClock, clockReading, timerNow, fops, probeFile, fileHist>>

(***************************************************************************)
(* The reading, kept by the caller across sessions and clients.            *)
(***************************************************************************)
\* printer_clock_reading, handed back with set_printer_clock_reading.
KeepReading ==
  /\ fop.at = "idle" /\ fsession = "open" /\ sessionClock = "Read" /\ clockReading = None
  /\ clockReading' = timerNow
  /\ UNCHANGED <<fsession, dialled, sessionClock, probesClock, timerNow, fop, fops, probeFile, listed,
                 fileHist, fileOutcome>>

\* set_printer_clock_reading(None), or a reading of another client's timer; of one
\* that has run longer, where this client's is a real clock.  (There one that has
\* run shorter cannot be told from its own: PrinterClockReading leaves that to the
\* caller.)
SetReading(r) ==
  /\ fop.at = "idle" /\ clockReading # r
  /\ r # None => r # timerNow /\ (timerNow \in Clockless \/ r > timerNow)
  /\ clockReading' = r
  /\ UNCHANGED <<fsession, dialled, sessionClock, probesClock, timerNow, fop, fops, probeFile, listed,
                 fileHist, fileOutcome>>

\* attach_ftps: another session, on another timer.
\* (Mutant: the reading is kept.)
ReadingAfterAttachMutant == clockReading
ReadingAfterAttach == None

AttachFtps(t) ==
  /\ fop.at = "idle" /\ dialled < FileSessions
  /\ fsession' = "open" /\ dialled' = dialled + 1 /\ sessionClock' = "NotRun"
  /\ timerNow' = t /\ clockReading' = ReadingAfterAttach
  /\ UNCHANGED <<probesClock, fop, fops, probeFile, listed, fileHist, fileOutcome>>

(***************************************************************************)
(* upload_file, of a file that is or is not sliced for this model, or whose*)
(* model cannot be read.                                                   *)
(***************************************************************************)
\* (Mutant: an unread model passes.)
RefusesUploadMutant(slicedFor, check) == check = "Enforce" /\ slicedFor = "other"
RefusesUpload(slicedFor, check) == check = "Enforce" /\ slicedFor # "this"

BeginUpload(goodName, storage, slicedFor, check) ==
  /\ fop.at = "idle" /\ fops < FileOps
  /\ fops' = fops + 1 /\ listed' = {}
  /\ IF ~goodName \/ storage = "Internal" \/ RefusesUpload(slicedFor, check)
     THEN EndFileOp("refused")
     ELSE /\ fop' = [NoOp EXCEPT !.at = "store", !.ref = [sliced |-> slicedFor, check |-> check]]
          /\ fileOutcome' = None
  /\ UNCHANGED <<fsession, dialled, sessionClock, probesClock, clockReading, timerNow, probeFile, fileHist>>

ReachForUpload ==
  /\ fop.at = "store" /\ fsession # "open" /\ ReachFtps
  /\ UNCHANGED <<probesClock, clockReading, timerNow, fop, fops, probeFile, listed, fileHist, fileOutcome>>

\* upload_from, verified by SIZE; then MDTM, whose failure is not the upload's.
StoreUpload(ok, stamped, breaks) ==
  /\ fop.at = "store" /\ fsession = "open" /\ (breaks => ~ok \/ ~stamped)
  /\ fsession' = IF breaks THEN "poisoned" ELSE fsession
  /\ IF ok THEN card' = card \cup {fop.ref} /\ EndFileOp("stored") ELSE EndFileOp("error") /\ UNCHANGED card
  /\ UNCHANGED <<dialled, sessionClock, probesClock, clockReading, timerNow, fops, probeFile, listed, probed, excused>>

FilesNext ==
  \/ FtpsDialFails \/ DropFileOp \/ SessionBreaks
  \/ BeginList \/ UseReading \/ StartProbe
  \/ \E ok, b, l \in BOOLEAN : ProbeUpload(ok, b, l)
  \/ \E ok, b \in BOOLEAN : ProbeMdtm(ok, b)
  \/ \E ok, b \in BOOLEAN : ProbeDelete(ok, b)
  \/ ReopenAfterProbe \/ ChooseReference \/ ListDirectory
  \/ \E b \in BOOLEAN : ListFails(b)
  \/ KeepReading
  \/ \E n \in BOOLEAN, st \in {"External", "Internal"}, sl \in {"this", "other", None},
       c \in {"Enforce", "Skip"} : BeginUpload(n, st, sl, c)
  \/ ReachForUpload
  \/ \E ok, st, b \in BOOLEAN : StoreUpload(ok, st, b)
  \/ \E r \in Opt(TimerEpochs) : SetReading(r)
  \/ \E t \in TimerEpochs : AttachFtps(t)

FilesSpec == FilesInit /\ [][FilesNext]_fileVars

(***************************************************************************)
(* Properties.                                                             *)
(***************************************************************************)
\* A listing probes the printer's clock at most once, even when the probe
\* breaks its session and the listing goes on with another ("a printer whose
\* session the probe breaks would otherwise never list", files.rs:856), and a
\* probe that ran to its end is not repeated on its session.
ProbedOnce ==
  \A i, j \in DOMAIN probed :
    i < j => /\ probed[i].op # probed[j].op
             /\ probed[i].sess = probed[j].sess => ~probed[i].done

\* The probe's file stays on the card only when deleting it was refused, the
\* session broke, or the caller dropped the listing: never after a probe that
\* merely failed (probe_printer_clock).
ProbeFileCleared == fop.at = "idle" /\ probeFile => excused

\* A listing advances a kept reading only by the timer it was taken on, whatever
\* sessions and timers came since, and goes on with no other, except on a timer
\* with no real clock: that one uses whatever reading is kept, as it was read,
\* and advances none (attach_ftps, listing_reference, PrinterClockReading::now).
ReadingOnItsTimer ==
  fop.at = "list" =>
    /\ clockReading # None /\ timerNow \notin Clockless =>
         clockReading = timerNow /\ fop.ref = "advanced"
    /\ clockReading # None /\ timerNow \in Clockless => fop.ref = "asRead"
    /\ fop.ref = "advanced" => timerNow \notin Clockless

\* No file reaches the card under ModelCheck::Enforce unless it was read to be
\* sliced for this printer (upload_file; #657).
CardHoldsAccepted == \A f \in card : f.check = "Enforce" => f.sliced = "this"

\* What the client does to the card and learns from it stays sound over broken,
\* replaced and dropped sessions: one probe per listing, its file cleared away,
\* a reading advanced by its own timer only, and no unchecked file
\* uploaded (client/files.rs).
FilesSound == ProbedOnce /\ ProbeFileCleared /\ ReadingOnItsTimer /\ CardHoldsAccepted
=============================================================================

------------------------------ MODULE JobCache ------------------------------
(***************************************************************************)
(* What PrinterClient knows of the running job, and the images it fetches   *)
(* for it (src/client/job.rs): update_job_cache and record_job_start fill   *)
(* the cache from the messages poll_telemetry classifies, job_plate answers *)
(* from it, read_running_job_images chooses between the file tunnel and     *)
(* FTPS.                                                                    *)
(*                                                                         *)
(* The printer runs one job after the other, from this client's start       *)
(* command (echoed on the report topic) or from its screen, of either file. *)
(* Its status frames carry the fields that changed; a pushall carries them  *)
(* all.  Messages of a session arrive in order and are lost with it.        *)
(***************************************************************************)
EXTENDS Integers, Sequences, Options

CONSTANTS
  MaxJobs,          \* bound: jobs the printer runs
  JobSessions,      \* bound: MQTT sessions
  PushallAnswered   \* is the connect-time pushall always answered?

JobFiles == {"f", "g"}
Plates == {1, 2}
JobStates == {"busy", "ended"}   \* of gcode_state: is_busy, or Finished and Failed

ASSUME JobAssumption == None \notin JobStates

VARIABLES
  reports,   \* does this family report plate_idx?
  job,       \* the printer's job: [file, plate, state]
  jobs,      \* number of jobs started
  jwire,     \* messages sent on the session and not yet read
  jlive,     \* is self.mqtt Some?
  jgen,      \* connection_generation
  jsess,     \* number of sessions so far
  jcache,    \* [file, plateIdx, state, start] of TelemetryCache
  failedGen, \* file_tunnel_failed_generation
  failures   \* history: tunnel dials that failed since one succeeded, or
             \* since the connection began

jobVars == <<reports, job, jobs, jwire, jlive, jgen, jsess, jcache, failedGen,
             failures>>
printerVars == <<reports, job, jobs>>
linkVars == <<jlive, jgen, jsess>>
tunnelVars == <<failedGen, failures>>

JobFrame(file, plate, state) ==
  [kind |-> "status", file |-> file, plate |-> plate, state |-> state]
StartEcho(file, plate) == [kind |-> "echo", file |-> file, plate |-> plate, state |-> None]

NoJobCache == [file |-> None, plateIdx |-> None, state |-> None, start |-> None]

JobInit ==
  /\ reports \in BOOLEAN
  /\ job = [file |-> "f", plate |-> 1, state |-> "ended"]
  /\ jobs = 0 /\ jwire = <<>> /\ jlive = FALSE /\ jgen = 0 /\ jsess = 0
  /\ jcache = NoJobCache
  /\ failedGen = None /\ failures = 0

(***************************************************************************)
(* The printer (external).                                                  *)
(***************************************************************************)
PlateField(p) == IF reports THEN p ELSE None
PushallAnswer == JobFrame(job.file, PlateField(job.plate), job.state)
Changed(old, new) == IF old = new THEN None ELSE new

Send(msgs) == jwire' = IF jlive THEN jwire \o msgs ELSE <<>>

StartJob(file, plate, byClient) ==
  /\ jobs < MaxJobs /\ job.state = "ended"
  /\ byClient => jlive
  /\ jobs' = jobs + 1
  /\ job' = [file |-> file, plate |-> plate, state |-> "busy"]
  /\ LET diff == JobFrame(Changed(job.file, file),
                       Changed(PlateField(job.plate), PlateField(plate)), "busy")
     IN Send((IF byClient THEN <<StartEcho(file, plate)>> ELSE <<>>) \o <<diff>>)
  /\ UNCHANGED <<reports, linkVars, jcache, tunnelVars>>

EndJob ==
  /\ job.state = "busy"
  /\ job' = [job EXCEPT !.state = "ended"]
  /\ Send(<<JobFrame(None, None, "ended")>>)
  /\ UNCHANGED <<reports, jobs, linkVars, jcache, tunnelVars>>

(***************************************************************************)
(* Connecting.                                                              *)
(***************************************************************************)
\* install_mqtt, and the pushall it publishes.
JobConnect ==
  /\ ~jlive /\ jsess < JobSessions
  /\ jlive' = TRUE /\ jsess' = jsess + 1 /\ jgen' = jgen + 1
  /\ \/ jwire' = <<PushallAnswer>>
     \/ ~PushallAnswered /\ jwire' = <<>>
  /\ failures' = 0
  /\ UNCHANGED <<printerVars, jcache, failedGen>>

\* disconnect_mqtt; dropped during the close it does not reach begin_connection.
JobDisconnect ==
  /\ jlive /\ jsess < JobSessions
  /\ jlive' = FALSE /\ jwire' = <<>>
  /\ \/ jgen' = jgen + 1 /\ failures' = 0
     \/ UNCHANGED <<jgen, failures>>
  /\ UNCHANGED <<printerVars, jsess, jcache, failedGen>>

\* request_pushall, by refresh_state or the caller.
RefreshState ==
  /\ jlive /\ jwire = <<>>
  /\ jwire' = <<PushallAnswer>>
  /\ UNCHANGED <<printerVars, linkVars, jcache, tunnelVars>>

(***************************************************************************)
(* Reading.                                                                 *)
(***************************************************************************)
\* record_job_start, on an accepted project_file echo of any client.
RecordJobStart(m) ==
  [jcache EXCEPT !.start = [file |-> m.file, plate |-> m.plate, gen |-> jgen]]

\* update_job_cache, then update_state_cache.
\* (Mutant: the end of a job keeps its recorded start.)
UpdateJobCacheMutant(m) ==
  LET newFile == m.file # None /\ m.file # jcache.file
  IN [file |-> Or(m.file, jcache.file),
      plateIdx |-> Or(m.plate, IF newFile THEN None ELSE jcache.plateIdx),
      start |-> jcache.start,
      state |-> Or(m.state, jcache.state)]
UpdateJobCache(m) ==
  LET newFile == m.file # None /\ m.file # jcache.file
      ended == m.state = "ended" /\ jcache.state = "busy"
  IN [file |-> Or(m.file, jcache.file),
      plateIdx |-> Or(m.plate, IF newFile THEN None ELSE jcache.plateIdx),
      start |-> IF ended THEN None ELSE jcache.start,
      state |-> Or(m.state, jcache.state)]

PollJob ==
  /\ jlive /\ jwire # <<>>
  /\ jcache' = IF Head(jwire).kind = "echo" THEN RecordJobStart(Head(jwire))
               ELSE UpdateJobCache(Head(jwire))
  /\ jwire' = Tail(jwire)
  /\ UNCHANGED <<printerVars, linkVars, tunnelVars>>

\* await_ack of the start command takes the echo from among the messages and
\* leaves the others to be polled.
AwaitStartAck ==
  /\ jlive
  /\ \E i \in DOMAIN jwire :
       /\ jwire[i].kind = "echo"
       /\ jwire' = SubSeq(jwire, 1, i - 1) \o SubSeq(jwire, i + 1, Len(jwire))
  /\ UNCHANGED <<printerVars, linkVars, jcache, tunnelVars>>

(***************************************************************************)
(* Answers.                                                                 *)
(***************************************************************************)
\* (Mutant: a start from an earlier connection is trusted.)
RunningJobStartMutant ==
  IF jcache.start # None /\ jcache.file # None /\ jcache.start.file = jcache.file
  THEN jcache.start ELSE None
RunningJobStart ==
  IF jcache.start # None /\ jcache.file # None /\ jcache.start.file = jcache.file
     /\ jcache.start.gen = jgen
  THEN jcache.start ELSE None

JobPlate ==
  IF jcache.plateIdx # None THEN jcache.plateIdx
  ELSE IF RunningJobStart # None THEN RunningJobStart.plate ELSE None

\* (Mutant: a failed dial is not remembered.)
WorthTryingMutant == TRUE
WorthTrying == failedGen # jgen

\* read_running_job_images.  The tunnel is dialled for each member until one
\* fails; a success forgets an earlier failure.  Whatever the tunnel does not
\* give comes over FTPS, which this module leaves out.
ReadRunningJobImages ==
  /\ JobPlate # None /\ WorthTrying
  /\ \/ failedGen' = jgen /\ failures' = failures + 1
     \/ failedGen' = None /\ failures' = 0
  /\ UNCHANGED <<printerVars, linkVars, jwire, jcache>>

JobNext ==
  \/ \E f \in JobFiles, p \in Plates, c \in BOOLEAN : StartJob(f, p, c)
  \/ EndJob \/ JobConnect \/ JobDisconnect \/ PollJob \/ AwaitStartAck
  \/ RefreshState \/ ReadRunningJobImages

JobSpec == JobInit /\ [][JobNext]_jobVars

\* job_plate never names another job's plate: once the client has read what
\* the printer sent, the plate it gives is the running job's.  It may say
\* None, when neither telemetry nor an echoed start of this connection tells.
JobPlateRight ==
  jlive /\ jwire = <<>> /\ job.state = "busy" /\ JobPlate # None
    => JobPlate = job.plate

\* A printer that ignores the file tunnel costs its handshake timeout once per
\* connection: no routed read dials it again after a failure.
TunnelAskedOnce == failures <= 1

\* What the client knows of the running job is right: job_plate never names
\* another job's plate, and a file tunnel that failed on this connection is not
\* dialled again for its images (client/job.rs:189, 362).
JobCacheRight == JobPlateRight /\ TunnelAskedOnce
=============================================================================

------------------------------ MODULE MCClient ------------------------------
(***************************************************************************)
(* The state machines of PrinterClient and of the readers below it, side by *)
(* side in one model.  They share no state, so a behaviour runs one of them *)
(* and leaves the others in an initial state.  MqttKeepalive, the one whose *)
(* names have no prefix, is the component "keepalive".                      *)
(***************************************************************************)
EXTENDS ClientSlots, ClientCache, JobCache, MqttFrame, SequenceIds, ClientFiles, KProfiles,
        CameraStream, Discovery, MqttKeepalive

VARIABLE component   \* the one that runs

Components == {"slots", "cache", "jobs", "frames", "ids", "files", "kprofiles", "camera",
               "discovery", "keepalive"}

Runs(c) == component = c

\* A component that does not run has one initial state.
ClientInit ==
  /\ component \in Components
  /\ SlotInit /\ (Runs("slots") \/ profile = CHOOSE p \in Profile : p.dialable)
  /\ CacheInit /\ (Runs("cache") \/ (~live /\ \A f \in DOMAIN family : ~family[f]))
  /\ JobInit /\ (Runs("jobs") \/ reports)
  /\ FrameInit
  /\ IdInit /\ (Runs("ids") \/ realClock)
  /\ FilesInit /\ (Runs("files") \/ (probesClock /\ timerNow = Min(TimerEpochs)))
  /\ KInit
  /\ CamInit
  /\ SweepInit
  /\ Init

Only(c) == Runs(c) /\ UNCHANGED component

\* The bounds are spent and the caller asks for nothing more.
CallerRests == UNCHANGED <<component, slotVars, cacheVars, jobVars, frameVars, idVars, fileVars,
                           kVars, camVars, sweepVars, vars>>

ClientNext ==
  \/ /\ Only("slots") /\ SlotNext
     /\ UNCHANGED <<cacheVars, jobVars, frameVars, idVars, fileVars, kVars, camVars, sweepVars, vars>>
  \/ /\ Only("cache") /\ CacheNext
     /\ UNCHANGED <<slotVars, jobVars, frameVars, idVars, fileVars, kVars, camVars, sweepVars, vars>>
  \/ /\ Only("jobs") /\ JobNext
     /\ UNCHANGED <<slotVars, cacheVars, frameVars, idVars, fileVars, kVars, camVars, sweepVars, vars>>
  \/ /\ Only("frames") /\ FrameNext
     /\ UNCHANGED <<slotVars, cacheVars, jobVars, idVars, fileVars, kVars, camVars, sweepVars, vars>>
  \/ /\ Only("ids") /\ IdNext
     /\ UNCHANGED <<slotVars, cacheVars, jobVars, frameVars, fileVars, kVars, camVars, sweepVars, vars>>
  \/ /\ Only("files") /\ FilesNext
     /\ UNCHANGED <<slotVars, cacheVars, jobVars, frameVars, idVars, kVars, camVars, sweepVars, vars>>
  \/ /\ Only("kprofiles") /\ KNext
     /\ UNCHANGED <<slotVars, cacheVars, jobVars, frameVars, idVars, fileVars, camVars, sweepVars, vars>>
  \/ /\ Only("camera") /\ CamNext
     /\ UNCHANGED <<slotVars, cacheVars, jobVars, frameVars, idVars, fileVars, kVars, sweepVars, vars>>
  \/ /\ Only("discovery") /\ SweepNext
     /\ UNCHANGED <<slotVars, cacheVars, jobVars, frameVars, idVars, fileVars, kVars, camVars, vars>>
  \/ /\ Only("keepalive") /\ Next
     /\ UNCHANGED <<slotVars, cacheVars, jobVars, frameVars, idVars, fileVars, kVars, camVars, sweepVars>>
  \/ CallerRests

ClientSpec ==
  ClientInit
    /\ [][ClientNext]_<<component, slotVars, cacheVars, jobVars, frameVars, idVars, fileVars, kVars,
                        camVars, sweepVars, vars>>
=============================================================================

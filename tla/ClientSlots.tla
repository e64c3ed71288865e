---------------------------- MODULE ClientSlots ----------------------------
(***************************************************************************)
(* The four connection slots of PrinterClient and what fills and empties    *)
(* them (src/client/connect.rs, mod.rs, storage.rs, camera.rs,              *)
(* file_tunnel.rs): the type-changing builders, the ensure_* dials,         *)
(* connect_all with its three concurrent dials, attach and disconnect.      *)
(* What a new MQTT connection invalidates is ClientCache's subject.         *)
(*                                                                         *)
(* One future runs at a time (&mut self); `sop` is the await point it is    *)
(* at, and a caller may drop it at every one (SlotCancel).  A dial is the   *)
(* raw dial, the TLS handshake and the login, raced against                 *)
(* connect_timeout: one step that succeeds or fails.                        *)
(***************************************************************************)
EXTENDS Integers

VARIABLES
  slot,      \* channel -> "none", "live" or (ftps, tunnel) "poisoned"
  config,    \* channel -> "none", "dial" or "pre" (a PreConnected factory)
  profile,   \* [dialable, binary]: has the identity an ip? a binary camera?
  sop,       \* the running future's await point
  dial,      \* connect_all: channel -> "no", "wait", "ok" or "err"
  supplied,  \* history: was FTPS configured or attached?
  torn       \* history: did the caller drop an FTPS disconnect?

slotVars == <<slot, config, profile, sop, dial, supplied, torn>>

Channel == {"mqtt", "ftps", "camera"}
Slots == Channel \cup {"tunnel"}
Profile == [dialable : BOOLEAN, binary : BOOLEAN]

\* "close" awaits a session's close, "closed" is what follows it without an
\* await; "all_*" is connect_all, "all_done" the moment it returns.
SlotIdle == [at |-> "idle", chan |-> "mqtt", then |-> "end"]
At(at, chan, then) == [at |-> at, chan |-> chan, then |-> then]

\* camera_config serves both port-6000 channels.
ConfigOf(c) == IF c = "tunnel" THEN config["camera"] ELSE config[c]

(***************************************************************************)
(* new() and from_mqtt(), then the with_* builders.                         *)
(***************************************************************************)
NoDials == [c \in Channel |-> "no"]

SlotInit ==
  /\ profile \in Profile
  /\ LET fromMqtt == ~profile.dialable IN
     /\ slot = [c \in Slots |-> IF c = "mqtt" /\ fromMqtt THEN "live" ELSE "none"]
     /\ config = [mqtt |-> IF fromMqtt THEN "pre" ELSE "dial",
                  ftps |-> "none", camera |-> "none"]
  /\ sop = SlotIdle /\ dial = NoDials
  /\ supplied = FALSE /\ torn = FALSE

\* with_ftps, with_camera and with_file_tunnel: a fresh configuration; the
\* sessions dialled from the old one are dropped.
WithConfig(c) ==
  /\ sop = SlotIdle
  /\ config' = [config EXCEPT ![c] = "dial"]
  /\ slot' = [s \in Slots |-> IF s = c \/ (c = "camera" /\ s = "tunnel")
                              THEN "none" ELSE slot[s]]
  /\ supplied' = (supplied \/ c = "ftps") /\ torn' = (torn /\ c # "ftps")
  /\ UNCHANGED <<profile, sop, dial>>

\* with_attached_ftps and with_attached_camera.
WithAttached(c) ==
  /\ sop = SlotIdle
  /\ config' = [config EXCEPT ![c] = IF c = "ftps" THEN "none" ELSE "pre"]
  /\ slot' = [s \in Slots |-> IF s = c THEN "live"
                              ELSE IF c = "camera" /\ s = "tunnel" THEN "none"
                              ELSE slot[s]]
  /\ supplied' = (supplied \/ c = "ftps") /\ torn' = (torn /\ c # "ftps")
  /\ UNCHANGED <<profile, sop, dial>>

(***************************************************************************)
(* ensure_*: one channel.                                                   *)
(***************************************************************************)
\* The early returns that touch nothing: wrong model, not configured, no ip
\* or access code (not asked of MQTT).  No chamber-image model serves the
\* file tunnel.
Applicable(c) == CASE c = "camera" -> profile.binary
                   [] c = "tunnel" -> ~profile.binary
                   [] OTHER -> TRUE
Dialable(c) == ConfigOf(c) # "none" /\ (c = "mqtt" \/ profile.dialable)

EnsureDial(c) ==
  /\ sop = SlotIdle
  /\ Applicable(c) /\ slot[c] = "none" /\ Dialable(c)
  /\ \E then \in IF c = "mqtt" THEN {"end", "prime"} ELSE {"end"} :
       sop' = At("dial", c, then)
  /\ UNCHANGED <<slot, config, profile, dial, supplied, torn>>

\* connect_mqtt on a live session only asks for the firmware version.
ConnectMqttAgain ==
  /\ sop = SlotIdle /\ slot["mqtt"] = "live"
  /\ sop' = At("prime", "mqtt", "end")
  /\ UNCHANGED <<slot, config, profile, dial, supplied, torn>>

\* A session leaves its slot.  Its close is awaited, unless there was none or
\* (camera, tunnel) no connector to close it with.
TakeAndClose(c, then) ==
  /\ slot' = [slot EXCEPT ![c] = "none"]
  /\ sop' = IF slot[c] # "none" /\ (c \in {"camera", "tunnel"} => ConfigOf(c) # "none")
            THEN At("close", c, then) ELSE At("closed", c, then)
  /\ UNCHANGED <<config, profile, dial, supplied, torn>>

\* A poisoned FTPS or tunnel session is replaced.
EnsureReplace(c) ==
  /\ sop = SlotIdle
  /\ Applicable(c) /\ slot[c] = "poisoned"
  /\ TakeAndClose(c, "dial")

DialFails ==
  /\ sop.at = "dial" /\ sop' = SlotIdle
  /\ UNCHANGED <<slot, config, profile, dial, supplied, torn>>

\* install_ftps moves the configuration into the session; the other channels
\* only borrow theirs.
ConfigAfterInstall(c) ==
  IF c = "ftps" THEN [config EXCEPT !["ftps"] = "none"] ELSE config

DialSucceeds ==
  /\ sop.at = "dial" /\ ConfigOf(sop.chan) = "dial"
  /\ slot' = [slot EXCEPT ![sop.chan] = "live"]
  /\ config' = ConfigAfterInstall(sop.chan)
  /\ sop' = IF sop.chan = "mqtt" THEN At("pushall", "mqtt", sop.then) ELSE SlotIdle
  /\ UNCHANGED <<profile, dial, supplied, torn>>

\* The connect-time pushall and get_version are published, answered or fail:
\* none of it is fatal.
FinishPushall ==
  /\ sop.at = "pushall"
  /\ sop' = IF sop.then = "prime" THEN At("prime", "mqtt", "end") ELSE SlotIdle
  /\ UNCHANGED <<slot, config, profile, dial, supplied, torn>>

FinishPrime ==
  /\ sop.at = "prime" /\ sop' = SlotIdle
  /\ UNCHANGED <<slot, config, profile, dial, supplied, torn>>

(***************************************************************************)
(* connect_all.                                                             *)
(***************************************************************************)
\* (Mutant: the camera is dialled whatever the model streams.)
AllWantsMutant(c) ==
  slot[c] = "none" /\ (c # "mqtt" => config[c] # "none")
AllWants(c) ==
  /\ slot[c] = "none"
  /\ c # "mqtt" => config[c] # "none"
  /\ c = "camera" => profile.binary

ConnectAll ==
  /\ sop = SlotIdle
  /\ dial' = [c \in Channel |-> IF AllWants(c) THEN "wait" ELSE "no"]
  /\ sop' = At("all_join", "mqtt", "end")
  /\ UNCHANGED <<slot, config, profile, supplied, torn>>

\* One of the joined dials ends, in any order.
AllDialEnds(c) ==
  /\ sop.at = "all_join" /\ dial[c] = "wait"
  /\ \E r \in {"ok", "err"} :
       /\ r = "ok" => Dialable(c) /\ config[c] = "dial"
       /\ dial' = [dial EXCEPT ![c] = r]
  /\ UNCHANGED <<slot, config, profile, sop, supplied, torn>>

\* The join returns: MQTT is installed and its pushall awaited before FTPS
\* and camera are installed.
AllJoined ==
  /\ sop.at = "all_join" /\ \A c \in Channel : dial[c] # "wait"
  /\ slot' = IF dial["mqtt"] = "ok" THEN [slot EXCEPT !["mqtt"] = "live"] ELSE slot
  /\ sop' = At("all_pushall", "mqtt", "end")
  /\ UNCHANGED <<config, profile, dial, supplied, torn>>

\* (Mutant: installing stops at the first channel that failed.)
AllInstallsMutant(c) == /\ dial[c] = "ok"
                        /\ \A d \in Channel : dial[d] # "err"
AllInstalls(c) == dial[c] = "ok"

AllInstall ==
  /\ sop.at = "all_pushall"
  /\ slot' = [s \in Slots |-> IF s \in {"ftps", "camera"} /\ AllInstalls(s)
                              THEN "live" ELSE slot[s]]
  /\ config' = IF AllInstalls("ftps") THEN ConfigAfterInstall("ftps") ELSE config
  /\ sop' = At(IF dial["mqtt"] = "ok" THEN "all_prime" ELSE "all_done", "mqtt", "end")
  /\ UNCHANGED <<profile, dial, supplied, torn>>

AllPrimed ==
  /\ sop.at = "all_prime" /\ sop' = At("all_done", "mqtt", "end")
  /\ UNCHANGED <<slot, config, profile, dial, supplied, torn>>

\* The caller takes the ConnectAllOutcome.
AllReturns ==
  /\ sop.at = "all_done" /\ sop' = SlotIdle /\ dial' = NoDials
  /\ UNCHANGED <<slot, config, profile, supplied, torn>>

(***************************************************************************)
(* Disconnect and attach.                                                   *)
(***************************************************************************)
Disconnect(c) == sop = SlotIdle /\ TakeAndClose(c, "end")
Attach(c) == sop = SlotIdle /\ TakeAndClose(c, "attach")

\* (Mutant: disconnect_ftps drops the parts disconnect() returns.)
ConfigAfterCloseMutant == config
ConfigAfterClose ==
  IF sop.at = "close" /\ sop.chan = "ftps"
  THEN [config EXCEPT !["ftps"] = "dial"] ELSE config

AfterClose ==
  LET c == sop.chan IN
  CASE sop.then = "attach" ->
         /\ slot' = [slot EXCEPT ![c] = "live"]
         /\ sop' = IF c = "mqtt" THEN At("pushall", "mqtt", "end") ELSE SlotIdle
         /\ supplied' = (supplied \/ c = "ftps") /\ torn' = (torn /\ c # "ftps")
    [] sop.then = "dial" ->
         /\ sop' = IF profile.dialable /\ (c = "ftps" \/ config["camera"] # "none")
                   THEN At("dial", c, "end") ELSE SlotIdle
         /\ UNCHANGED <<slot, supplied, torn>>
    [] OTHER -> sop' = SlotIdle /\ UNCHANGED <<slot, supplied, torn>>

CloseEnds ==
  /\ sop.at \in {"close", "closed"}
  /\ config' = ConfigAfterClose
  /\ AfterClose
  /\ UNCHANGED <<profile, dial>>

(***************************************************************************)
(* The environment.                                                         *)
(***************************************************************************)
\* A transport failure poisons an FTPS or tunnel session.
Poison(c) ==
  /\ sop = SlotIdle /\ slot[c] = "live"
  /\ slot' = [slot EXCEPT ![c] = "poisoned"]
  /\ UNCHANGED <<config, profile, sop, dial, supplied, torn>>

\* The caller drops the future.  A session being closed is gone with it; an
\* FTPS session held the connector, factory and timer of its configuration.
\* Streams connect_all has dialled and not installed are dropped.
SlotCancel ==
  /\ sop.at \notin {"idle", "closed", "all_done"}
  /\ sop' = SlotIdle /\ dial' = NoDials
  /\ torn' = (torn \/ (sop.at = "close" /\ sop.chan = "ftps"))
  /\ UNCHANGED <<slot, config, profile, supplied>>

SlotNext ==
  \/ \E c \in {"ftps", "camera"} : WithConfig(c) \/ WithAttached(c)
  \/ \E c \in Slots : EnsureDial(c) \/ Disconnect(c)
  \/ \E c \in {"ftps", "tunnel"} : EnsureReplace(c) \/ Poison(c)
  \/ \E c \in Channel : Attach(c) \/ AllDialEnds(c)
  \/ ConnectMqttAgain \/ DialFails \/ DialSucceeds \/ FinishPushall \/ FinishPrime
  \/ ConnectAll \/ AllJoined \/ AllInstall \/ AllPrimed \/ AllReturns
  \/ CloseEnds \/ SlotCancel

SlotSpec == SlotInit /\ [][SlotNext]_slotVars

(***************************************************************************)
(* Properties.                                                              *)
(***************************************************************************)
\* An FTPS configuration is never lost: while the caller has supplied one, it
\* is in ftps_config or inside the session in the slot (or the session being
\* closed), through failed and dropped dials, connect_all and reconnects.  The
\* one exception is a disconnect dropped while it waits for the session's
\* close.
FtpsConfigKept ==
  supplied /\ ~torn =>
    \/ slot["ftps"] # "none" \/ config["ftps"] # "none"
    \/ sop.at \in {"close", "closed"} /\ sop.chan = "ftps"

\* What connect_all returns is true when it returns: Some(Ok) means the session
\* is in its slot and Some(Err) that the slot is still empty and the channel
\* can be dialled again, each whatever became of the other channels; None means
\* a session is there, nothing was configured, or the model has no such
\* channel.
ConnectAllHonest ==
  sop.at = "all_done" => \A c \in Channel :
    /\ dial[c] = "ok"  => slot[c] = "live"
    /\ dial[c] = "err" => slot[c] = "none" /\ config[c] # "none" /\ Applicable(c)
    /\ dial[c] = "no"  => \/ slot[c] # "none" \/ config[c] = "none"
                          \/ ~Applicable(c)

\* The slots are as the caller was told: no FTPS configuration is lost, and each
\* channel's result of connect_all is true when it returns (connect.rs).
SlotsHonest == FtpsConfigKept /\ ConnectAllHonest
=============================================================================

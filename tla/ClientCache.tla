---------------------------- MODULE ClientCache ----------------------------
(***************************************************************************)
(* What PrinterClient remembers from telemetry and which of it outlives a   *)
(* connection: TelemetryCache and classify_message (src/client/telemetry.rs)*)
(* with the print_option replies (print_options.rs), the homing accessors   *)
(* (motion.rs), the firmware version (ams.rs) and the connection generation *)
(* that scopes them (connect.rs, mod.rs).                                   *)
(*                                                                         *)
(* A printer may send frames with any of the fields it has, in any order,   *)
(* so the values are free; what is fixed is its family: whether it sends    *)
(* `cfg` (and then also heartbeats with a partial home_flag), whether it    *)
(* speaks the "np" format.  One setting stands for the print_option         *)
(* settings; of the homed axes' bits only when they were read matters.      *)
(***************************************************************************)
EXTENDS Integers, Options

CONSTANTS
  CacheSessions,  \* bound: connection boundaries crossed
  CacheGenMod     \* 2^32: connection_generation wraps here

\* The generation does not wrap within one run of the program.
ASSUME CacheAssumption ==
  CacheSessions \in Nat /\ CacheGenMod \in Nat /\ 2 * CacheSessions < CacheGenMod

VARIABLES
  family,    \* [cfg, carried, np, supported]: see above; is the setting in cfg?
  live,      \* is self.mqtt Some?
  closing,   \* the caller's disconnect awaits the TLS close
  gen,       \* connection_generation
  sess,      \* history: the session in the slot (or last in it)
  cache,     \* the TelemetryCache
  told,      \* history: the setting the printer last told this client
  lagging,   \* history: a reply's value was dropped and no frame has given it
  tainted,   \* history: last_settings_home_flag is a heartbeat's partial flag
  sawFull    \* history: a full status report has been read

cacheVars == <<family, live, closing, gen, sess, cache, told, lagging, tainted,
               sawFull>>
CacheHistory == <<told, lagging, tainted, sawFull>>

Light == {"chamber", "work"}

\* A value stamped with the generation it was read under (and its session).
NeverStamped == [v |-> None, gen |-> None, sess |-> 0]
Stamp(v) == [v |-> v, gen |-> gen, sess |-> sess]

CacheInit ==
  /\ family \in [cfg : BOOLEAN, carried : BOOLEAN, np : BOOLEAN, supported : BOOLEAN]
  /\ family.np => family.cfg
  /\ live \in BOOLEAN   \* new() or from_mqtt()
  /\ closing = FALSE /\ gen = 0 /\ sess = 0
  /\ cache = [home |-> NeverStamped, setFlag |-> NeverStamped, cfg |-> None,
              reply |-> None, firmware |-> NeverStamped, np |-> None, lights |-> {},
              complete |-> FALSE]
  /\ told = None /\ lagging = FALSE /\ tainted = FALSE /\ sawFull = FALSE

(***************************************************************************)
(* Connection boundaries.                                                   *)
(***************************************************************************)
\* (Mutant: the generation is not bumped.)
BeginConnectionMutant ==
  gen' = gen
BeginConnection ==
  gen' = (gen + 1) % CacheGenMod

\* install_mqtt: ensure_mqtt, connect_all or attach_mqtt put a session in.
Install ==
  /\ ~live /\ ~closing /\ sess < CacheSessions
  /\ live' = TRUE /\ sess' = sess + 1
  /\ BeginConnection
  /\ UNCHANGED <<family, closing, cache, CacheHistory>>

StartDisconnect ==
  /\ ~closing /\ sess < CacheSessions /\ gen + 2 < CacheGenMod
  /\ live' = FALSE /\ closing' = TRUE
  /\ UNCHANGED <<family, gen, sess, cache, CacheHistory>>

FinishDisconnect ==
  /\ closing /\ closing' = FALSE
  /\ BeginConnection
  /\ UNCHANGED <<family, live, sess, cache, CacheHistory>>

\* The caller drops disconnect_mqtt during the close: no boundary is marked
\* until the next session is installed.
DropDisconnect ==
  /\ closing /\ closing' = FALSE
  /\ UNCHANGED <<family, live, gen, sess, cache, CacheHistory>>

(***************************************************************************)
(* Reading messages.                                                        *)
(***************************************************************************)
\* A frame: the fields it carries.  `full` is print_key_count > 30.
Frame == [full : BOOLEAN, flag : Opt(BOOLEAN), cfg : Opt(BOOLEAN), np : BOOLEAN,
          lights : {{}, {"chamber"}, Light}]

\* What the family can send.  home_flag is one word, homed bits and setting
\* bits: in a heartbeat the setting bits are zero.  An incremental frame lists
\* only the light that changed.
Sendable(f) ==
  /\ ~family.cfg => f.cfg = None
  /\ f.np => family.np /\ f.cfg # None
  /\ f.full = (f.lights = Light)
  /\ f.full => /\ f.flag # None
               /\ family.cfg = (f.cfg # None) /\ f.np = family.np
               /\ family.cfg /\ family.carried => f.cfg = f.flag
Heartbeat(f) == family.cfg /\ ~f.full /\ f.flag # None

\* The setting, as settings readers get it from a frame: cfg where it has the
\* bit, home_flag otherwise.
SettingIn(f) == IF family.cfg /\ family.carried THEN f.cfg ELSE f.flag

Says(f) == SettingIn(f) # None /\ ~(Heartbeat(f) /\ ~family.carried)

\* keep_new: a field a frame omits keeps its cached value.
KeepNew(old, new) == Or(new, old)

\* (Mutant: any frame's home_flag is trusted for settings.)
TrustsFlagMutant(f) == f.flag # None
TrustsFlag(f) == f.flag # None /\ (cache.cfg = None \/ f.full)

\* (Mutant: a partial frame without the probe fields downgrades np.)
NpFormatMutant(f) == f.np
NpFormat(f) == IF f.np THEN TRUE
               ELSE IF cache.np = None THEN FALSE ELSE cache.np

\* (Mutant: any frame with lights_report completes the list.)
LightsCompleteMutant(f) == cache.complete \/ f.lights # {}
LightsComplete(f) == cache.complete \/ (f.lights # {} /\ f.full)

\* A setting frame ends the life of every accepted reply's value.
\* (Mutant: the reply's value is kept.)
ReplyAfterMutant(f) == cache.reply
ReplyAfter(f) == IF TrustsFlag(f) \/ f.cfg # None THEN None ELSE cache.reply

\* classify_message, on a push: settings first, then update_telemetry_cache.
PollReport(f) ==
  /\ live /\ Sendable(f)
  /\ Heartbeat(f) => f.flag = FALSE
  /\ cache' = [cache EXCEPT
       !.reply = ReplyAfter(f),
       !.setFlag = IF TrustsFlag(f) THEN Stamp(f.flag) ELSE @,
       !.lights = @ \cup f.lights,
       !.complete = LightsComplete(f),
       !.home = IF f.flag # None THEN Stamp("homed bits") ELSE @,
       !.cfg = KeepNew(@, f.cfg),
       !.np = NpFormat(f)]
  /\ told' = IF Says(f) THEN SettingIn(f) ELSE told
  /\ lagging' = IF Says(f) THEN FALSE
                ELSE lagging \/ (cache.reply # None /\ ReplyAfter(f) = None)
  /\ tainted' = IF TrustsFlag(f) THEN Heartbeat(f) ELSE tainted
  /\ sawFull' = (sawFull \/ f.full)
  /\ UNCHANGED <<family, live, closing, gen, sess>>

\* apply_print_option_reply, on an accepted echo poll_telemetry delivers,
\* whichever client's command it answers.
PollReply(v) ==
  /\ live
  /\ cache' = IF family.supported THEN [cache EXCEPT !.reply = v] ELSE cache
  /\ told' = IF family.supported THEN v ELSE told
  /\ lagging' = (lagging /\ ~family.supported)
  /\ UNCHANGED <<family, live, closing, gen, sess, tainted, sawFull>>

\* await_ack returns the verdict of the same echo and drops the message.
AwaitAckReply(v) ==
  /\ live /\ family.supported
  /\ told' = v /\ lagging' = TRUE
  /\ UNCHANGED <<family, live, closing, gen, sess, cache, tainted, sawFull>>

\* get_version's reply, read within the call that asked for it.
GetVersion ==
  /\ live /\ cache' = [cache EXCEPT !.firmware = Stamp("version")]
  /\ UNCHANGED <<family, live, closing, gen, sess, CacheHistory>>

CacheNext ==
  \/ Install \/ StartDisconnect \/ FinishDisconnect \/ DropDisconnect
  \/ \E f \in Frame : PollReport(f)
  \/ \E v \in BOOLEAN : PollReply(v) \/ AwaitAckReply(v)
  \/ GetVersion

CacheSpec == CacheInit /\ [][CacheNext]_cacheVars

(***************************************************************************)
(* The accessors.                                                           *)
(***************************************************************************)
ThisConnection(field) == IF cache[field].gen = gen THEN cache[field].v ELSE None

IsAllAxesHomed == ThisConnection("home")
FirmwareThisConnection == ThisConnection("firmware")
SettingsHomeFlagThisConnection == ThisConnection("setFlag")

\* The setting getters: an accepted reply, then cfg alone once one has been
\* seen (unless cfg has no such bit), then home_flag.
ReadsFlag == ~(family.carried /\ cache.cfg # None)
SettingEnabled ==
  IF cache.reply # None THEN cache.reply
  ELSE IF ReadsFlag THEN cache.setFlag.v ELSE cache.cfg

(***************************************************************************)
(* Properties.                                                              *)
(***************************************************************************)
\* While a session is up, a value an accessor gives as "this connection's" was
\* read on it: homing, firmware and settings flag all go cold at a reconnect,
\* even one after a dropped disconnect.
ConnectionScoped ==
  live =>
    \A field \in {"home", "firmware", "setFlag"} :
      ThisConnection(field) # None => cache[field].sess = sess

\* A setting getter gives what the printer last said of the setting, be it in
\* a status frame or in an accepted reply, however the two alternate and over
\* reconnects.  It may lag only after await_ack took the reply, or a frame with
\* cfg cleared the reply of a setting cfg has no bit for, until the next frame
\* that carries the setting; and where a heartbeat came before the family's
\* first cfg.
SettingIsLatest ==
  ~lagging /\ ~(tainted /\ ReadsFlag) => SettingEnabled = told

\* Once a printer is known to send cfg, no heartbeat's partial home_flag is
\* taken for its settings.
NoNewTaint ==
  [][cache.cfg # None /\ ~tainted => ~tainted']_cacheVars

\* A full report settles the np format for good, and the light list is only
\* called complete when it is.
CapabilitiesSettle ==
  /\ sawFull => cache.np = family.np
  /\ cache.complete => cache.lights = Light

\* What the accessors give is this connection's, and what they call settled is:
\* homing, firmware, settings flag, np format and light list over reconnects,
\* dropped disconnects and partial frames (client/telemetry.rs, connect.rs:300).
CacheCurrent == ConnectionScoped /\ CapabilitiesSettle
=============================================================================

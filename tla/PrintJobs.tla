----------------------------- MODULE PrintJobs -----------------------------
(***************************************************************************)
(* Starting a print (src/mqtt/commands/print_job.rs, client/print.rs): the  *)
(* job's configuration, the project_file payload made of it, and the checks *)
(* start_print makes before it publishes one.                               *)
(*                                                                         *)
(* Names, plates, titles and ids are carried as they are and left out.  A   *)
(* mapping is [form, entries]: form "flat" has channel ids, "structured"    *)
(* has [ams, slot] entries; None is no AMS.                                 *)
(***************************************************************************)
EXTENDS AmsAddresses

WireI32(mode) == CASE mode = "Off" -> 0 [] mode = "On" -> 1 [] mode = "Auto" -> 2
WireBool(mode) == mode = "On"

\* sanitize_flat_mapping
\* (Mutant: the external spools' ids go through.)
KeptChannelMutant(v) == v = -1 \/ IsPhysicalFlatChannel(v) \/ IsExternalSpoolId(v)
KeptChannel(v) == v = -1 \/ IsPhysicalFlatChannel(v)
SanitizeFlat(flat) == [i \in DOMAIN flat |-> IF KeptChannel(flat[i]) THEN flat[i] ELSE -1]

(***************************************************************************)
(* resolve_rack_nozzle_mapping: the wire's slots, or None.                  *)
(***************************************************************************)
RackWireSlots == 4        \* RACK_WIRE_SLOTS: 32
RackFixedNozzle == 1      \* RACK_FIXED_NOZZLE_ID
RackExtruder == 0
FixedExtruder == 1
\* (Mutant: a carriage an H2C does not have is passed on.)
KnownCarriageMutant(extruder) == TRUE
KnownCarriage(extruder) == extruder \in {RackExtruder, FixedExtruder}
ResolveRackNozzleMapping(extruders, rackNozzle) ==
  LET used == {i \in DOMAIN extruders : extruders[i] >= 0} IN
    IF \/ Len(extruders) \notin 1..RackWireSlots
       \/ rackNozzle \notin RackNozzleIds
       \/ \A i \in DOMAIN extruders : extruders[i] # RackExtruder
       \/ \E i \in used : ~KnownCarriage(extruders[i])
    THEN None
    ELSE [i \in 1..RackWireSlots |->
            IF i \notin used THEN -1
            ELSE IF extruders[i] = RackExtruder THEN rackNozzle
            ELSE IF extruders[i] = FixedExtruder THEN RackFixedNozzle ELSE extruders[i]]

(***************************************************************************)
(* PrintJobConfig and its builders.                                         *)
(***************************************************************************)
NewJob ==
  [bed |-> "On", flow |-> "On", vibration |-> "Off", timelapse |-> TRUE, inspect |-> TRUE,
   offset |-> None, ams |-> None, rack |-> None, paShared |-> None, location |-> "Card",
   slicedFor |-> [kind |-> "NotSupplied"]]
Flat(entries) == [form |-> "flat", entries |-> entries]
Structured(entries) == [form |-> "structured", entries |-> entries]
WithAms(job, flat) == [job EXCEPT !.ams = Flat(SanitizeFlat(flat))]
WithAmsMapping2(job, mapping2) == [job EXCEPT !.ams = Structured(mapping2)]
WithNozzleRack(job, extruders, nozzle) ==   \* None is a refusal
  IF nozzle \in RackNozzleIds THEN [job EXCEPT !.rack = [extruders |-> extruders, nozzle |-> nozzle]]
  ELSE None

\* ProjectFileRequest::from_config: the payload's decided fields.  An inactive
\* ams_mapping and an absent ams_mapping2 or nozzle_mapping are None.
\* (Mutant: the deputy spool keeps its id on a single nozzle.)
ExternalNormalizedMutant(single, e) == e
ExternalNormalized(single, e) ==
  IF single /\ e.ams = ExternalDeputy THEN [e EXCEPT !.ams = ExternalMain] ELSE e

UseAms(single, ams) ==
  /\ ams # None
  /\ IF ams.form = "flat" THEN ExternalSpoolSafetyValidFlat(single, ams.entries)
     ELSE ExternalSpoolSafetyValid(single, ams.entries)

FromConfig(m, job) ==
  LET single == QuirksOf(m).nozzles = 1
      ams == IF job.ams # None /\ job.ams.form = "structured"
             THEN Structured([i \in DOMAIN job.ams.entries |-> ExternalNormalized(single, job.ams.entries[i])])
             ELSE job.ams
      useAms == UseAms(single, ams)
      offset == IF QuirksOf(m).nozzles > 1 THEN Or(job.offset, "On") ELSE "Off"
  IN [useAms |-> useAms,
      mapping |-> IF ~useAms THEN None
                  ELSE IF ams.form = "flat" THEN SanitizeFlat(ams.entries)
                  ELSE [i \in DOMAIN ams.entries |-> FlatChannelId(ams.entries[i])],
      mapping2 |-> IF useAms /\ ams.form = "structured" THEN ams.entries ELSE None,
      nozzleMapping |-> IF job.rack = None \/ ~QuirksOf(m).rack THEN None
                        ELSE ResolveRackNozzleMapping(job.rack.extruders, job.rack.nozzle),
      offset |-> WireI32(offset), autoBed |-> WireI32(job.bed), bed |-> WireBool(job.bed),
      flowFlag |-> WireI32(job.flow), flow |-> WireBool(job.flow), vibration |-> WireBool(job.vibration),
      manual |-> IF job.paShared = None THEN None ELSE IF job.paShared THEN 0 ELSE 1,
      url |-> IF job.location = "Card" THEN "ftp" ELSE "brtc"]

(***************************************************************************)
(* start_print: [sent, tunnel], whether the job is published and whether a  *)
(* tunnel session is left.  `tunnel` says how far reading the file gets:    *)
(* [opens, lists, files], where files is a sequence of [name, dir, id]; an  *)
(* id of "bad" is a member that cannot be read or parsed, None a file with  *)
(* no printer_model_id.                                                     *)
(***************************************************************************)
RefuseUnaccepted(m, id) == id = None \/ ~AcceptsSlicedFor(m, id)

\* find_listed_model, of the files of the job's name
\* (Mutant: the first of several is taken.)
ListedMutant(files) == IF files = <<>> THEN None ELSE files[1]
Listed(files) == IF Len(files) = 1 THEN files[1] ELSE None

\* read_sliced_for_through_tunnel and sliced_for_of_member: [ok, id]
ReadSlicedFor(tunnel, name) ==
  LET file == Listed(SelectSeq(tunnel.files, LAMBDA f : f.name = name))
      failed == [ok |-> FALSE, id |-> None]
  IN IF ~tunnel.opens \/ ~tunnel.lists \/ file = None THEN failed
     ELSE IF file.id = "bad" THEN failed ELSE [ok |-> TRUE, id |-> file.id]

StartPrint(m, ctx, job, name, tunnel) ==
  LET reads == job.slicedFor.kind = "NotSupplied"
      served == FileTunnelSupport(m, ctx).is
      read == ReadSlicedFor(tunnel, name)
      unfit == CASE job.slicedFor.kind = "Unchecked" -> FALSE
                 [] job.slicedFor.kind = "Model" -> RefuseUnaccepted(m, job.slicedFor.id)
                 [] reads -> ~served \/ ~read.ok \/ RefuseUnaccepted(m, read.id)
      early == \/ job.flow = "Auto" /\ ~PaCalibrationAutoSupport(m, ctx).is
               \/ job.paShared # None /\ ~PaModeSupport(ctx).is
  IN [sent |-> ~early /\ ~unfit,
      tunnel |-> IF ~early /\ reads /\ served THEN FALSE ELSE tunnel.was]

(***************************************************************************)
(* Inputs and properties.                                                   *)
(***************************************************************************)
JobEntries == {[ams |-> 0, slot |-> 1], [ams |-> 16, slot |-> 2], [ams |-> 128, slot |-> 0],
               [ams |-> 254, slot |-> 0], [ams |-> 255, slot |-> 0], UnmappedEntry, [ams |-> 7, slot |-> 0]}
Channels == {-1, 0, 15, 16, 128, 254, 255}
ListedFile(name, dir, id) == [name |-> name, dir |-> dir, id |-> id]
Listings == UNION {[1..n -> {ListedFile(f, d, i) : f \in {"a", "b"}, d \in {"/", "cache"}, i \in {"bad", None, "C12", "N2S"}}]
                     : n \in 0..2}
JobModels == {"P1S", "A1", "X1C", "H2D", "H2C"}
JobInputs ==
  [of : {"job"}, model : JobModels, first : JobEntries, second : JobEntries]
    \cup [of : {"channels"}, model : JobModels, first : Channels, second : Channels]
    \cup [of : {"rack"}, extruders : UNION {[1..n -> {-1, 0, 1, 2}] : n \in 0..5}, nozzle : {0, 1, 15, 16, 21, 22}]
    \cup [of : {"start"}, model : {"P1S", "X1C"}, files : Listings, kind : {"NotSupplied", "Model", "Unchecked"},
          id : {None, "C12", "N2S"}, flow : {"On", "Auto"}, opens : BOOLEAN, was : BOOLEAN,
          fun : {None, {"brtc"}}]

\* A printer with one nozzle is told to feed from its AMS exactly when some
\* filament comes from a tray, in the same words by both forms of the mapping:
\* the deputy spool, which it lacks, is never named, and a channel is unmapped or
\* physical on every printer (print_job.rs:661-724, mapping.rs:326-351).
PayloadConsistent ==
  /\ Given("job") =>
       LET entries == <<input.first, input.second>>
           sent == FromConfig(input.model, WithAmsMapping2(NewJob, entries))
           flat == FromConfig(input.model, WithAms(NewJob, [i \in 1..2 |-> FlatChannelId(entries[i])]))
           single == QuirksOf(input.model).nozzles = 1
       IN /\ sent.useAms = flat.useAms /\ sent.mapping = flat.mapping
          /\ sent.useAms => \A i \in 1..2 : KeptChannel(sent.mapping[i])
          /\ single => sent.useAms = \E i \in 1..2 : FlatChannelId(entries[i]) # -1
          /\ single /\ sent.useAms => \A i \in 1..2 : sent.mapping2[i].ams # ExternalDeputy
          /\ (sent.mapping2 = None) = ~sent.useAms
  /\ Given("channels") =>
       LET flat == <<input.first, input.second>>
           built == FromConfig(input.model, WithAms(NewJob, flat))
           raw == FromConfig(input.model, [NewJob EXCEPT !.ams = Flat(flat)])
       IN /\ built = raw
          /\ built.useAms => \A i \in 1..2 : built.mapping[i] \in {-1} \cup 0..15 \cup 128..135

\* A printed slot goes to the nozzle its carriage has, an unprinted one to none,
\* and no mapping is sent for a job that names a carriage the printer lacks or
\* leaves the rack alone: the firmware then chooses (print_job.rs:103-161).
RackMappingExact ==
  Given("rack") =>
    LET wire == ResolveRackNozzleMapping(input.extruders, input.nozzle)
        slots == DOMAIN input.extruders
        set == {input.extruders[i] : i \in slots}
    IN /\ wire # None => /\ set \subseteq {-1, 0, 1} /\ 0 \in set /\ input.nozzle \in RackNozzleIds
                         /\ \A i \in slots : /\ wire[i] = -1 <=> input.extruders[i] < 0
                                             /\ wire[i] = input.nozzle <=> input.extruders[i] = RackExtruder
       /\ wire = None => \/ WithNozzleRack(NewJob, input.extruders, input.nozzle) = None
                         \/ slots = {} \/ Len(input.extruders) > RackWireSlots
                         \/ 0 \notin set \/ 2 \in set

\* No job is published for a file that this printer is not known to accept,
\* unless the caller said not to check: when the id is read from the printer it
\* is that of the only file of the job's name, and the tunnel session it took
\* is not left open whichever way the read went (print.rs:431-548).
StartedFileFits ==
  Given("start") =>
    LET job == [NewJob EXCEPT !.flow = input.flow,
                  !.slicedFor = IF input.kind = "Model" THEN [kind |-> "Model", id |-> input.id]
                                ELSE [kind |-> input.kind]]
        tunnel == [opens |-> input.opens, lists |-> TRUE, files |-> input.files, was |-> input.was]
        ctx == [EmptyContext EXCEPT !.fun = input.fun, !.flow = TRUE]
        started == StartPrint(input.model, ctx, job, "a", tunnel)
        named == {i \in DOMAIN input.files : input.files[i].name = "a"}
    IN /\ started.sent /\ input.kind = "Model" => AcceptsSlicedFor(input.model, input.id)
       /\ started.sent /\ input.kind = "NotSupplied" =>
            /\ input.opens /\ named # {} /\ ~started.tunnel
            /\ input.fun = None => QuirksOf(input.model).camera # "BinaryJpeg"
            /\ \A i \in named : AcceptsSlicedFor(input.model, input.files[i].id)
       /\ started.tunnel => input.was
=============================================================================

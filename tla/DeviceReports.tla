--------------------------- MODULE DeviceReports ----------------------------
(***************************************************************************)
(* The rest of a status report that is decoded or merged: the `device`      *)
(* section (src/types/telemetry/device.rs, diagnostics.rs), temperatures    *)
(* (temps.rs), numbers a firmware sends as it likes (loose.rs) and fan      *)
(* speeds (quirks/mod.rs).  Two fields stand for the fields of a section    *)
(* that merges them one by one, and two fans for the air duct's parts.      *)
(***************************************************************************)
EXTENDS AmsReports

(***************************************************************************)
(* DeviceTelemetry::merge_from: `climate` is ctc, merged in depth; `bed`,   *)
(* `nozzle` and `extruder` replace their `info` list as one; `airduct`      *)
(* updates the parts a frame lists.                                         *)
(***************************************************************************)
MergeClimate(cached, new) ==
  [info |-> MergeOptional(cached.info, new.info, MergeFields(cached.info, new.info)),
   state |-> Or(new.state, cached.state)]

\* AirductCollection::merge_from: an empty list clears the parts.
\* (Mutant: a frame's parts replace the cached ones.)
MergePartsMutant(cached, new) == Or(new, cached)
MergeParts(cached, new) ==
  IF new = None THEN cached
  ELSE IF DOMAIN new = {} THEN new
  ELSE MergeKeyed(Or(cached, NoTrays), new, new)
MergeAirduct(cached, new) ==
  [parts |-> MergeParts(cached.parts, new.parts), mode |-> Or(new.mode, cached.mode)]

MergeDevice(cached, new) ==
  [nozzle |-> MergeOptional(cached.nozzle, new.nozzle, MergeFields(cached.nozzle, new.nozzle)),
   climate |-> MergeOptional(cached.climate, new.climate, MergeClimate(cached.climate, new.climate)),
   airduct |-> MergeOptional(cached.airduct, new.airduct, MergeAirduct(cached.airduct, new.airduct))]

(***************************************************************************)
(* Temperatures and the tray an extruder names.                             *)
(***************************************************************************)
Word16 == 65536   \* 2^16: the packed halves
CompositeThreshold == 500

\* unpack_temperature: a small value is a bare reading, a larger one packs the
\* target above the reading.
\* (Mutant: every value is a bare reading.)
UnpackTemperatureMutant(value) == [actual |-> value % Word16, target |-> 0]
UnpackTemperature(value) ==
  IF value <= CompositeThreshold THEN [actual |-> value, target |-> 0]
  ELSE [actual |-> value % Word16, target |-> value \div Word16]

\* decode_bed_temperatures: the packed word, else the two plain fields.
DecodeBed(packed, actual, target) ==
  IF packed # None THEN UnpackTemperature(packed)
  ELSE IF actual = None /\ target = None THEN None
  ELSE [actual |-> Or(actual, 0), target |-> Or(target, 0)]

\* decode_nozzle_temperatures: per extruder where packed words are given, else
\* the plain fields, which on two mounted nozzles are of different nozzles.
IsRackStored(id) == id \div 16 = 1
DecodeNozzles(packed, mounted, actual, target) ==
  IF packed # <<>> THEN [i \in DOMAIN packed |-> UnpackTemperature(packed[i])]
  ELSE IF actual = None /\ target = None THEN <<>>
  ELSE IF Cardinality({id \in mounted : ~IsRackStored(id)}) >= 2
  THEN <<[actual |-> 0, target |-> Or(target, 0)], [actual |-> Or(actual, 0), target |-> 0]>>
  ELSE <<[actual |-> Or(actual, 0), target |-> Or(target, 0)]>>

\* CtcInfo::temperatures: a plain target overrides the packed one.
ClimateTemperatures(temp, target) ==
  IF temp = None THEN None
  ELSE IF target = None THEN UnpackTemperature(temp)
  ELSE [UnpackTemperature(temp) EXCEPT !.target = IF target < Word16 THEN target ELSE Word16 - 1]

\* decode_ams_slot_field: current_ams_slot, previous_ams_slot, target_ams_slot.
\* (Mutant: the unit's id is left as the wire has it.)
DecodeAmsSlotMutant(raw) ==
  IF raw = None \/ raw = 65535 THEN None ELSE [ams |-> (raw \div 256) % 256, slot |-> raw % 256]
DecodeAmsSlot(raw) ==
  IF raw = None \/ raw = 65535 THEN None
  ELSE [ams |-> NormalizeAmsUnitId((raw \div 256) % 256), slot |-> raw % 256]

(***************************************************************************)
(* loose.rs: a value as it is in the JSON, [form, n], read as an integer of *)
(* the field's type or as a word of flags.  Flags are one byte here.        *)
(***************************************************************************)
FlagMod == 256   \* 2^32

LooseInt(v) == IF v.form \in {"number", "string"} THEN v.n ELSE None
OptInt(v, lo, hi) == IF LooseInt(v) = None THEN None ELSE IF v.n \in lo..hi THEN v.n ELSE None
\* deserialize_permissive_opt_flags: `i as u32` keeps the bits of a negative.
\* (Mutant: a value outside u32 is dropped.)
OptFlagsMutant(v) == OptInt(v, 0, FlagMod - 1)
OptFlags(v) == IF LooseInt(v) = None THEN None ELSE v.n % FlagMod

(***************************************************************************)
(* Fans: fan_step_to_percentage and FanSpeedDebouncer.                      *)
(***************************************************************************)
FanStepMax == 15
FanStepToPercentage(step) == IF step >= FanStepMax THEN 100 ELSE (step * 100 + 7) \div FanStepMax
BypassDiff == (100 + FanStepMax - 1) \div FanStepMax
ConfirmFrames == 3
Distance(a, b) == IF a < b THEN b - a ELSE a - b

NewDebouncer == [stable |-> 0, count |-> 0, target |-> 0]
\* (Mutant: a new target goes on counting from the one before.)
TargetCountMutant(d) == d.count + 1
TargetCount(d) == 1
Debounce(d, pct) ==
  IF Distance(pct, d.stable) > BypassDiff THEN [stable |-> pct, count |-> 0, target |-> pct]
  ELSE IF pct = d.stable THEN [d EXCEPT !.count = 0, !.target = pct]
  ELSE IF pct = d.target
  THEN IF d.count + 1 >= ConfirmFrames THEN [d EXCEPT !.stable = pct, !.count = 0]
       ELSE [d EXCEPT !.count = @ + 1]
  ELSE [d EXCEPT !.target = pct, !.count = TargetCount(d)]

(***************************************************************************)
(* Inputs and properties.                                                   *)
(***************************************************************************)
Section(f, g) == [info |-> f, state |-> g]
DeviceFrames ==
  [nozzle : {None, Section("a", None), Section(None, 2)},
   climate : {None, Section([temp |-> 40, target |-> None], None), Section([temp |-> None, target |-> 60], 1)},
   airduct : {None, [parts |-> None, mode |-> 1]}
               \cup {[parts |-> p, mode |-> None] : p \in {NoTrays, [k \in {1} |-> 30], [k \in {1} |-> None], [k \in {1, 2} |-> 60]}}]
DeviceInputs ==
  [of : {"device"}, first : DeviceFrames, second : DeviceFrames, third : {d \in DeviceFrames : d.nozzle = None /\ d.climate = None}]
    \cup [of : {"temps"}, actual : {0, 25, 499, 500, 501, 1000}, target : {0, 60, 220, 500}, mounted : {{0}, {0, 1}, {0, 16}}]
    \cup [of : {"loose"}, word : 0..(FlagMod - 1)]
    \cup [of : {"fan-reports"}, frames : [1..6 -> {0, 5, 7, 20}]]

Empty == [nozzle |-> None, climate |-> None, airduct |-> None]

\* A device report built from partial frames gives each reading as it was last
\* reported: a frame that mentions one fan, or only the target of the chamber,
\* leaves the other fans and the chamber's temperature.  A fan reads as the last
\* frame that lists it has it: one listed without a state is left without a
\* reading (device.rs:55-100, 655-693).
DeviceIsLastSaid ==
  Given("device") =>
    LET frames == <<input.first, input.second, input.third>>
        merged == MergeDevice(MergeDevice(MergeDevice(Empty, input.first), input.second), input.third)
        said(section, x) ==   \* the last value the frames gave x of a section
          LastOf([i \in 1..3 |-> IF frames[i][section] = None THEN None ELSE frames[i][section][x]])
        of(section, x) == IF merged[section] = None THEN None ELSE merged[section][x]
        inside(i, x) == IF frames[i].climate = None THEN None ELSE frames[i].climate.info[x]
        parts(i) == IF frames[i].airduct = None THEN None ELSE frames[i].airduct.parts
        cleared(i) == \E j \in i..3 : parts(j) # None /\ DOMAIN parts(j) = {}
        listing(fan) ==   \* the frames since the last clearing one that list the fan
          {i \in 1..3 : parts(i) # None /\ ~cleared(i) /\ fan \in DOMAIN parts(i)}
        fans == of("airduct", "parts")
    IN /\ \A x \in {"info", "state"} : of("nozzle", x) = said("nozzle", x)
       /\ of("climate", "state") = said("climate", "state") /\ of("airduct", "mode") = said("airduct", "mode")
       /\ merged.climate # None =>
            \A x \in {"temp", "target"} : merged.climate.info[x] = LastOf([i \in 1..3 |-> inside(i, x)])
       /\ \A fan \in {1, 2} :
            (IF fans = None \/ fan \notin DOMAIN fans THEN None ELSE fans[fan])
              = IF listing(fan) = {} THEN None ELSE parts(Max(listing(fan)))[fan]

\* A heater reads the same whichever way the firmware sends it: packed in one
\* word or in two fields, for one nozzle mounted and the others in the rack
\* (temps.rs:54-169).
HeaterFormsAgree ==
  Given("temps") =>
    LET packed == input.target * Word16 + input.actual
        plain == [actual |-> input.actual, target |-> input.target]
    IN /\ DecodeBed(packed, None, None) = plain /\ DecodeBed(None, input.actual, input.target) = plain
       /\ DecodeNozzles(<<packed>>, input.mounted, 1, 1) = <<plain>>
       /\ input.mounted # {0, 1} => DecodeNozzles(<<>>, input.mounted, input.actual, input.target) = <<plain>>
       /\ ClimateTemperatures(input.actual, input.target) = plain
       /\ ClimateTemperatures(packed, None) = plain

\* The tray an extruder reports in use is the one that was loaded: the word read
\* back for a tray that change_filament addressed names that tray's global id, on
\* every kind of unit (device.rs:579-607, client/ams.rs:90-139).
LoadedTrayReadsBack ==
  Given("address") /\ <<input.ams, input.slot>> \in Trays =>
    LET sent == ChangeFilament(input.ams, input.slot)
        read == DecodeAmsSlot(sent.ams * 256 + sent.slot)
    IN ResolveGlobalTrayId(read.ams, read.slot)
         = ResolveGlobalTrayId(NormalizeAmsUnitId(input.ams), input.slot)

\* A word of flags has the same bits whether the firmware sends it signed,
\* unsigned or as text (loose.rs:125-132).
FlagFormsAgree ==
  Given("loose") =>
    \A form \in {"number", "string"} :
      /\ OptFlags([form |-> form, n |-> input.word]) = input.word
      /\ OptFlags([form |-> form, n |-> input.word - FlagMod]) = input.word

Shown(k) == FoldLeft(Debounce, NewDebouncer, SubSeq(input.frames, 1, k)).stable

\* The fan speed shown moves only by a jump of more than one step of the fan or
\* after three frames that agree, and three frames that agree always move it
\* (quirks/mod.rs:1317-1343).
FanSettles ==
  Given("fan-reports") =>
    \A k \in 1..6 :
      LET agree == k >= 3 /\ input.frames[k] = input.frames[k - 1] /\ input.frames[k] = input.frames[k - 2]
      IN /\ agree => Shown(k) = input.frames[k]
         /\ Shown(k) # Shown(k - 1) => agree \/ Distance(input.frames[k], Shown(k - 1)) > BypassDiff
         /\ Distance(Shown(k), input.frames[k]) <= BypassDiff
=============================================================================

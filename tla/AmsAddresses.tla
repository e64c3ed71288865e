---------------------------- MODULE AmsAddresses ----------------------------
(***************************************************************************)
(* How a filament tray is addressed (src/ams/ids.rs, ams/parser.rs,         *)
(* ams/mapping.rs, diagnostics/kprofile.rs and the AMS commands of          *)
(* client/ams.rs and mqtt/commands/ams.rs).  The same tray has a unit and   *)
(* slot in telemetry, a wire id in commands, a bit of tray_exist_bits, a    *)
(* global index, an entry of a job's mapping and a label; every conversion  *)
(* between them is here.                                                    *)
(***************************************************************************)
EXTENDS Quirks

SlotsPerUnit == 4
SlotUnload == 255
SlotExternalLoad == 254
ExternalMain == 255
ExternalDeputy == 254
LitePhysical == 16     \* an AMS Lite on an A2L, on the wire
LiteNormalized == 6    \* ... and in telemetry, normalized
HtMin == 128
HtMax == 135

NormalizeAmsUnitId(a) == IF a = LitePhysical THEN LiteNormalized ELSE a
\* (Mutant: the A2L's AMS Lite is addressed by its normalized id.)
WireAmsIdMutant(a) == a
WireAmsId(a) == IF a = LiteNormalized THEN LitePhysical ELSE a

IsStandardId(a) == a <= 3
IsAmsHtId(a) == a \in HtMin..HtMax
IsAmsLiteOnA2lId(a) == a \in {LitePhysical, LiteNormalized}
IsExternalSpoolId(a) == a \in {ExternalMain, ExternalDeputy}
IsBusUnitId(a) == IsStandardId(a) \/ IsAmsHtId(a) \/ IsAmsLiteOnA2lId(a)
IsValidAmsId(a) == IsBusUnitId(a) \/ IsExternalSpoolId(a)
IsUnitSlot(a, s) ==
  IF IsAmsHtId(a) THEN s = 0 ELSE (IsStandardId(a) \/ IsAmsLiteOnA2lId(a)) /\ s < SlotsPerUnit

(***************************************************************************)
(* ams/parser.rs, over normalized ids.                                      *)
(***************************************************************************)
\* (Mutant: an AMS HT's bit is counted from its unit number's four slots.)
TrayExistBitIndexMutant(a, s) ==
  IF IsAmsHtId(a) THEN (IF s = 0 THEN 12 + (a - HtMin) ELSE None)
  ELSE IF (IsStandardId(a) \/ a = LiteNormalized) /\ s < SlotsPerUnit THEN a * SlotsPerUnit + s
  ELSE None
TrayExistBitIndex(a, s) ==
  IF IsAmsHtId(a) THEN (IF s = 0 THEN 16 + (a - HtMin) ELSE None)
  ELSE IF (IsStandardId(a) \/ a = LiteNormalized) /\ s < SlotsPerUnit THEN a * SlotsPerUnit + s
  ELSE None

\* evaluate_spool_presence; `bits` is the set of bits of tray_exist_bits.
SpoolPresence(bits, a, s, powerOn) ==
  IF (bits = {} /\ ~powerOn) \/ TrayExistBitIndex(a, s) = None THEN None
  ELSE TrayExistBitIndex(a, s) \in bits

ResolveGlobalTrayId(a, s) ==
  IF IsAmsHtId(a) THEN (IF s = 0 THEN a ELSE None)
  ELSE IF IsExternalSpoolId(a) THEN a
  ELSE IF (IsStandardId(a) \/ a = LiteNormalized) /\ s < SlotsPerUnit THEN a * SlotsPerUnit + s
  ELSE None

\* slot_label: the family of the label and its number in it.
SlotLabel(a, s, extruders) ==
  LET id == ResolveGlobalTrayId(NormalizeAmsUnitId(a), s) IN
    CASE id = None -> None
      [] id = ExternalMain /\ extruders = 2 -> <<"Ext-R">>
      [] id = ExternalDeputy /\ extruders = 2 -> <<"Ext-L">>
      [] IsExternalSpoolId(id) -> <<"Ext">>
      [] IsAmsHtId(id) -> <<"HT", id - HtMin>>
      [] id >= LiteNormalized * SlotsPerUnit -> <<"Q", id - LiteNormalized * SlotsPerUnit + 1>>
      [] OTHER -> <<"unit", id \div SlotsPerUnit, (id % SlotsPerUnit) + 1>>

\* resolve_printing_global_id; `map` is the unit each extruder prints from.
ResolvePrintingGlobalId(trayNow, extruder, map) ==
  IF extruder = None \/ extruder \notin DOMAIN map THEN None
  ELSE ResolveGlobalTrayId(NormalizeAmsUnitId(map[extruder]), trayNow)

(***************************************************************************)
(* ams/mapping.rs: an entry of a job's mapping, [ams, slot], and its flat   *)
(* form.                                                                    *)
(***************************************************************************)
UnmappedEntry == [ams |-> ExternalMain, slot |-> ExternalMain]

\* MaterialSource::to_mapping2_entry
ToMapping2Entry(source) ==
  LET entry(ok, a, s) == IF ok THEN [ams |-> a, slot |-> s] ELSE UnmappedEntry IN
    CASE source.kind = "StandardAms" ->
           entry(IsStandardId(source.ams) /\ source.slot < SlotsPerUnit, source.ams, source.slot)
      [] source.kind = "AmsHt" -> entry(IsAmsHtId(source.ams), source.ams, 0)
      [] source.kind = "AmsLite" -> entry(source.slot < SlotsPerUnit, LitePhysical, source.slot)
      [] source.kind \in {"ExternalSpool", "ExternalSpoolRight"} -> entry(TRUE, ExternalMain, 0)
      [] source.kind = "ExternalSpoolLeft" -> entry(TRUE, ExternalDeputy, 0)
      [] source.kind = "Unmapped" -> UnmappedEntry

\* classify_mapping2_entry
ClassifyEntry(e) ==
  CASE IsExternalSpoolId(e.ams) -> "External"
    [] IsStandardId(e.ams) /\ e.slot < SlotsPerUnit -> "Standard"
    [] IsAmsHtId(e.ams) -> "Ht"
    [] e.ams = LitePhysical /\ e.slot < SlotsPerUnit -> "AmsLite"
    [] OTHER -> "Invalid"

\* flat_channel_id_for_entry
FlatChannelId(e) ==
  CASE ClassifyEntry(e) = "Standard" -> e.ams * SlotsPerUnit + e.slot
    [] ClassifyEntry(e) = "Ht" -> e.ams
    [] ClassifyEntry(e) = "AmsLite" -> e.slot
    [] OTHER -> -1

\* is_physical_flat_channel, is_external_spool_safety_valid and its flat form
\* (Mutant: the last unit's slots are left out.)
IsPhysicalFlatChannelMutant(v) == v \in 0..11 \/ v \in HtMin..HtMax
IsPhysicalFlatChannel(v) == v \in 0..15 \/ v \in HtMin..HtMax
ExternalSpoolSafetyValid(singleNozzle, mapping2) ==
  singleNozzle => \E i \in DOMAIN mapping2 : ClassifyEntry(mapping2[i]) \in {"Standard", "Ht", "AmsLite"}
ExternalSpoolSafetyValidFlat(singleNozzle, flat) ==
  singleNozzle => \E i \in DOMAIN flat : IsPhysicalFlatChannel(flat[i])

(***************************************************************************)
(* The commands' addresses; None is a refusal.                              *)
(***************************************************************************)
\* change_filament, AmsChangeFilamentRequest::load and unload
LoadTarget(wire, s) == IF wire >= LitePhysical THEN wire ELSE wire * SlotsPerUnit + s
ChangeFilament(a, s) ==
  LET slotValid == CASE s = SlotUnload -> TRUE
                     [] s = SlotExternalLoad -> IsExternalSpoolId(a)
                     [] IsExternalSpoolId(a) -> s < SlotsPerUnit
                     [] OTHER -> IsUnitSlot(a, s)
      wire == WireAmsId(a)
  IN IF ~IsValidAmsId(a) \/ ~slotValid THEN None
     ELSE IF s = SlotUnload THEN [ams |-> wire, slot |-> SlotUnload, target |-> SlotUnload]
     ELSE [ams |-> wire, slot |-> s, target |-> LoadTarget(wire, s)]

\* scan_rfid: `np` is the new protocol flag; trayNow is None or the loaded tray.
ScanRfid(a, s, np, trayNow) ==
  IF ~IsBusUnitId(a) \/ ~IsUnitSlot(a, s) \/ trayNow \notin {None, SlotUnload} THEN None
  ELSE IF np = FALSE THEN [form |-> "M620", tray |-> ResolveGlobalTrayId(NormalizeAmsUnitId(a), s)]
  ELSE [form |-> "ams_get_rfid", ams |-> WireAmsId(a), slot |-> s]

\* set_tray_filament, AmsFilamentSettingRequest::new
SetTrayFilament(m, a, s) ==
  LET valid == IF IsExternalSpoolId(a) THEN s = 0 /\ (a # ExternalDeputy \/ QuirksOf(m).nozzles > 1)
               ELSE IsUnitSlot(a, s)
  IN IF ~valid THEN None
     ELSE [ams |-> WireAmsId(a), slot |-> s, tray |-> IF IsExternalSpoolId(a) THEN ExternalDeputy ELSE s]

\* CaliSelAddress::new
\* (Mutant: the unit is not normalized before its tray is resolved.)
CaliSelAddressMutant(a, s) ==
  LET tray == IF IsValidAmsId(a) THEN ResolveGlobalTrayId(a, s) ELSE None
  IN IF tray = None THEN None
     ELSE [ams |-> WireAmsId(a), tray |-> tray,
           slot |-> IF IsAmsHtId(a) \/ IsExternalSpoolId(a) THEN 0 ELSE s]
CaliSelAddress(a, s) ==
  LET tray == IF IsValidAmsId(a) THEN ResolveGlobalTrayId(NormalizeAmsUnitId(a), s) ELSE None
  IN IF tray = None THEN None
     ELSE [ams |-> WireAmsId(a), tray |-> tray,
           slot |-> IF IsAmsHtId(a) \/ IsExternalSpoolId(a) THEN 0 ELSE s]

(***************************************************************************)
(* Inputs and properties.                                                   *)
(***************************************************************************)
UnitIds == 0..7 \cup 15..17 \cup 127..136 \cup 253..255
SlotIds == 0..4 \cup {254, 255}
AddressInputs ==
  [of : {"address"}, ams : UnitIds, slot : SlotIds]
    \cup [of : {"entries"}, first : [ams : UnitIds, slot : SlotIds], second : {[ams |-> 0, slot |-> 0],
          [ams |-> 16, slot |-> 3], UnmappedEntry, [ams |-> 254, slot |-> 0], [ams |-> 7, slot |-> 0]}]

Trays == {t \in UnitIds \X SlotIds : IsBusUnitId(t[1]) /\ IsUnitSlot(t[1], t[2])}
SameTray(a, s, t) == NormalizeAmsUnitId(a) = NormalizeAmsUnitId(t[1]) /\ s = t[2]

\* Two trays of the printer are never taken for each other: on the bus units,
\* distinct trays have distinct bits of tray_exist_bits, global indices, labels
\* and load commands, and the two ids of an A2L's AMS Lite are one unit in
\* all of them.
TraysDistinct ==
  Given("address") /\ <<input.ams, input.slot>> \in Trays =>
    \A t \in Trays :
      LET same == SameTray(input.ams, input.slot, t)
          unit == NormalizeAmsUnitId(input.ams)
          other == NormalizeAmsUnitId(t[1])
      IN /\ same <=> (TrayExistBitIndex(unit, input.slot) = TrayExistBitIndex(other, t[2]))
         /\ same <=> (ResolveGlobalTrayId(unit, input.slot) = ResolveGlobalTrayId(other, t[2]))
         /\ same <=> (SlotLabel(input.ams, input.slot, 1) = SlotLabel(t[1], t[2], 1))
         /\ same <=> (CaliSelAddress(input.ams, input.slot) = CaliSelAddress(t[1], t[2]))
         /\ same <=> (ChangeFilament(input.ams, input.slot) = ChangeFilament(t[1], t[2]))

Addressed(a, s) == <<a, s>> \in Trays \/ (IsExternalSpoolId(a) /\ s = 0)

\* Every command accepts exactly the trays there are, and what it sends names a
\* unit as the wire does: no command goes out with the AMS Lite's telemetry id,
\* and none addresses a slot its unit lacks (client/ams.rs:90-351, kprofile.rs:468).
CommandsAddressTrays ==
  Given("address") =>
    LET a == input.ams
        s == input.slot
        sent == {ChangeFilament(a, s), SetTrayFilament("H2D", a, s), CaliSelAddress(a, s)} \ {None}
    IN /\ (SetTrayFilament("H2D", a, s) # None) = Addressed(a, s)
       /\ (ScanRfid(a, s, TRUE, None) # None) = (<<a, s>> \in Trays)
       /\ IsBusUnitId(a) => (CaliSelAddress(a, s) # None) = (<<a, s>> \in Trays)
       /\ s \notin {SlotUnload, SlotExternalLoad} /\ IsBusUnitId(a)
            => (ChangeFilament(a, s) # None) = (<<a, s>> \in Trays)
       /\ \A c \in sent : c.ams # LiteNormalized /\ WireAmsId(NormalizeAmsUnitId(c.ams)) = c.ams

\* The two forms of a job's mapping never disagree on whether the job feeds from
\* the AMS, so `use_ams` is the same whichever of them the caller passed
\* (mapping.rs:326-351, 477-496).
SafetyFormsAgree ==
  Given("entries") =>
    LET mapping2 == <<input.first, input.second>>
        flat == <<FlatChannelId(input.first), FlatChannelId(input.second)>>
    IN ExternalSpoolSafetyValid(TRUE, mapping2) = ExternalSpoolSafetyValidFlat(TRUE, flat)
=============================================================================

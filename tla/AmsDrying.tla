----------------------------- MODULE AmsDrying ------------------------------
(***************************************************************************)
(* Drying filament in an AMS (src/types/drying.rs, client/drying.rs and the *)
(* drying request of mqtt/commands/ams.rs): the table of materials, the     *)
(* defaults a cycle takes from it, and what DryingCycle::send checks before *)
(* it sends.                                                                *)
(***************************************************************************)
EXTENDS AmsReports

(***************************************************************************)
(* SPECS.  The columns are AMS 2 Pro, AMS HT, and both again while printing.*)
(***************************************************************************)
Row(temp, hours, softening, distortion, dryableBy) ==
  [temp |-> temp, hours |-> hours, softening |-> softening, distortion |-> distortion,
   by |-> dryableBy]
Always12 == <<12, 12, 12, 12>>
Gentle == Row(<<45, 45, 45, 45>>, Always12, 50, 45, "AnyDryer")
Engineering(by) == Row(<<65, 85, 65, 85>>, Always12, 150, 165, by)

Specs ==
  [PLA |-> Gentle, PE |-> Gentle, PHA |-> Gentle, EVA |-> Gentle,
   PETG |-> Row(<<65, 65, 55, 55>>, Always12, 60, 75, "AnyDryer"),
   PCTG |-> Row(<<65, 65, 55, 55>>, Always12, 60, 75, "AnyDryer"),
   BVOH |-> Row(<<60, 60, 45, 45>>, Always12, 50, 65, "AnyDryer"),
   PP |-> Row(<<60, 60, 50, 50>>, Always12, 55, 60, "AnyDryer"),
   ABS |-> Row(<<65, 80, 65, 75>>, <<12, 8, 12, 8>>, 80, 90, "AmsHtOnly"),
   ASA |-> Row(<<65, 80, 65, 80>>, Always12, 85, 100, "AmsHtOnly"),
   HIPS |-> Row(<<65, 80, 65, 75>>, Always12, 80, 90, "AmsHtOnly"),
   PC |-> Row(<<65, 80, 65, 80>>, <<12, 8, 12, 8>>, 90, 105, "AmsHtOnly"),
   PVA |-> Row(<<65, 85, 65, 70>>, <<12, 18, 12, 18>>, 75, 75, "AmsHtOnly"),
   TPU |-> Row(<<65, 75, 45, 45>>, <<12, 18, 12, 18>>, 50, 45, "AmsHtOnly"),
   PA |-> Engineering("AmsHtOnly"), PPA |-> Engineering("Neither"), PPS |-> Engineering("Neither")]
Materials == DOMAIN Specs

\* row_index
\* (Mutant: the columns of the two units are swapped.)
RowIndexMutant(unit, printing) ==
  IF DryingColumn(unit) = None THEN None ELSE 2 - DryingColumn(unit) + IF printing THEN 2 ELSE 0
RowIndex(unit, printing) ==
  IF DryingColumn(unit) = None THEN None ELSE 1 + DryingColumn(unit) + IF printing THEN 2 ELSE 0

DefaultTemp(material, unit, printing) ==
  LET i == RowIndex(unit, printing)
      spec == Specs[material]
  IN IF i = None THEN None
     ELSE IF spec.temp[i] < spec.distortion THEN spec.temp[i] ELSE spec.distortion
DefaultDurationHours(material, unit, printing) ==
  LET i == RowIndex(unit, printing) IN IF i = None THEN None ELSE Specs[material].hours[i]

FullyDryableBy(material, unit) ==
  CASE Specs[material].by = "AnyDryer" -> SupportsDrying(unit)
    [] Specs[material].by = "AmsHtOnly" -> unit = "AmsHt"
    [] OTHER -> FALSE

(***************************************************************************)
(* DryingCycle::send, for a cycle [ams, material (with the unit model the   *)
(* caller names), printing, temp, hours, cooling]: what is sent, or the     *)
(* refusal.  `known` is ams_unit_model(ams): the model the unit reported.   *)
(***************************************************************************)
Nonzero(n) == IF n = 0 THEN None ELSE n
TempOf(c) ==
  Nonzero(Or(c.temp, IF c.material = None THEN None ELSE DefaultTemp(c.material, c.unit, c.printing)))
HoursOf(c) ==
  Nonzero(Or(c.hours, IF c.material = None THEN None ELSE DefaultDurationHours(c.material, c.unit, c.printing)))
CoolingOf(c) == Or(c.cooling, IF c.material = None THEN 50 ELSE Specs[c.material].softening)

\* The unit whose range is checked while none has been reported.
AssumedModel(ams, known) == Or(known, IF IsAmsHtId(ams) THEN "AmsHt" ELSE "Ams2Pro")

\* (Mutant: the range is that of the unit the caller names.)
CheckedRangeMutant(c, known) == Or(DryTempRange(c.unit), <<45, 85>>)
CheckedRange(c, known) == DryTempRange(AssumedModel(c.ams, known))

SendDrying(c, known, supported) ==
  CASE TempOf(c) = None -> "no temperature"
    [] TempOf(c) # None /\ HoursOf(c) = None -> "no duration"
    [] None \notin {TempOf(c), HoursOf(c)} /\ ~supported -> "screen only"
    [] OTHER ->
         IF ~IsValidAmsId(c.ams) THEN "not a unit"
         ELSE IF IsExternalSpoolId(c.ams) THEN "external spool"
         ELSE IF IsAmsLiteOnA2lId(c.ams) THEN "AMS Lite"
         ELSE IF known # None /\ ~SupportsDrying(known) THEN "no chamber"
         ELSE IF TempOf(c) \notin CheckedRange(c, known)[1]..CheckedRange(c, known)[2] THEN "out of range"
         ELSE "sent"

\* What goes out when it is sent; stop_drying sends mode 0 and zeroes.
DryingRequest(c) ==
  [ams |-> WireAmsId(c.ams), mode |-> 1, temp |-> TempOf(c), hours |-> HoursOf(c), cooling |-> CoolingOf(c)]
StopDrying(ams) ==
  IF ~IsValidAmsId(ams) THEN None
  ELSE [ams |-> WireAmsId(ams), mode |-> 0, temp |-> 0, hours |-> 0, cooling |-> 0]

(***************************************************************************)
(* Inputs and properties.                                                   *)
(***************************************************************************)
Dryers == {"Ams2Pro", "AmsHt"}
KnownModels == {None, "Ams", "AmsLite", "Ams2Pro", "AmsHt"}
DryingInputs ==
  [of : {"drying"}, ams : {0, 128}, material : Opt(Materials), unit : Dryers \cup {"Ams"},
   printing : BOOLEAN, temp : {None, 0, 44, 65, 66, 85, 86}, hours : {None, 0, 4}, cooling : {None},
   known : KnownModels, supported : BOOLEAN]
    \cup [of : {"drying"}, ams : {3, 5, 6, 16, 135, 255}, material : {None, "PLA"}, unit : Dryers \cup {"Ams"},
          printing : BOOLEAN, temp : {None, 65}, hours : {None, 4}, cooling : {None},
          known : KnownModels, supported : BOOLEAN]

\* The defaults of every material are accepted by the unit they were taken for,
\* idle or printing, and never heat the filament past its distortion
\* temperature; a material any dryer dries fully is dried alike by both
\* (types/drying.rs:105-282, 346-433).
DefaultsAccepted ==
  Given("drying") /\ input.material # None /\ input.temp = None /\ input.hours = None
    /\ input.unit \in Dryers /\ input.known = input.unit /\ input.supported
    /\ IsBusUnitId(input.ams) /\ ~IsAmsLiteOnA2lId(input.ams) =>
    /\ SendDrying(input, input.known, TRUE) = "sent"
    /\ DryingRequest(input).temp <= Specs[input.material].distortion
    /\ FullyDryableBy(input.material, "Ams2Pro") =>
         TempOf([input EXCEPT !.unit = "AmsHt"]) = TempOf([input EXCEPT !.unit = "Ams2Pro"])

\* Whatever the caller names, a cycle that is sent is one the reported unit can
\* run: it has a chamber, the temperature is in its own range, and the duration
\* is not zero, which the firmware would take for a stop (client/drying.rs:431-489).
SentIsRunnable ==
  Given("drying") /\ SendDrying(input, input.known, input.supported) = "sent" =>
    /\ input.supported /\ IsBusUnitId(input.ams)
    /\ DryingRequest(input).ams \notin {LiteNormalized, LitePhysical}
    /\ DryingRequest(input).hours > 0 /\ DryingRequest(input) # StopDrying(input.ams)
    /\ input.known # None =>
         /\ SupportsDrying(input.known)
         /\ DryingRequest(input).temp \in DryTempRange(input.known)[1]..DryTempRange(input.known)[2]
=============================================================================

---------------------------- MODULE MCAlgorithms ----------------------------
(***************************************************************************)
(* The pure functions of the crate on every input of the chosen topics: a   *)
(* state is one input, and the properties say what the functions make of it.*)
(***************************************************************************)
EXTENDS ListingDates, ClientCommands, PrintOptions, AmsMapping, AmsDrying, DeviceReports,
        ProjectFiles, PrintJobs, SsdpDevices, PlatformIo

CONSTANT Topics   \* the parts of the crate whose inputs are enumerated

\* Listing dates around the leap days, the century and the ends of the supported
\* range, and two whole years; a clock at the turns of years and in every month.
DateDaysDef == (10955..10960) \cup (11010..11020) \cup (11320..11330) \cup (47535..47545) \cup (20000..20800)
ClockDaysDef ==
  {19723 + (31 * k) : k \in 0..12}
    \cup {19722, 19723, 19724, 19782, 19783, 20088, 20089, 20148, 20149, 20150, 20515}

InputsOf(topic) ==
  CASE topic = "dates" -> DateInputs
    [] topic = "quirks" -> QuirkInputs
    [] topic = "gcode" -> GcodeInputs
    [] topic = "commands" -> CommandInputs
    [] topic = "options" -> OptionInputs
    [] topic = "addresses" -> AddressInputs
    [] topic = "ams reports" -> ReportInputs
    [] topic = "mapping" -> MappingInputs
    [] topic = "drying" -> DryingInputs
    [] topic = "device reports" -> DeviceInputs
    [] topic = "projects" -> ProjectInputs
    [] topic = "jobs" -> JobInputs
    [] topic = "ssdp" -> SsdpInputs
    [] topic = "io" -> IoInputs

AlgorithmsInit == \E topic \in Topics : input \in InputsOf(topic)
AlgorithmsNext == UNCHANGED input
AlgorithmsSpec == AlgorithmsInit /\ [][AlgorithmsNext]_input

(***************************************************************************)
(* The properties of the functions, by subject.                             *)
(***************************************************************************)
\* What is put together from partial reports is what the printer last said, in
\* whichever form its firmware says it: AMS trays and removed spools, the device
\* section, heaters, flag words and fan speeds (types/telemetry, ams/parser.rs).
ReportsFaithful ==
  /\ MergedIsLastSaid /\ RemovedSpoolForgotten /\ DeviceIsLastSaid
  /\ HeaterFormsAgree /\ FlagFormsAgree /\ FanSettles

\* A tray is one tray in every numbering: bits, global indices, labels, load
\* commands, the word an extruder reports and both forms of a job's mapping, with
\* the two ids of an A2L's AMS Lite (ams/ids.rs, parser.rs, mapping.rs).
TraysAddressed == TraysDistinct /\ CommandsAddressTrays /\ SafetyFormsAgree /\ LoadedTrayReadsBack

\* Automatic mapping never feeds another material, is stable (no filament and
\* tray would both do better together), and sends what it shows the caller
\* (ams/auto_map.rs, mapping.rs).
MappingSound == MaterialNeverMixed /\ MappingStable /\ MappingAgreesWithMatches

\* A started job fits the printer: the file was sliced for it or for one whose
\* moves fit, the AMS is used exactly when a filament comes from a tray, and each
\* slot of a tool changer goes to the nozzle its carriage has (print.rs,
\* print_job.rs, quirks/mod.rs:471).
JobsFit == PayloadConsistent /\ RackMappingExact /\ StartedFileFits /\ SlicedForFits

\* Verdicts on features agree with the printer's report, with each other and with
\* firmware order, on every model (quirks/mod.rs, context.rs).
SupportConsistent == SupportAgrees /\ ReportOutranksModel /\ FirmwareMonotone

\* No command drives the printer past its limits: the G-code check misses nothing
\* the firmware executes, typed commands pass it too, jogs stay within travel,
\* the flap follows the heater, an unknown printer gets what every model takes,
\* and a drying cycle sent is one its unit can run (quirks/gcode.rs, client/).
CommandsSafe ==
  /\ GcodeScanExact /\ TypedCommandsPassTheCheck /\ MoveWithinTravel /\ FlapFollowsHeater
  /\ UnknownIsFloor /\ DefaultsAccepted /\ SentIsRunnable

\* A setting reads back from its own bits however the firmware spells the word,
\* and from the echo of the command that set it (bits.rs, xcam.rs,
\* print_options.rs).
SettingsReadBack == CfgReadsItsBits /\ XcamReadsItsBits /\ AcceptedSettingReadsBack

\* What is read of the files on the printer is right although little of them is
\* read: years a listing leaves out, and the members, end record and plates of a
\* project of which only a front, a window or a tail was fetched (ftps/).
PrinterFilesRead ==
  /\ CalendarIsRight /\ YearRecovered
  /\ FrontAnswerFinal /\ WindowReadsSource /\ EndRecordFound /\ PlatesRead

\* A printer found on the network is a printer, under the serial on its label and
\* the model it is (discovery/parser.rs, models.rs:253).
DevicesIdentified == SerialIsLabel /\ NamedModelKept /\ OnlyPrintersFound /\ ModelResolved

\* What platform errors mean is never misread: trust on first use is offered only
\* when it is sound, exhausted memory is told from a broken link, an error code
\* is not data, and a deadline loses no bytes (io/mod.rs, esp_idf.rs).
IoVerdictsSound == CaptureOnlySound /\ ExhaustionReported /\ ErrorCodeNeverData /\ ReadBeatsDeadline
=============================================================================

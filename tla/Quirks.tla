-------------------------------- MODULE Quirks --------------------------------
(***************************************************************************)
(* What the crate knows of each printer model (src/models.rs,               *)
(* src/quirks/): the table of models, the limits and features of each, and  *)
(* how a feature's support is decided from what the printer has reported    *)
(* (QuirkContext) before the table is consulted.  Lengths are in tenths of  *)
(* a millimetre, feedrates in mm/min.  A report field is None or the set of *)
(* its bits that are set, a bit being named for the feature it announces; a *)
(* firmware version is None or the sequence of its components.              *)
(***************************************************************************)
EXTENDS Integers, Sequences, FiniteSets, TLC, Options, Inputs

Models == {"X1C", "X1", "X1E", "X2D", "A1Mini", "A1", "A2L", "P1P", "P1S", "P2S",
           "H2D", "H2DPro", "H2C", "H2S"}
AnyModel == Models \cup {"Unknown"}

\* MODELS: serial prefix and the model ids discovery reports, the first of them
\* the one a slicer writes.
ModelSpec ==
  [X1C |-> [prefix |-> "00M", tokens |-> <<"BL-P001", "X1C">>],
   X1E |-> [prefix |-> "03W", tokens |-> <<"C13", "X1E">>],
   X2D |-> [prefix |-> "20P", tokens |-> <<"N6", "X2D">>],
   A1Mini |-> [prefix |-> "030", tokens |-> <<"N1", "A1 Mini", "A1Mini">>],
   A1 |-> [prefix |-> "039", tokens |-> <<"N2S", "A1">>],
   A2L |-> [prefix |-> "26A", tokens |-> <<"N9", "A2L">>],
   P1P |-> [prefix |-> "01S", tokens |-> <<"C11", "P1P">>],
   P1S |-> [prefix |-> "01P", tokens |-> <<"C12", "P1S">>],
   P2S |-> [prefix |-> "22E", tokens |-> <<"N7", "P2S">>],
   H2D |-> [prefix |-> "094", tokens |-> <<"O1D", "H2D">>],
   H2DPro |-> [prefix |-> "239", tokens |-> <<"O1E", "O2D", "H2D Pro", "H2DPro">>],
   H2C |-> [prefix |-> "31B", tokens |-> <<"O1C", "O1C2", "H2C">>],
   H2S |-> [prefix |-> "093", tokens |-> <<"O1S", "H2S">>],
   X1 |-> [prefix |-> "00W", tokens |-> <<"BL-P002", "X1">>]]

TokensOf(m) == {ModelSpec[m].tokens[i] : i \in DOMAIN ModelSpec[m].tokens}

\* from_serial: None when the serial is shorter than a prefix or unknown.
FromSerial(prefix) ==
  IF \E m \in Models : ModelSpec[m].prefix = prefix
  THEN CHOOSE m \in Models : ModelSpec[m].prefix = prefix ELSE None

\* (Mutant: what discovery reports decides first.)
ResolveModelMutant(prefix, token) ==
  IF \E m \in Models : token \in TokensOf(m) THEN CHOOSE m \in Models : token \in TokensOf(m)
  ELSE IF FromSerial(prefix) # None THEN FromSerial(prefix) ELSE "Unknown"
\* resolve_model: the serial decides, then what discovery reported.
ResolveModel(prefix, token) ==
  IF FromSerial(prefix) # None THEN FromSerial(prefix)
  ELSE IF \E m \in Models : token \in TokensOf(m)
  THEN CHOOSE m \in Models : token \in TokensOf(m)
  ELSE "Unknown"

(***************************************************************************)
(* ModelQuirks.                                                             *)
(***************************************************************************)
Cube(side) == [x |-> side, y |-> side, z |-> side]
FlatBed(max) == [v220 |-> max, v110 |-> max]
XYSlow == 30000   \* FEEDRATE_500_MM_S
XYFast == 60000   \* FEEDRATE_1000_MM_S
ZSlow == 1200     \* FEEDRATE_20_MM_S
ZFast == 1800     \* FEEDRATE_30_MM_S

\* SafetyLimits
Limits(volume, nozzle, bed, chamber, bedOnZ, xy, z) ==
  [volume |-> volume, nozzle |-> nozzle, bed |-> bed, chamber |-> chamber,
   bedOnZ |-> bedOnZ, xy |-> xy, z |-> z]

\* DryRule::Firmware
DryFrom(version, inFirstRelease) ==
  [kind |-> "Firmware", min |-> version, first |-> inFirstRelease]
Dry(kind) == [kind |-> kind]

Shared(lite) == [kind |-> "Shared", units |-> 4, lite |-> lite]
Independent(std, ht) == [kind |-> "Independent", std |-> std, ht |-> ht]

\* ModelQuirks::new, the features every model starts from.
NewQuirks(limits, camera, pool, dry) ==
  [limits |-> limits, camera |-> camera, pool |-> pool, dry |-> dry,
   plaintextData |-> FALSE, tls12 |-> FALSE, door |-> "None", chamberSensor |-> FALSE,
   nozzles |-> 1, rack |-> FALSE, heatbedCal |-> FALSE, auxLeft |-> TRUE, auxLeft2 |-> FALSE,
   exhaust |-> FALSE, airduct |-> FALSE, promptSound |-> FALSE, optionsMin |-> None,
   storeSent |-> FALSE, aiMonitoring |-> FALSE, firstLayer |-> FALSE, buzzer |-> FALSE,
   paTrusted |-> TRUE, autoFlow |-> FALSE, slicedFor |-> {}]

\* (Mutant: every 256 mm model's files are taken.)
X1P1SlicedForMutant == {"BL-P001", "BL-P002", "C11", "C12", "C13", "N2S"}
X1P1SlicedFor == {"BL-P001", "BL-P002", "C11", "C12", "C13"}

X1CQuirks ==
  [NewQuirks(Limits(Cube(2560), 300, [v220 |-> 110, v110 |-> 120], None, TRUE, XYSlow, ZSlow),
             "Rtsps", Shared("NotSupported"), Dry("Never"))
   EXCEPT !.door = "HomeFlag", !.chamberSensor = TRUE, !.optionsMin = <<1, 1, 1, 0>>,
          !.storeSent = TRUE, !.aiMonitoring = TRUE, !.firstLayer = TRUE,
          !.slicedFor = X1P1SlicedFor]

X1Quirks == [X1CQuirks EXCEPT !.auxLeft = FALSE]

X1EQuirks ==
  [NewQuirks(Limits(Cube(2560), 320, FlatBed(110), 60, TRUE, XYSlow, ZSlow),
             "Rtsps", Shared("NotSupported"), Dry("Unstated"))
   EXCEPT !.door = "HomeFlag", !.chamberSensor = TRUE, !.aiMonitoring = TRUE,
          !.firstLayer = TRUE, !.slicedFor = X1P1SlicedFor]

X2DQuirks ==
  [NewQuirks(Limits([x |-> 2355, y |-> 2560, z |-> 2560], 300, FlatBed(120), 65, TRUE, XYFast, ZSlow),
             "Rtsps", Independent(4, 8), DryFrom(<<1, 1, 0, 0>>, TRUE))
   EXCEPT !.tls12 = TRUE, !.door = "Stat", !.chamberSensor = TRUE, !.nozzles = 2,
          !.auxLeft2 = TRUE, !.airduct = TRUE, !.exhaust = TRUE, !.storeSent = TRUE,
          !.aiMonitoring = TRUE, !.autoFlow = TRUE, !.slicedFor = {"N6"}]

A1Family(side, bed, slicedFor) ==
  [NewQuirks(Limits(Cube(side), 300, FlatBed(bed), None, FALSE, XYSlow, ZFast),
             "BinaryJpeg", Shared("Exclusive"), Dry("Never"))
   EXCEPT !.plaintextData = TRUE, !.promptSound = TRUE, !.auxLeft = FALSE,
          !.slicedFor = slicedFor]

A2LQuirks ==
  [NewQuirks(Limits([x |-> 3300, y |-> 3200, z |-> 3250], 300, FlatBed(80), None, FALSE, XYSlow, ZFast),
             "BinaryJpeg", Shared("Additive"), Dry("Always"))
   EXCEPT !.promptSound = TRUE, !.auxLeft = FALSE, !.autoFlow = TRUE, !.slicedFor = {"N9"}]

P1SQuirks ==
  [NewQuirks(Limits(Cube(2560), 300, FlatBed(100), None, TRUE, XYSlow, ZSlow),
             "BinaryJpeg", Shared("NotSupported"), Dry("Never"))
   EXCEPT !.paTrusted = FALSE, !.slicedFor = X1P1SlicedFor]

P1PQuirks == [P1SQuirks EXCEPT !.auxLeft = FALSE]

P2SQuirks ==
  [NewQuirks(Limits(Cube(2560), 300, FlatBed(110), None, TRUE, XYFast, ZSlow),
             "Rtsps", Independent(4, 4), DryFrom(<<1, 2, 0, 0>>, FALSE))
   EXCEPT !.tls12 = TRUE, !.door = "Stat", !.chamberSensor = TRUE, !.auxLeft2 = TRUE,
          !.airduct = TRUE, !.storeSent = TRUE, !.aiMonitoring = TRUE, !.autoFlow = TRUE,
          !.slicedFor = {"N7"}]

H2Family(volume, nozzles, rack, minDry, slicedFor) ==
  [NewQuirks(Limits(volume, 350, FlatBed(120), 65, TRUE, XYFast, ZFast),
             "Rtsps", Independent(4, 8), DryFrom(minDry, FALSE))
   EXCEPT !.door = "Stat", !.chamberSensor = TRUE, !.nozzles = nozzles, !.rack = rack,
          !.airduct = TRUE, !.storeSent = TRUE, !.aiMonitoring = TRUE, !.buzzer = TRUE,
          !.exhaust = TRUE, !.autoFlow = TRUE, !.slicedFor = slicedFor]
H2DualVolume == [x |-> 3000, y |-> 3200, z |-> 3250]

\* (Mutant: the fallback has the limits of a full-size printer.)
UnknownQuirksMutant ==
  NewQuirks(Limits(Cube(2560), 300, FlatBed(100), None, TRUE, XYSlow, ZSlow),
            "Rtsps", Shared("NotSupported"), Dry("Unstated"))
UnknownQuirks ==
  NewQuirks(Limits(Cube(1800), 300, FlatBed(80), None, TRUE, XYSlow, ZSlow),
            "Rtsps", Shared("NotSupported"), Dry("Unstated"))

\* PrinterModel::quirks
QuirksOf(m) ==
  CASE m = "X1C" -> X1CQuirks [] m = "X1" -> X1Quirks [] m = "X1E" -> X1EQuirks
    [] m = "X2D" -> X2DQuirks [] m = "A1Mini" -> A1Family(1800, 80, {"N1"})
    [] m = "A1" -> A1Family(2560, 100, {"N2S"}) [] m = "A2L" -> A2LQuirks
    [] m = "P1P" -> P1PQuirks [] m = "P1S" -> P1SQuirks [] m = "P2S" -> P2SQuirks
    [] m = "H2D" -> H2Family(H2DualVolume, 2, FALSE, <<1, 3, 0, 0>>, {"O1D", "O1E"})
    [] m = "H2DPro" -> H2Family(H2DualVolume, 2, FALSE, <<1, 2, 0, 0>>, {"O1E", "O1D"})
    [] m = "H2C" -> H2Family(H2DualVolume, 7, TRUE, <<1, 2, 0, 0>>, {"O1C", "O1C2"})
    [] m = "H2S" -> H2Family([x |-> 3400, y |-> 3200, z |-> 3400], 1, FALSE, <<1, 2, 0, 0>>, {"O1S"})
    [] OTHER -> UnknownQuirks

\* accepts_sliced_for
AcceptsSlicedFor(m, id) == id \in QuirksOf(m).slicedFor

\* bed_temp_max: the lower ceiling while the mains voltage is unknown.
BedTempMax(m, mains220) ==
  LET bed == QuirksOf(m).limits.bed IN
    CASE mains220 = TRUE -> bed.v220 [] mains220 = FALSE -> bed.v110
      [] OTHER -> IF bed.v220 < bed.v110 THEN bed.v220 ELSE bed.v110

RackNozzleIds == 16..21

\* is_valid_nozzle_id
IsValidNozzleId(m, id) ==
  IF QuirksOf(m).rack THEN id = 0 \/ id \in RackNozzleIds ELSE id < QuirksOf(m).nozzles

\* jog_feedrate, max_feedrate
JogFeedrate(axis) == IF axis = "Z" THEN 900 ELSE 3000
MaxFeedrate(m, axis) == IF axis = "Z" THEN QuirksOf(m).limits.z ELSE QuirksOf(m).limits.xy

\* supported_calibration
SupportedCalibration(m) ==
  {"BedLeveling", "Vibration", "MotorNoise"}
    \cup (IF QuirksOf(m).nozzles > 1 THEN {"NozzleHeight"} ELSE {})
    \cup (IF QuirksOf(m).heatbedCal THEN {"HeatbedThermal"} ELSE {})

(***************************************************************************)
(* Support, decided by what the printer reported, else by the model.        *)
(***************************************************************************)
\* QuirkContext::empty: nothing reported yet; its with_* builders set a field.
EmptyContext ==
  [fun |-> None, fun2 |-> None, home |-> None, firmware |-> None, xcamCfg |-> FALSE, flow |-> None,
   cali |-> None, lights |-> {}, lightsComplete |-> FALSE]

Reported(v) == [by |-> "Reported", is |-> v]
Inferred(v) == [by |-> "Inferred", is |-> v]
Assumed(v) == [by |-> "Assumed", is |-> v]

\* firmware_at_least, over versions of up to four components; one that is not
\* a number compares as too old.
Component(v, i) == IF i \in DOMAIN v THEN v[i] ELSE 0
\* (Mutant: every component must be as new, not the first that differs.)
FirmwareAtLeastMutant(have, need) ==
  \A i \in 1..4 : Component(have, i) # None /\ Component(have, i) >= Component(need, i)
FirmwareAtLeast(have, need) ==
  LET same(i) == \A j \in 1..(i - 1) : Component(have, j) = Component(need, j)
      differ == {i \in 1..4 : Component(have, i) # Component(need, i) /\ same(i)}
      bad == {i \in 1..4 : Component(have, i) = None /\ same(i)}
  IN IF bad # {} THEN FALSE
     ELSE \A i \in differ : Component(have, i) > Component(need, i)

\* firmware_gate
FirmwareGate(ctx, min, unknown) ==
  IF ctx.firmware = None THEN unknown ELSE Inferred(FirmwareAtLeast(ctx.firmware, min))

\* SupportBits::resolve: `fun`, then `fun2`, then `home_flag`, then the model.
ResolveBits(ctx, bit, fields, model) ==
  CASE "fun" \in fields /\ ctx.fun # None -> Reported(bit \in ctx.fun)
    [] "fun2" \in fields /\ ctx.fun2 # None -> Reported(bit \in ctx.fun2)
    [] "home" \in fields /\ ctx.home # None -> Reported(bit \in ctx.home)
    [] OTHER -> model

\* The report fields that announce a feature, for the features whose support is
\* a bit of them.
FeatureFields ==
  [promptSound |-> {"fun", "home"}, tangleDetect |-> {"fun", "home"},
   nozzleBlob |-> {"fun", "home"}, smartNozzleBlob |-> {"fun2"}, airPrint |-> {"home"},
   airPurification |-> {"fun2"}, doorOpenCheck |-> {"fun"}, idleHeating |-> {"fun"}]

\* prompt_sound_support .. idle_heating_protection_support
\* (Mutant: a model known to have the feature needs no report.)
FeatureSupportMutant(m, feature, ctx) ==
  IF feature = "promptSound" /\ QuirksOf(m).promptSound THEN Inferred(TRUE)
  ELSE ResolveBits(ctx, feature, FeatureFields[feature], Assumed(FALSE))
FeatureSupport(m, feature, ctx) ==
  ResolveBits(ctx, feature, FeatureFields[feature],
    CASE feature = "promptSound" -> Inferred(QuirksOf(m).promptSound)
      [] feature = "doorOpenCheck" -> Inferred(QuirksOf(m).door # "None")
      [] OTHER -> Assumed(FALSE))

\* file_tunnel_support
FileTunnelSupport(m, ctx) ==
  ResolveBits(ctx, "brtc", {"fun"},
    IF QuirksOf(m).camera = "BinaryJpeg" THEN Inferred(FALSE) ELSE Assumed(TRUE))

\* print_options_rule: auto_recovery_support, filament_backup_support
PrintOptionsRule(m, ctx) ==
  IF QuirksOf(m).optionsMin = None THEN Inferred(TRUE)
  ELSE FirmwareGate(ctx, QuirksOf(m).optionsMin, Assumed(TRUE))

\* xcam_module_support
XcamModules == {"PrintingMonitor", "BuildplateMarker", "FirstLayer", "Spaghetti", "Pileup", "Clump",
                "Airprint", "PlateOffset", "FodCheck", "Movement"}
XcamModuleSupport(m, module, ctx) ==
  CASE module = "PrintingMonitor" /\ ctx.xcamCfg -> Reported(TRUE)
    [] module \in {"PrintingMonitor", "BuildplateMarker"} ->
         IF QuirksOf(m).aiMonitoring THEN PrintOptionsRule(m, ctx) ELSE Inferred(FALSE)
    [] module = "FirstLayer" -> Inferred(QuirksOf(m).firstLayer)
    [] module \in {"Spaghetti", "Pileup", "Clump", "Airprint"} ->
         ResolveBits(ctx, module, {"fun"}, Assumed(FALSE))
    [] OTHER -> ResolveBits(ctx, module, {"fun2"}, Assumed(FALSE))

\* pa_calibration_support
PaCalibrationSupport(m, ctx) ==
  IF ctx.flow # None THEN Reported(ctx.flow)
  ELSE IF ~QuirksOf(m).paTrusted THEN Inferred(FALSE)
  ELSE ResolveBits(ctx, "paCalibration", {"fun", "home"}, Assumed(FALSE))

\* pa_calibration_auto_support
\* (Mutant: the model's auto calibration alone decides.)
PaCalibrationAutoSupportMutant(m, ctx) == Inferred(QuirksOf(m).autoFlow)
PaCalibrationAutoSupport(m, ctx) ==
  IF PaCalibrationSupport(m, ctx).is THEN Inferred(QuirksOf(m).autoFlow)
  ELSE PaCalibrationSupport(m, ctx)

\* pa_mode_support
PaModeSupport(ctx) == ResolveBits(ctx, "paMode", {"fun2"}, Assumed(FALSE))

\* light_support
LightSupport(node, ctx) ==
  IF node \in ctx.lights THEN Reported(TRUE)
  ELSE IF ctx.lightsComplete THEN Reported(FALSE) ELSE Assumed(TRUE)

\* k_profile_selection_support
KProfileSelectionSupport(ctx) ==
  IF ctx.cali = None THEN Assumed(FALSE) ELSE Reported(ctx.cali > -1)

\* DryRule::remote and DryRule::while_printing
FirstReleaseOr(first, default) == IF first THEN Inferred(TRUE) ELSE Assumed(default)

RuleVerdict(rule, ctx, unstated) ==
  CASE rule.kind = "Unstated" -> Assumed(unstated)
    [] rule.kind = "Never" -> Inferred(FALSE)
    [] rule.kind = "Always" -> Inferred(TRUE)
    [] rule.kind = "Firmware" -> FirmwareGate(ctx, rule.min, FirstReleaseOr(rule.first, unstated))

RemoteDryingSupport(m, ctx) ==
  ResolveBits(ctx, "remoteDry", {"fun2"}, RuleVerdict(QuirksOf(m).dry, ctx, TRUE))

\* (Mutant: a printer that reports no remote drying may still dry while printing.)
DryingWhilePrintingSupportMutant(m, ctx) == RuleVerdict(QuirksOf(m).dry, ctx, FALSE)
DryingWhilePrintingSupport(m, ctx) ==
  IF ctx.fun2 # None /\ "remoteDry" \notin ctx.fun2 THEN Reported(FALSE)
  ELSE RuleVerdict(QuirksOf(m).dry, ctx, FALSE)

\* Capabilities: the verdicts a caller reads, all from one context.
Capabilities(m, ctx) ==
  [f \in DOMAIN FeatureFields |-> FeatureSupport(m, f, ctx)]
    @@ [f \in {"autoRecovery", "filamentBackup"} |-> PrintOptionsRule(m, ctx)]
    @@ [x \in XcamModules |-> XcamModuleSupport(m, x, ctx)]
    @@ [fileTunnel |-> FileTunnelSupport(m, ctx), paCalibration |-> PaCalibrationSupport(m, ctx),
        paAuto |-> PaCalibrationAutoSupport(m, ctx), paMode |-> PaModeSupport(ctx),
        remoteDrying |-> RemoteDryingSupport(m, ctx),
        dryingWhilePrinting |-> DryingWhilePrintingSupport(m, ctx),
        kProfileSelection |-> KProfileSelectionSupport(ctx)]

(***************************************************************************)
(* Inputs and properties.                                                   *)
(***************************************************************************)
Versions == {None, <<1, 1, 0, 0>>, <<1, 2>>, <<1, 1, 9, 9>>, <<1, 3, 0, 0>>, <<1, 10, 0, 0>>,
             <<1, None>>, <<2, 0, 0, 0>>}
QuirkInputs ==
  [of : {"support"}, model : AnyModel, fun : {None, {}, {"paCalibration", "promptSound", "brtc"}},
   fun2 : {None, {}, {"remoteDry"}}, home : {None, {}, {"paCalibration"}}, firmware : Versions,
   flow : {None, TRUE, FALSE}]
    \cup [of : {"sliced"}, model : AnyModel, slicedFor : Models]
    \cup [of : {"resolve"}, serial : Models \cup {None}, reported : AnyModel]
InputContext ==
  [EmptyContext EXCEPT !.fun = input.fun, !.fun2 = input.fun2, !.home = input.home,
                       !.firmware = input.firmware, !.flow = input.flow]

\* The verdicts on related features agree, whichever mix of report fields,
\* firmware and model rule each was decided from: a printer said to dry while it
\* prints is said to dry on command, and one said to calibrate pressure advance
\* by itself is said to calibrate it (quirks/mod.rs:993-1158).
SupportAgrees ==
  Given("support") =>
    LET m == input.model
        ctx == InputContext
    IN /\ DryingWhilePrintingSupport(m, ctx).is => RemoteDryingSupport(m, ctx).is
       /\ PaCalibrationAutoSupport(m, ctx).is => PaCalibrationSupport(m, ctx).is

WordFeatures ==
  DOMAIN FeatureFields
    \cup {"fileTunnel", "paMode", "Spaghetti", "Pileup", "Clump", "Airprint", "FodCheck", "PlateOffset", "Movement"}

\* Once the printer has reported its feature words, the verdict on a feature
\* they announce is the printer's on every model, known or not: a table entry
\* that is wrong for a new firmware cannot overrule it (quirks/mod.rs:46-64, 741-960).
\* The one bit a model overrules is pressure advance calibration, where the P1
\* quirks distrust it (quirks/models/p1.rs:33, quirks/mod.rs:978-990).
ReportOutranksModel ==
  Given("support") /\ None \notin {input.fun, input.fun2, input.home} =>
    LET known == Capabilities(input.model, InputContext)
        unknown == Capabilities("Unknown", InputContext)
    IN /\ \A f \in WordFeatures : known[f] = unknown[f]
       /\ QuirksOf(input.model).paTrusted => known.paCalibration = unknown.paCalibration

Newer(v, w) ==   \* v is w or newer, both made of numbers
  LET n(x) == ((Component(x, 1) * 100 + Component(x, 2)) * 100 + Component(x, 3)) * 100 + Component(x, 4)
  IN n(v) >= n(w)

\* A newer firmware never loses remote drying: support by version is monotone,
\* components compared as numbers and missing ones as zero (context.rs:186-219).
FirmwareMonotone ==
  Given("support") /\ input.fun2 = None /\ input.firmware \notin {None, <<1, None>>} =>
    \A v \in Versions \ {None, <<1, None>>} :
      Newer(v, input.firmware) /\ RemoteDryingSupport(input.model, InputContext).is
        => RemoteDryingSupport(input.model, [InputContext EXCEPT !.firmware = v]).is

\* A file sliced for another model is accepted only where its moves fit: the
\* bed moves on the same axis, the head count is the same, and the volume it was
\* sliced for is no larger; a model takes the files sliced for it, and an
\* unidentified printer takes none (quirks/mod.rs:452-475).
SlicedForFits ==
  Given("sliced") =>
    LET m == QuirksOf(input.model)
        o == QuirksOf(input.slicedFor)
        accepted == AcceptsSlicedFor(input.model, ModelSpec[input.slicedFor].tokens[1])
    IN /\ input.model = input.slicedFor => accepted
       /\ input.model = "Unknown" => ~accepted
       /\ accepted => /\ o.limits.bedOnZ = m.limits.bedOnZ /\ o.nozzles = m.nozzles
                      /\ \A d \in {"x", "y", "z"} : o.limits.volume[d] <= m.limits.volume[d]

\* A known serial decides the model against whatever discovery reports, and an
\* unknown one leaves it to the reported id, which names one model at most
\* (models.rs:253-284).
ModelResolved ==
  Given("resolve") =>
    LET prefix == IF input.serial = None THEN "ZZZ" ELSE ModelSpec[input.serial].prefix
        tokens == IF input.reported = "Unknown" THEN {"V9"} ELSE TokensOf(input.reported)
    IN \A t \in tokens :
         ResolveModel(prefix, t) = IF input.serial = None THEN input.reported ELSE input.serial
=============================================================================

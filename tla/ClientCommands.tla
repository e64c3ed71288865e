--------------------------- MODULE ClientCommands ---------------------------
(***************************************************************************)
(* The typed motion, heating and hardware methods of the client             *)
(* (src/client/motion.rs, thermal.rs, hardware.rs).  Each decides from the  *)
(* model's quirks whether to refuse, and what it publishes otherwise: lines *)
(* of G-code, which go out through send_gcode_raw and so past the check of  *)
(* send_gcode, or a command of its own.  A method's outcome is the sequence *)
(* of what it published, or Refused.                                        *)
(***************************************************************************)
EXTENDS GCode

Refused == <<[form |-> "refused"]>>
GcodeLines(lines) == [form |-> "gcode", lines |-> lines]
Airduct(mode) == [form |-> "airduct", mode |-> mode]
Device(name) == [form |-> name]

\* clamp_temp
\* (Mutant: a target above the ceiling goes out as it was asked for.)
ClampTempMutant(value, max) == value
ClampTemp(value, max) == IF value > max THEN max ELSE value

\* set_bed_temperature, set_nozzle_temperature, set_chamber_temperature
SetBedTemperature(m, mains220, target) ==
  <<GcodeLines(<<<<Word("M", 140), Word("S", ClampTemp(target, BedTempMax(m, mains220)))>>>>)>>

SetNozzleTemperature(m, nozzle, target) ==
  IF ~IsValidNozzleId(m, nozzle) THEN Refused
  ELSE <<GcodeLines(<<<<Word("M", 104), Word("T", nozzle),
                        Word("S", ClampTemp(target, QuirksOf(m).limits.nozzle))>>>>)>>

SetChamberTemperature(m, target) ==
  IF QuirksOf(m).limits.chamber = None THEN Refused
  ELSE <<GcodeLines(<<<<Word("M", 141), Word("S", ClampTemp(target, QuirksOf(m).limits.chamber))>>>>)>>

\* set_airduct_mode, set_buzzer_mode, set_led
SetAirductMode(m, mode) == IF QuirksOf(m).airduct THEN <<Airduct(mode)>> ELSE Refused
SetBuzzerMode(m) == IF QuirksOf(m).buzzer THEN <<Device("buzzer")>> ELSE Refused
SetLed(node, ctx) == IF LightSupport(node, ctx).is THEN <<Device("ledctrl")>> ELSE Refused

(***************************************************************************)
(* preheat_chamber.  fails: the second publish fails, after the first went  *)
(* out.                                                                     *)
(***************************************************************************)
\* (Mutant: the flap is moved on every model that has one.)
MovesFlapMutant(m, target) == QuirksOf(m).airduct
MovesFlap(m, target) == QuirksOf(m).airduct /\ (QuirksOf(m).limits.chamber # None \/ target = 0)
PreheatChamber(m, target, fails) ==
  LET flap == IF MovesFlap(m, target)
              THEN SetAirductMode(m, IF target > 0 THEN "Heating" ELSE "Cooling") ELSE <<>>
      done == flap # <<>> /\ QuirksOf(m).limits.chamber = None
  IN IF done \/ fails THEN flap ELSE flap \o SetChamberTemperature(m, target)

\* FanTarget: is_supported_by, write_port
WritePort == [PartCooling |-> 1, AuxiliaryLeft |-> 2, ChamberExhaust |-> 3, AuxiliaryLeft2 |-> 10]
FanSupported(m, fan) ==
  CASE fan = "PartCooling" -> TRUE
    [] fan = "AuxiliaryLeft" -> QuirksOf(m).auxLeft
    [] fan = "ChamberExhaust" -> QuirksOf(m).exhaust
    [] fan = "AuxiliaryLeft2" -> QuirksOf(m).auxLeft2

\* set_fan_speed
SetFanSpeed(m, fan, percent) ==
  IF ~FanSupported(m, fan) THEN Refused
  ELSE <<GcodeLines(<<<<Word("M", 106), Word("P", WritePort[fan]),
                        Word("S", ((IF percent > 100 THEN 100 ELSE percent) * 255) \div 100)>>>>)>>

\* home_all, home_z_only
HomeAll == <<GcodeLines(<<<<Word("G", 28)>>>>)>>
\* (Mutant: Z alone is homed on every model.)
HomeZOnlyMutant(m) == <<GcodeLines(<<<<Word("G", 28), Word("Z", None)>>>>)>>
HomeZOnly(m) ==
  IF QuirksOf(m).limits.bedOnZ THEN Refused ELSE <<GcodeLines(<<<<Word("G", 28), Word("Z", None)>>>>)>>

\* relative_move_gcode and format_move_gcode, distances in tenths of a millimetre
Travel(m, axis) ==
  CASE axis = "X" -> QuirksOf(m).limits.volume.x [] axis = "Y" -> QuirksOf(m).limits.volume.y
    [] OTHER -> QuirksOf(m).limits.volume.z
MoveLines(axis, distance, feedrate) ==
  LET move == <<Word("G", 0), Word(axis, distance), Word("F", feedrate)>>
      refMode == <<Word("M", 1002), Word("P", None), Word("M", None)>>   \* push_ref_mode
      soft == <<Word("M", 211), Word("S", None)>>
      on == <<Word("M", 211), Word("X", 1), Word("Y", 1), Word("Z", 1)>>
      restore == <<Word("M", 211), Word("R", None)>>
      relative == <<<<Word("G", 91)>>, move, <<Word("G", 90)>>>>
  IN IF axis = "Z" THEN <<soft, on, refMode>> \o relative \o <<refMode, restore>> ELSE relative

\* move_relative: nothing is sent for no distance.
\* (Mutant: the caller's feedrate is not held to the model's maximum.)
FeedrateForMutant(m, axis, feedrate) ==
  IF feedrate = None THEN JogFeedrate(axis) ELSE IF feedrate = 0 THEN None ELSE feedrate
FeedrateFor(m, axis, feedrate) ==
  IF feedrate = None THEN JogFeedrate(axis)
  ELSE IF feedrate = 0 \/ feedrate > MaxFeedrate(m, axis) THEN None
  ELSE feedrate
Abs(n) == IF n < 0 THEN -n ELSE n
MoveRelative(m, axis, distance, feedrate) ==
  IF distance = 0 THEN <<>>
  ELSE IF FeedrateFor(m, axis, feedrate) = None \/ Abs(distance) > Travel(m, axis) THEN Refused
  ELSE <<GcodeLines(MoveLines(axis, distance, FeedrateFor(m, axis, feedrate)))>>

\* extrude
Extrude(length, feedrate) ==
  <<GcodeLines(<<<<Word("M", 83)>>, <<Word("G", 0), Word("E", length), Word("F", feedrate)>>>>)>>

\* start_calibration: the routines of the request that the model runs.
StartCalibration(m, options) ==
  IF options \cap SupportedCalibration(m) = {} THEN Refused
  ELSE <<[form |-> "calibration", options |-> options \cap SupportedCalibration(m)]>>

(***************************************************************************)
(* Inputs and properties.                                                   *)
(***************************************************************************)
HeatTargets == {0, 60, 80, 81, 110, 111, 350, 351}
CommandInputs ==
  [of : {"heat"}, model : AnyModel, mains : {TRUE, FALSE, None}, target : HeatTargets,
   nozzle : {0, 1, 2, 16, 22}, fails : BOOLEAN]
    \cup [of : {"move"}, model : AnyModel, axis : {"X", "Y", "Z"},
          distance : {-3401, -2561, -1800, 0, 1800, 3400}, feedrate : {None, 0, 1200, 1201, 30001, 60001}]
    \cup [of : {"fan"}, model : AnyModel, fan : DOMAIN WritePort, percent : {0, 1, 99, 100, 255}]
    \cup [of : {"calibrate"}, model : AnyModel,
          options : SUBSET {"BedLeveling", "Vibration", "MotorNoise", "NozzleHeight", "HeatbedThermal"}]

Published(outcome) == outcome # Refused
Gcodes(outcome) == {i \in DOMAIN outcome : outcome[i].form = "gcode"}

Outcomes ==
  CASE input.of = "heat" ->
         {SetBedTemperature(input.model, input.mains, input.target),
          SetNozzleTemperature(input.model, input.nozzle, input.target),
          SetChamberTemperature(input.model, input.target),
          PreheatChamber(input.model, input.target, input.fails),
          HomeAll, HomeZOnly(input.model), Extrude(input.target, 300)}
    [] input.of = "move" -> {MoveRelative(input.model, input.axis, input.distance, input.feedrate)}
    [] input.of = "fan" -> {SetFanSpeed(input.model, input.fan, input.percent)}
    [] OTHER -> {}

\* What the typed methods publish past the G-code check would have passed it: no
\* heater target above the model's (and mains voltage's) ceiling, no chamber
\* command without a heater, no homing of single axes on a bed-on-Z printer
\* (send_gcode_raw, motion.rs:124; clamp_temp, client/mod.rs:114).
TypedCommandsPassTheCheck ==
  \A o \in Outcomes :
    Published(o) => \A i \in Gcodes(o) :
      ValidateGcode(input.model, IF input.of = "heat" THEN input.mains ELSE None, o[i].lines)

\* A jog stays within the model's travel and feedrate on its axis, whatever the
\* caller asks for, and always moves relative to where the head is, with the
\* absolute mode restored after it (motion.rs:181-225, quirks/mod.rs:1238-1253).
MoveWithinTravel ==
  Given("move") => \A o \in Outcomes : Published(o) => \A i \in DOMAIN o :
    \E k \in 2..(Len(o[i].lines) - 1) :
      /\ o[i].lines[k - 1] = <<Word("G", 91)>>
      /\ o[i].lines[k + 1] = <<Word("G", 90)>>
      /\ o[i].lines[k][2].letter = input.axis
      /\ Abs(o[i].lines[k][2].value) \in 1..Travel(input.model, input.axis)
      /\ o[i].lines[k][3].value \in 1..MaxFeedrate(input.model, input.axis)

\* preheat_chamber never leaves the flap heating without a heater to heat: a
\* Heating flap goes out only on a model whose chamber heater then gets a target
\* above zero, unless the second publish fails; and a target of zero always
\* turns a flap the model has back to cooling (thermal.rs:138-147).
FlapFollowsHeater ==
  Given("heat") =>
    LET o == PreheatChamber(input.model, input.target, input.fails)
        heating == \E i \in DOMAIN o : o[i] = Airduct("Heating")
    IN /\ heating => /\ QuirksOf(input.model).limits.chamber # None
                     /\ input.fails \/ o[2].lines[1][2].value > 0
       /\ input.target = 0 /\ QuirksOf(input.model).airduct => \E i \in DOMAIN o : o[i] = Airduct("Cooling")

\* An unidentified printer is driven within the limits of every model it could
\* be: a target or a jog the fallback lets through passes every model's check
\* too, and it is sent no calibration routine that some model lacks, which that
\* model would acknowledge and not run (models/unknown.rs, print.rs:305-385).
UnknownIsFloor ==
  /\ Given("heat") => \A o \in {SetBedTemperature("Unknown", None, input.target),
                                 SetNozzleTemperature("Unknown", 0, input.target)} :
       \A i \in DOMAIN o : ValidateGcode(input.model, input.mains, o[i].lines)
  /\ Given("move") /\ Published(MoveRelative("Unknown", input.axis, input.distance, input.feedrate)) =>
       Published(MoveRelative(input.model, input.axis, input.distance, input.feedrate))
  /\ Given("calibrate") /\ Published(StartCalibration("Unknown", input.options)) =>
       /\ Published(StartCalibration(input.model, input.options))
       /\ StartCalibration("Unknown", input.options)[1].options
            \subseteq StartCalibration(input.model, input.options)[1].options
=============================================================================

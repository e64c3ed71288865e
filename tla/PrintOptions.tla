---------------------------- MODULE PrintOptions ----------------------------
(***************************************************************************)
(* The printer's settings: the setters and readers of                       *)
(* src/client/print_options.rs, the bit fields they are reported in         *)
(* (src/types/telemetry/bits.rs, xcam.rs) and the hexadecimal strings those *)
(* arrive as.  A hexadecimal string is the sequence of its digits, with     *)
(* None for a character that is not one; a boolean setting has the codes 0  *)
(* and 1, a mode its code.                                                  *)
(***************************************************************************)
EXTENDS Quirks

(***************************************************************************)
(* hex_bit, hex_field.                                                      *)
(***************************************************************************)
Digits(hex) == SelectSeq(hex, LAMBDA d : d # None)
\* (Mutant: a character that is no digit counts as one.)
NibbleFromRightMutant(hex, n) ==
  IF n < Len(hex) /\ hex[Len(hex) - n] # None THEN hex[Len(hex) - n] ELSE 0
NibbleFromRight(hex, n) == IF n < Len(Digits(hex)) THEN Digits(hex)[Len(Digits(hex)) - n] ELSE 0
HexBit(hex, bit) ==
  IF Digits(hex) = <<>> THEN None
  ELSE (NibbleFromRight(hex, bit \div 4) \div (2 ^ (bit % 4))) % 2

HexField(hex, low, width) ==
  IF HexBit(hex, low) = None THEN None
  ELSE IF width = 1 THEN HexBit(hex, low) ELSE HexBit(hex, low) + 2 * HexBit(hex, low + 1)

(***************************************************************************)
(* Where a report keeps each setting: SettingBits and the CFG_* constants.  *)
(***************************************************************************)
Bits(low, width) == [low |-> low, width |-> width]
CfgBits ==
  [promptSound |-> Bits(22, 1), autoRecovery |-> Bits(16, 1), filamentBackup |-> Bits(18, 1),
   tangleDetect |-> Bits(23, 1), nozzleBlob |-> Bits(24, 1), storeSent |-> Bits(19, 1),
   doorOpenCheck |-> Bits(20, 2), idleHeating |-> Bits(32, 2), airPurification |-> Bits(36, 2),
   smartNozzleBlob |-> Bits(43, 2), firstLayer |-> Bits(12, 1), aiMonitoring |-> Bits(15, 1),
   aiSensitivity |-> Bits(13, 2)]
HomeFlagBit ==
  [promptSound |-> 17, autoRecovery |-> 4, filamentBackup |-> 10, tangleDetect |-> 20,
   nozzleBlob |-> 24, airPrint |-> 28]

\* xcam.cfg: a detector's switch and, above it, its two sensitivity bits.
XcamBits ==
  [Spaghetti |-> 7, Pileup |-> 10, Clump |-> 13, Airprint |-> 16, PlateOffset |-> 20,
   FodCheck |-> 21, ModelMovement |-> 22]
XcamSensitive == {"Spaghetti", "Pileup", "Clump", "Airprint"}
\* XcamSensitivity::from_bits: low, medium and high; 3 is unassigned.
SensitivityFromBits(bits) == IF bits \in 0..2 THEN bits ELSE None
\* (Mutant: the sensitivity is read from the switch's own bit on.)
XcamDetectorMutant(cfg, module) ==
  [enabled |-> (cfg \div (2 ^ XcamBits[module])) % 2,
   sensitivity |-> IF module \in XcamSensitive
                   THEN SensitivityFromBits((cfg \div (2 ^ XcamBits[module])) % 4) ELSE None]
XcamDetector(cfg, module) ==
  [enabled |-> (cfg \div (2 ^ XcamBits[module])) % 2,
   sensitivity |-> IF module \in XcamSensitive
                   THEN SensitivityFromBits((cfg \div (2 ^ (XcamBits[module] + 1))) % 4) ELSE None]

(***************************************************************************)
(* The setters: refuse_unless the capability is there.                      *)
(***************************************************************************)
ReplySettings == {"promptSound", "autoRecovery", "filamentBackup", "tangleDetect", "nozzleBlob",
                  "smartNozzleBlob", "airPrint", "airPurification"}
SettingSupport(m, setting, ctx) ==
  CASE setting \in {"autoRecovery", "filamentBackup"} -> PrintOptionsRule(m, ctx)
    [] setting = "storeSent" -> Inferred(QuirksOf(m).storeSent)
    [] OTHER -> FeatureSupport(m, setting, ctx)

\* set_prompt_sound .. set_store_sent_files: the field and code that go out.
SetSetting(m, setting, code, ctx) ==
  IF SettingSupport(m, setting, ctx).is THEN [field |-> setting, code |-> code] ELSE None

\* set_xcam_detector
SetXcamDetector(m, module, enable, sensitivity, ctx) ==
  IF sensitivity # None /\ module \notin XcamSensitive \cup {"PrintingMonitor"} THEN None
  ELSE IF XcamModuleSupport(m, module, ctx).is
  THEN [module |-> module, enable |-> enable, sensitivity |-> sensitivity] ELSE None

(***************************************************************************)
(* apply_print_option_reply: what an accepted print_option's echo says.     *)
(* `fields` maps the fields it carries to their codes; auto-recovery may    *)
(* come as a bit of `option` instead.                                       *)
(***************************************************************************)
Modes == {"smartNozzleBlob", "airPurification", "doorOpenCheck", "idleHeating"}
FromCode(setting, code) ==
  IF code = None \/ (setting \in Modes /\ code \notin 0..2) THEN None ELSE code
ReplyField(fields, setting) ==
  IF setting = "autoRecovery" THEN Or(fields.autoRecovery, fields.option) ELSE fields[setting]
\* (Mutant: a field the echo omits forgets the value known before.)
MergeReplyMutant(new, old) == new
MergeReply(new, old) == Or(new, old)
ApplyPrintOptionReply(m, ctx, settings, fields) ==
  [s \in ReplySettings |->
     LET code == FromCode(s, ReplyField(fields, s))
         kept == IF SettingSupport(m, s, ctx).is THEN code ELSE None
     IN MergeReply(kept, settings[s])]

\* prompt_sound_enabled .. air_purification_mode: a reply outranks the report,
\* `cfg` the home flag (SettingBits::read).  (First-layer inspection, which `xcam`
\* carries too, is read here from `cfg` only.)
SettingValue(setting, settings, cfg, homeFlag) ==
  LET reported ==
        CASE setting \in DOMAIN CfgBits /\ cfg # None ->
               FromCode(setting, HexField(cfg, CfgBits[setting].low, CfgBits[setting].width))
          [] setting \in DOMAIN HomeFlagBit /\ homeFlag # None ->
               (homeFlag \div (2 ^ HomeFlagBit[setting])) % 2
          [] OTHER -> None
  IN IF setting \in ReplySettings THEN Or(settings[setting], reported) ELSE reported

(***************************************************************************)
(* Inputs and properties.                                                   *)
(***************************************************************************)
Codes(setting) == 0..(2 ^ CfgBits[setting].width - 1)
Shapes == {"plain", "prefixed", "grouped"}   \* how the string spells the digits
BitAt(bit, a, v, b, w) ==
  LET of(s, code) == IF bit \in CfgBits[s].low..(CfgBits[s].low + CfgBits[s].width - 1)
                     THEN (code \div (2 ^ (bit - CfgBits[s].low))) % 2 ELSE 0
  IN IF of(a, v) = 1 \/ of(b, w) = 1 THEN 1 ELSE 0
CfgDigits(a, v, b, w, shape) ==
  LET nibble(n) == BitAt(4*n, a, v, b, w) + 2 * BitAt(4*n + 1, a, v, b, w)
                     + 4 * BitAt(4*n + 2, a, v, b, w) + 8 * BitAt(4*n + 3, a, v, b, w)
      digits == [i \in 1..12 |-> nibble(12 - i)]
  IN CASE shape = "plain" -> digits
       [] shape = "prefixed" -> <<0, None>> \o digits   \* 0x
       [] shape = "grouped" -> SubSeq(digits, 1, 4) \o <<None>> \o SubSeq(digits, 5, 12)

OptionInputs ==
  UNION {[of : {"cfg"}, a : {a}, v : Codes(a), b : DOMAIN CfgBits \ {a}, shape : Shapes] : a \in DOMAIN CfgBits}
    \cup [of : {"xcam"}, module : DOMAIN XcamBits, other : DOMAIN XcamBits, code : 0..3, otherCode : 0..3]
    \cup {r \in [of : {"reply"}, model : AnyModel, setting : ReplySettings, code : 0..2,
                 had : {None, 0}, fun : {None, {}, {"promptSound", "nozzleBlob"}},
                 fun2 : {None, {}, {"smartNozzleBlob", "airPurification"}}, home : {None, {"airPrint"}},
                 firmware : {None, <<1, 1>>, <<1, 0, 9>>}, asOption : BOOLEAN] :
            /\ r.setting \in Modes \/ r.code <= 1
            /\ r.asOption => r.setting = "autoRecovery"}

\* Every setting is read back from its own bits of `cfg`, whatever the fields
\* around it hold and however the firmware spells the hexadecimal number: no
\* two fields overlap, and a separator or a prefix shifts nothing; a mode's
\* unassigned code 3 is read as none (bits.rs:130-317, control.rs:144-275).
CfgReadsItsBits ==
  Given("cfg") =>
    \A w \in Codes(input.b) :
      LET cfg == CfgDigits(input.a, input.v, input.b, w, input.shape)
          read(s) == SettingValue(s, [r \in ReplySettings |-> None], cfg, None)
          meant(s, code) == IF s \in Modes /\ code = 3 THEN None ELSE code
      IN read(input.a) = meant(input.a, input.v) /\ read(input.b) = meant(input.b, w)

\* A detector's switch and sensitivity in `xcam.cfg` are its own, beside any
\* other detector's; the unassigned sensitivity 3 is read as none (xcam.rs:77,
\* 197-211).
XcamReadsItsBits ==
  Given("xcam") /\ input.module # input.other =>
    LET bits(module, code) ==
          IF module \in XcamSensitive THEN 2 ^ XcamBits[module] + code * 2 ^ (XcamBits[module] + 1)
          ELSE (code % 2) * 2 ^ XcamBits[module]
        d == XcamDetector(bits(input.module, input.code) + bits(input.other, input.otherCode), input.module)
    IN IF input.module \in XcamSensitive
       THEN d = [enabled |-> 1, sensitivity |-> IF input.code = 3 THEN None ELSE input.code]
       ELSE d.enabled = input.code % 2

\* A setting the client let through is what it reads back once the printer
\* echoes it as accepted, and one it refuses is never learnt from an echo: the
\* setter, the echo and the reader agree on what the printer has, and an echo
\* leaves every other setting as it was known (print_options.rs:94-439, 526-571).
AcceptedSettingReadsBack ==
  Given("reply") =>
    LET settings == [s \in ReplySettings |-> input.had]
        sent == SetSetting(input.model, input.setting, input.code, input)
        byOption == input.setting = "autoRecovery" /\ input.asOption
        fields == [f \in ReplySettings \cup {"option"} |->
                     IF f = (IF byOption THEN "option" ELSE input.setting) THEN input.code ELSE None]
        after == ApplyPrintOptionReply(input.model, input, settings, fields)
        value == SettingValue(input.setting, after, None, None)
    IN /\ sent # None => value = input.code
       /\ sent = None => value = input.had
       /\ \A s \in ReplySettings \ {input.setting} : after[s] = input.had
=============================================================================

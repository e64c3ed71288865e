--------------------------------- MODULE GCode ---------------------------------
(***************************************************************************)
(* The check a caller's G-code passes before it is published                *)
(* (src/quirks/gcode.rs, ModelQuirks::validate_gcode).  A line is the       *)
(* sequence of its items: words, and the marks that begin and end comments. *)
(* A word has a letter (upper case), a value (None when no number follows)  *)
(* and whether the number is a plain decimal one.                           *)
(***************************************************************************)
EXTENDS Integers, Sequences, SequencesExt, Quirks

Word(letter, value) == [item |-> "word", letter |-> letter, value |-> value, plain |-> value # None]
Garbled(letter) == [item |-> "word", letter |-> letter, value |-> 0, plain |-> FALSE]
Mark(m) == [item |-> m, letter |-> m, value |-> None, plain |-> FALSE]
Semi == Mark("semi")
Open == Mark("open")
Close == Mark("close")

(***************************************************************************)
(* executable: the words of a line outside its comments.  "(" opens a       *)
(* comment that the next ")" closes or the line's end; ";" outside one ends *)
(* the line.                                                                *)
(***************************************************************************)
\* (Mutant: the comment that a ")" closes ends the line.)
ExecutableStepMutant(s, it) ==
  CASE s.mode = "code" /\ it.item = "word" -> [s EXCEPT !.words = Append(@, it)]
    [] s.mode = "code" /\ it.item \in {"semi", "open"} -> [s EXCEPT !.mode = "rest"]
    [] OTHER -> s
ExecutableStep(s, it) ==
  CASE s.mode = "code" /\ it.item = "word" -> [s EXCEPT !.words = Append(@, it)]
    [] s.mode = "code" /\ it.item = "semi" -> [s EXCEPT !.mode = "rest"]
    [] s.mode = "code" /\ it.item = "open" -> [s EXCEPT !.mode = "comment"]
    [] s.mode = "comment" /\ it.item = "close" -> [s EXCEPT !.mode = "code"]
    [] OTHER -> s
Executable(line) == FoldLeft(ExecutableStep, [mode |-> "code", words |-> <<>>], line).words

(***************************************************************************)
(* scan_statement.  temps is the TempLimits record: nozzle, bed, chamber    *)
(* (None without an active heater).                                         *)
(***************************************************************************)
CommandLetters == {"G", "M"}
NozzleCommands == {104, 109}
BedCommands == {140, 190}
ChamberCommands == {141, 191}

\* The ceiling a word's value is held to, None when it is not a temperature.
CeilingOf(command, letter, temps) ==
  IF command = None \/ command.letter # "M" THEN None
  ELSE CASE command.value \in NozzleCommands /\ letter \in {"S", "R", "B"} -> temps.nozzle
         [] command.value \in BedCommands /\ letter \in {"S", "R"} -> temps.bed
         [] command.value \in ChamberCommands /\ letter \in {"S", "R"} -> temps.chamber
         [] OTHER -> None

\* check_temp
Exceeds(w, max) == ~w.plain \/ w.value > max

Numbered(w) == [letter |-> w.letter, value |-> w.value]

\* A letter with no number is no command of its own; the command before it
\* stays in force.
\* (Mutant: it ends the command before it.)
NumberlessMutant(s) == [s EXCEPT !.first = FALSE, !.command = None]
Numberless(s) == [s EXCEPT !.first = FALSE]

ScanStep(bedOnZ, temps, s, w) ==
  CASE s.verdict # "open" -> s
    [] w.letter \in CommandLetters /\ w.value = None -> Numberless(s)
    [] w.letter \in CommandLetters ->
         LET c == IF w.plain THEN Numbered(w) ELSE None IN
           [s EXCEPT !.first = FALSE, !.command = c,
                     !.g28 = @ \/ c = [letter |-> "G", value |-> 28],
                     !.verdict = IF s.first /\ c = [letter |-> "M", value |-> 117] THEN "ok"
                                 ELSE IF c # None /\ c.letter = "M" /\ c.value \in ChamberCommands
                                         /\ temps.chamber = None
                                 THEN "ModelMismatch" ELSE "open"]
    [] bedOnZ /\ s.g28 /\ w.letter \in {"X", "Y", "Z"} -> [s EXCEPT !.verdict = "ModelMismatch"]
    [] OTHER ->
         LET max == CeilingOf(s.command, w.letter, temps) IN
           IF max # None /\ Exceeds(w, max)
           THEN [s EXCEPT !.verdict = IF w.plain THEN "ModelMismatch" ELSE "InvalidArgument"] ELSE s
ScanStatement(words, bedOnZ, temps) ==
  LET step(s, w) == ScanStep(bedOnZ, temps, s, w)
      start == [command |-> None, first |-> TRUE, g28 |-> FALSE, verdict |-> "open"]
  IN FoldLeft(step, start, words).verdict

\* validate: every line is scanned; None is the Ok of the code.
RefusedLine(line, bedOnZ, temps) ==
  ScanStatement(Executable(line), bedOnZ, temps) \in {"ModelMismatch", "InvalidArgument"}
ValidGcode(lines, bedOnZ, temps) == \A i \in DOMAIN lines : ~RefusedLine(lines[i], bedOnZ, temps)

\* ModelQuirks::validate_gcode
TempLimits(m, mains220) ==
  [nozzle |-> QuirksOf(m).limits.nozzle, bed |-> BedTempMax(m, mains220),
   chamber |-> QuirksOf(m).limits.chamber]
ValidateGcode(m, mains220, lines) ==
  ValidGcode(lines, QuirksOf(m).limits.bedOnZ, TempLimits(m, mains220))

(***************************************************************************)
(* Inputs and property.  The lines hold an unsafe command or not, in every  *)
(* order with comments, a display message and number-less letters.          *)
(***************************************************************************)
LineItems ==
  {Word("G", 28), Word("Z", None), Word("M", 104), Word("M", 141), Word("M", 117),
   Word("M", None), Word("S", 300), Word("S", 301), Garbled("B"), Semi, Open, Close}
GcodeInputs ==
  [of : {"gcode"}, line : UNION {[1..n -> LineItems] : n \in 1..4}, bedOnZ : {TRUE}, chamber : {300}]
    \cup [of : {"gcode"}, line : UNION {[1..n -> LineItems] : n \in 1..3}, bedOnZ : {TRUE}, chamber : {None}]

\* What a line commands, said without scanning it: the word in position i of the
\* executed words is a target above its heater's ceiling, a chamber command no
\* heater takes, or an axis of a homing.
InForce(words, i) ==
  LET before == {j \in 1..(i - 1) : words[j].letter \in CommandLetters /\ words[j].value # None}
  IN IF before = {} THEN None
     ELSE LET last == CHOOSE j \in before : \A k \in before : k <= j
          IN IF words[last].plain THEN Numbered(words[last]) ELSE None
Unsafe(words, i, temps) ==
  \/ words[i].plain /\ words[i].letter = "M" /\ words[i].value \in ChamberCommands /\ temps.chamber = None
  \/ /\ words[i].letter \in {"X", "Y", "Z"}
     /\ \E j \in 1..(i - 1) : words[j] = Word("G", 28)
  \/ /\ words[i].letter \notin CommandLetters
     /\ CeilingOf(InForce(words, i), words[i].letter, temps) # None
     /\ Exceeds(words[i], CeilingOf(InForce(words, i), words[i].letter, temps))
DisplaysMessage(words) ==
  \E i \in DOMAIN words :
    /\ words[i] = Word("M", 117)
    /\ \A j \in 1..(i - 1) : words[j].letter \notin CommandLetters

\* Parts of a line that are executed: not behind ";" and not between "(" and ")".
Commented(line, i) ==
  \E j \in 1..(i - 1) :
    \/ line[j].item = "semi" /\ ~(\E k \in 1..(j - 1) : line[k].item = "open" /\ \A l \in (k + 1)..j : line[l].item # "close")
    \/ line[j].item = "open" /\ \A l \in (j + 1)..(i - 1) : line[l].item # "close"
ExecutedWords(line) ==
  LET keep == {i \in DOMAIN line : line[i].item = "word" /\ ~Commented(line, i)}
  IN [n \in 1..Cardinality(keep) |->
        line[CHOOSE i \in keep : Cardinality({j \in keep : j <= i}) = n]]

\* A line is refused exactly when it carries an unsafe word that the firmware
\* would execute: no comment, number-less letter, second command on the line or
\* garbled number hides one, and no line of safe words, nor one that only
\* displays a message, is refused (gcode.rs:43-178).
GcodeScanExact ==
  Given("gcode") =>
    LET words == ExecutedWords(input.line)
        temps == [nozzle |-> 300, bed |-> 110, chamber |-> input.chamber]
        shown == DisplaysMessage(words)
    IN RefusedLine(input.line, input.bedOnZ, temps)
         <=> ~shown /\ \E i \in DOMAIN words : Unsafe(words, i, temps)
=============================================================================

----------------------------- MODULE AmsReports -----------------------------
(***************************************************************************)
(* The AMS part of the telemetry (src/types/telemetry/ams.rs, merge.rs):    *)
(* how a partial report is merged into the cached one, what the packed      *)
(* `info` word of a unit says, when a tray counts as loaded, and            *)
(* clean_stale_tray_data (src/ams/parser.rs).  A list keyed by `id` is a    *)
(* function of the id; `info` is None or the record of the word's fields;   *)
(* three of a tray's optional fields stand for all of them.                 *)
(***************************************************************************)
EXTENDS AmsAddresses, SequencesExt

TrayEmpty == 9       \* AMS_TRAY_STATE_EMPTY
TrayPowerOff == 0    \* AMS_TRAY_STATE_POWER_OFF
TrayNotFed == 10     \* AMS_TRAY_STATE_SPOOL_NOT_FED
Blank(type) == type \in {"", "Empty"}

\* merge_opt / keep_new on each field: what the frame omits keeps its value.
MergeFields(cached, new) == [f \in DOMAIN cached |-> Or(new[f], cached[f])]

\* merge_keyed; `merged` has the entries that both lists have, merged.
InBoth(cached, new) == DOMAIN cached \cap DOMAIN new
MergeKeyed(cached, new, merged) == merged @@ (new @@ cached)

\* AmsUnit::merge_from, the trays: a frame that lists trays lists all there are.
\* (Mutant: trays the frame no longer lists are kept.)
MergeTraysMutant(cached, new) ==
  MergeKeyed(cached, new, [s \in InBoth(cached, new) |-> MergeFields(cached[s], new[s])])
MergeTrays(cached, new) ==
  [s \in DOMAIN new |->
     IF s \in DOMAIN cached THEN MergeFields(cached[s], new[s]) ELSE new[s]]

NoTrays == [s \in {} |-> None]
\* merge_opt; `merged` is what the two make when both are there.
MergeOptional(cached, new, merged) == IF None \in {cached, new} THEN Or(new, cached) ELSE merged
MergeUnit(cached, new) ==
  [info |-> Or(new.info, cached.info),
   drying |-> MergeOptional(cached.drying, new.drying, MergeFields(cached.drying, new.drying)),
   trays |-> IF new.trays = None THEN cached.trays
             ELSE MergeTrays(Or(cached.trays, NoTrays), new.trays)]

\* AmsStatusReport::merge_from: a frame without units says nothing of them.
MergeReport(cached, new) ==
  MergeKeyed(cached, new, [u \in InBoth(cached, new) |-> MergeUnit(cached[u], new[u])])

(***************************************************************************)
(* A unit's `info` word: AmsUnit's accessors.                               *)
(***************************************************************************)
ExtruderUninitialized == 14
UnitModels == <<"ExternalSpool", "Ams", "AmsLite", "Ams2Pro", "AmsHt", "AmsLiteMixed">>

InfoField(unit, f) == IF unit.info = None THEN None ELSE unit.info[f]
UnitModel(unit) ==
  LET t == InfoField(unit, "type") IN
    IF t = None \/ t + 1 \notin DOMAIN UnitModels THEN None ELSE UnitModels[t + 1]
HasUnfixedExtruder(unit) == InfoField(unit, "extruder") = ExtruderUninitialized
ExtruderAssignment(unit) == IF HasUnfixedExtruder(unit) THEN None ELSE InfoField(unit, "extruder")
\* filament_switch_inlet: 0 is B, 1 is A; anything else is no inlet.
FilamentSwitchInlet(unit) ==
  LET i == InfoField(unit, "inlet") IN IF i \in {0, 1} THEN i ELSE None

\* drying_column: the unit's column of the drying table, if it has a chamber.
DryingColumn(model) == CASE model = "Ams2Pro" -> 0 [] model = "AmsHt" -> 1 [] OTHER -> None
SupportsDrying(model) == DryingColumn(model) # None
DryTempRange(model) ==
  CASE model = "Ams2Pro" -> <<45, 65>> [] model = "AmsHt" -> <<45, 85>> [] OTHER -> None

(***************************************************************************)
(* A tray.                                                                  *)
(***************************************************************************)
Material(tray) == IF tray.type = None \/ Blank(tray.type) THEN None ELSE tray.type

IsLoaded(tray, ams) ==
  LET metadata == (tray.idx # None /\ tray.idx # "") \/ Material(tray) # None
      absent == \/ tray.state = TrayPowerOff
                \/ tray.state = None /\ ~metadata
                \/ ~IsAmsHtId(ams) /\ tray.state \in {TrayNotFed, TrayEmpty}
  IN ~absent /\ ~(tray.type # None /\ Blank(tray.type))

\* clean_stale_tray_data
NoTray == [state |-> None, type |-> None, idx |-> None]
\* (Mutant: the cleared fields are listed by hand, and one is missed.)
CleanStaleTrayDataMutant(tray, ams) ==
  IF IsLoaded(tray, ams) THEN tray
  ELSE [NoTray EXCEPT !.state = Or(tray.state, TrayEmpty), !.type = tray.type]
CleanStaleTrayData(tray, ams) ==
  IF IsLoaded(tray, ams) THEN tray
  ELSE [NoTray EXCEPT !.state = Or(tray.state, TrayEmpty)]

(***************************************************************************)
(* Inputs and properties: what three frames leave in the cache.             *)
(***************************************************************************)
Unit(info, drying, trays) == [info |-> info, drying |-> drying, trays |-> trays]
Saying(state, type, idx) == [state |-> state, type |-> type, idx |-> idx]
SomeTrays == {Saying(11, "PLA", "A"), Saying(11, None, None), Saying(None, "PETG", None)}
SomeInfo == [type |-> 3, extruder |-> 0, inlet |-> 15]
UnitFrames ==   \* None: the frame does not mention the unit
  {None, Unit(SomeInfo, None, None), Unit(None, [temp |-> 55, filament |-> None], None),
   Unit(None, [temp |-> None, filament |-> "PLA"], None)}
    \cup {Unit(None, None, t) : t \in UNION {[S -> SomeTrays] : S \in SUBSET {0, 1}}}
TrayFrames == {Saying(st, ty, None) : st \in {None, 0, 9, 10, 11}, ty \in {None, "", "PLA"}}
ReportInputs ==
  [of : {"report"}, frames : [1..3 -> UnitFrames]]
    \cup [of : {"tray"}, ams : {0, 128}, frames : [1..3 -> TrayFrames]]

AsReport(frame) == IF frame = None THEN [u \in {} |-> None] ELSE [u \in {0} |-> frame]
CachedReport == FoldLeft(LAMBDA r, f : MergeReport(r, AsReport(f)), AsReport(None), input.frames)

\* The last value a field had, given the value each frame has for it.
LastOf(value) ==
  LET said == {i \in DOMAIN value : value[i] # None}
  IN IF said = {} THEN None ELSE value[CHOOSE i \in said : \A j \in said : j <= i]

\* The merged report says of every field what the printer said last: a frame
\* that omits a field, a tray list or the unit leaves them, a frame that lists
\* trays ends every tray it does not list, and a tray that comes back starts
\* from nothing (types/telemetry/ams.rs:311-359).
MergedIsLastSaid ==
  Given("report") =>
    LET f == input.frames
        mentions == {i \in 1..3 : f[i] # None}
        listings == {i \in mentions : f[i].trays # None}
        last == CHOOSE i \in listings : \A j \in listings : j <= i
        present == IF listings = {} THEN {} ELSE DOMAIN f[last].trays
        \* the listings since the tray last came into the list
        since(s) == {i \in listings : \A j \in listings : j >= i => s \in DOMAIN f[j].trays}
    IN IF mentions = {} THEN CachedReport = AsReport(None)
       ELSE LET unit == CachedReport[0] IN
         /\ unit.info = LastOf([i \in mentions |-> f[i].info])
         /\ \A x \in {"temp", "filament"} :
              LET said == LastOf([i \in mentions |-> IF f[i].drying = None THEN None ELSE f[i].drying[x]])
              IN said = IF unit.drying = None THEN None ELSE unit.drying[x]
         /\ (unit.trays = None) = (listings = {})
         /\ unit.trays # None =>
              /\ DOMAIN unit.trays = present
              /\ \A s \in present, x \in DOMAIN NoTray :
                   unit.trays[s][x] = LastOf([i \in since(s) |-> f[i].trays[s][x]])

\* A spool that was taken out is not reported again: once a frame leaves a tray
\* not loaded and the caller cleans it, the tray has a material only when a
\* later frame names one (ams/parser.rs:113-133).
RemovedSpoolForgotten ==
  Given("tray") =>
    LET after(t, f) == CleanStaleTrayData(MergeFields(t, f), input.ams)
        t1 == after(NoTray, input.frames[1])
        t2 == after(t1, input.frames[2])
        t3 == after(t2, input.frames[3])
        removed == ~IsLoaded(MergeFields(t1, input.frames[2]), input.ams)
    IN removed /\ Material(t3) # None => input.frames[3].type = Material(t3)
=============================================================================

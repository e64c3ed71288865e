----------------------------- MODULE AmsMapping -----------------------------
(***************************************************************************)
(* Which tray feeds which filament of a job: derive_ams_mapping             *)
(* (src/ams/auto_map.rs) over the cached AMS report, and the mapping built  *)
(* from it with its pool check (src/ams/mapping.rs).  A colour is a number  *)
(* and the distance of two colours their difference: the Lab metric is only *)
(* used through its order and its range 0..1000.                            *)
(***************************************************************************)
EXTENDS AmsReports

MaxProjectFilaments == 32

\* color_distance
ColorDistance(a, b) == IF a < b THEN b - a ELSE a - b

\* Wanted::from_file: [id, type, color, fid, side]; side is what filament_map
\* says: 1 the deputy extruder, 2 the main one, None when it has no entry.
ExtruderOf(side) == CASE side = 1 -> 1 [] side = 2 -> 0 [] OTHER -> None

(***************************************************************************)
(* The candidate trays.                                                     *)
(***************************************************************************)
\* tray_filament_type: the names a support material has in a tray.
TrayFilamentType(type, idx) ==
  CASE type \in {"Sup.PLA", "Support W"} -> "PLA-S"
    [] type \in {"Sup.PA", "Support G"} -> "PA-S"
    [] type = "Sup.ABS" -> "ABS-S"
    [] type = "Support" -> IF idx = "GFS01" THEN "PA-S" ELSE "PLA-S"
    [] OTHER -> type

Candidate(order, source, tray) ==
  [order |-> order, source |-> source, type |-> TrayFilamentType(Material(tray), Or(tray.idx, "")),
   color |-> tray.color, fid |-> Or(tray.idx, ""), remain |-> Or(tray.remain, -1)]

BusSource(a, s) ==
  IF IsStandardId(a) THEN [kind |-> "StandardAms", ams |-> a, slot |-> s]
  ELSE IF IsAmsHtId(a) THEN [kind |-> "AmsHt", ams |-> a, slot |-> 0]
  ELSE [kind |-> "AmsLite", ams |-> a, slot |-> s]
BusOrder(a, s) ==
  IF IsStandardId(a) THEN a * SlotsPerUnit + s ELSE IF IsAmsHtId(a) THEN a ELSE 24 + s

\* bus_candidates on the accepted units, as a set; the trays are taken in the
\* order of their `order`.
BusCandidates(report, accepted) ==
  {Candidate(BusOrder(u[1], u[2]), BusSource(u[1], u[2]), report[u[1]].trays[u[2]]) :
     u \in {v \in accepted \X (0..SlotsPerUnit) :
              /\ IsBusUnitId(v[1])
              /\ report[v[1]].trays # None /\ v[2] \in DOMAIN report[v[1]].trays
              /\ IsUnitSlot(v[1], v[2])
              /\ IsLoaded(report[v[1]].trays[v[2]], v[1])
              /\ Material(report[v[1]].trays[v[2]]) # None}}

Computed(seq) == <<>> \o seq   \* the same sequence; TLC then computes it once
InOrder(candidates) == Computed(
  [i \in 1..Cardinality(candidates) |->
     CHOOSE c \in candidates : Cardinality({d \in candidates : d.order < c.order}) = i - 1])

SingleNozzleCandidates(report) == InOrder(BusCandidates(report, DOMAIN report))

\* unit_extruders
UnitExtruders(unit) ==
  IF HasUnfixedExtruder(unit)
  THEN IF FilamentSwitchInlet(unit) # None THEN {0, 1} ELSE {}
  ELSE {Or(ExtruderAssignment(unit), 0)}

\* extruder_candidates; `spools` is a function of the external spools' ids.
ExtruderCandidates(report, spools, extruder) ==
  LET reaching == {a \in DOMAIN report : extruder \in UnitExtruders(report[a])}
      id == IF extruder = 1 THEN ExternalDeputy ELSE ExternalMain
      kind == IF extruder = 1 THEN "ExternalSpoolLeft" ELSE "ExternalSpoolRight"
      outside == IF reaching # {} \/ id \notin DOMAIN spools
                    \/ Material(spools[id]) = None
                 THEN {} ELSE {Candidate(id, [kind |-> kind, ams |-> id, slot |-> 0], spools[id])}
  IN InOrder(BusCandidates(report, reaching) \cup outside)

(***************************************************************************)
(* Matching.  A pick is [tray, distance]; None is unmatched.                *)
(***************************************************************************)
SameClass(fid, trayFid) == fid # "" /\ fid = trayFid

\* pair_distance; a file gives no setting_id, so the sub class never applies.
\* (Mutant: another material is only farther away.)
PairDistanceMutant(w, t) ==
  ColorDistance(w.color, t.color)
    + (IF w.type # t.type THEN 30000 ELSE IF SameClass(w.fid, t.fid) THEN 10000 ELSE 20000)
PairDistance(w, t) ==
  IF w.type # t.type THEN None
  ELSE ColorDistance(w.color, t.color) + (IF SameClass(w.fid, t.fid) THEN 10000 ELSE 20000)

\* prefer_by_remain
PreferByRemain(w, t, picked) ==
  SameClass(w.fid, t.fid) /\ t.remain > 0 /\ (picked.remain <= 0 \/ t.remain < picked.remain)

\* A pick is a pair of places, and None is none.
ASSUME NoneIsNoPair == None \notin Nat \X Nat
\* best_pair: over the pairs in row order, keeping the first of equals.
\* (Mutant: any pair of the type will do.)
BetterPairMutant(wanted, trays, p, best) == best = None
BetterPair(wanted, trays, p, best) ==
  \/ best = None
  \/ /\ best # None
     /\ LET d == PairDistance(wanted[p[1]], trays[p[2]])
            bd == PairDistance(wanted[best[1]], trays[best[2]])
        IN \/ d < bd
           \/ /\ d = bd
              /\ \/ /\ ~SameClass(wanted[best[1]].fid, trays[best[2]].fid)
                    /\ SameClass(wanted[p[1]].fid, trays[p[2]].fid)
                 \/ PreferByRemain(wanted[p[1]], trays[p[2]], trays[best[2]])

\* (Mutant: a tray in use is taken as readily as a free one.)
FreeTrayMutant(result, j, allowUsed) == TRUE
FreeTray(result, j, allowUsed) == allowUsed \/ \A i \in DOMAIN result : result[i] # j
BestPair(wanted, trays, result, allowUsed) ==
  LET cols == Len(trays)
      pair(k) == <<((k - 1) \div cols) + 1, ((k - 1) % cols) + 1>>
      open(p) == /\ result[p[1]] = None /\ FreeTray(result, p[2], allowUsed)
                 /\ PairDistance(wanted[p[1]], trays[p[2]]) # None
      among[k \in 0..(Len(wanted) * cols)] ==   \* the best of the first k pairs
        IF k = 0 THEN None
        ELSE LET best == among[k - 1]
                 p == pair(k)
             IN IF open(p) /\ BetterPair(wanted, trays, p, best) THEN p ELSE best
  IN among[Len(wanted) * cols]

\* match_group: one round per filament; a used tray only when no other is left.
MatchRound(wanted, trays, result) ==
  LET pick == Or(BestPair(wanted, trays, result, FALSE), BestPair(wanted, trays, result, TRUE))
  IN IF pick = None THEN result ELSE [result EXCEPT ![pick[1]] = pick[2]]
MatchGroup(wanted, trays) ==
  LET after[k \in 0..Len(wanted)] ==
        IF k = 0 THEN [i \in DOMAIN wanted |-> None] ELSE MatchRound(wanted, trays, after[k - 1])
  IN after[Len(wanted)]

(***************************************************************************)
(* derive_ams_mapping: the source of each wanted filament, or None.         *)
(***************************************************************************)
ValidId(w) == w.id \in 1..MaxProjectFilaments

CandidatesOf(in, w) ==
  IF ~ValidId(w) THEN <<>>
  ELSE IF ~in.dual THEN SingleNozzleCandidates(in.report)
  ELSE IF ExtruderOf(w.side) = None THEN <<>>
  ELSE ExtruderCandidates(in.report, in.spools, ExtruderOf(w.side))

\* The filaments matched together: all of them, or those of one extruder.
GroupOf(in, w) ==
  SelectSeq(in.wanted, LAMBDA v : ValidId(v) /\ (~in.dual \/ ExtruderOf(v.side) = ExtruderOf(w.side)))

DeriveSources(in) == Computed(
  [i \in DOMAIN in.wanted |->
     LET w == in.wanted[i]
         group == GroupOf(in, w)
         trays == CandidatesOf(in, w)
         place == {k \in DOMAIN group : group[k] = w}
     IN IF trays = <<>> \/ place = {} THEN None
        ELSE LET pick == MatchGroup(group, trays)[CHOOSE k \in place : TRUE]
             IN IF pick = None THEN None ELSE trays[pick].source])

\* build_by_filament: up to the highest id, capped; a later allocation wins.
\* (Mutant: the entry of filament n is at index n.)
BuildMapping2Mutant(allocations) ==
  LET ids == {allocations[i].id : i \in DOMAIN allocations}
      at(n) == {i \in DOMAIN allocations : allocations[i].id + 1 = n}
  IN [n \in 1..Cardinality(ids) |->
        IF at(n) = {} THEN UnmappedEntry ELSE ToMapping2Entry(allocations[CHOOSE i \in at(n) : TRUE].source)]
BuildMapping2(allocations) ==
  LET ids == {allocations[i].id : i \in DOMAIN allocations}
      top == CHOOSE n \in ids : \A m \in ids : m <= n
      size == IF ids = {} THEN 0 ELSE IF top > MaxProjectFilaments THEN MaxProjectFilaments ELSE top
      at(n) == {i \in DOMAIN allocations : allocations[i].id = n}
  IN [n \in 1..size |->
        IF at(n) = {} THEN UnmappedEntry
        ELSE ToMapping2Entry(allocations[CHOOSE i \in at(n) : \A j \in at(n) : j <= i].source)]

DeriveAmsMapping(in) ==
  LET sources == DeriveSources(in)
      allocation(i) == [id |-> in.wanted[i].id, source |-> Or(sources[i], [kind |-> "Unmapped"])]
  IN BuildMapping2([k \in DOMAIN SelectSeq(in.wanted, ValidId) |->
       allocation(CHOOSE i \in DOMAIN in.wanted :
                    /\ ValidId(in.wanted[i])
                    /\ Cardinality({j \in 1..i : ValidId(in.wanted[j])}) = k)])

\* is_ams_pool_composition_valid
PoolCompositionValid(mapping2, pool) ==
  LET of(kind) == {mapping2[i].ams : i \in {j \in DOMAIN mapping2 : ClassifyEntry(mapping2[j]) = kind}}
      standard == Cardinality(of("Standard"))
      ht == Cardinality(of("Ht"))
  IN /\ of("Invalid") = {}
     /\ IF pool.kind = "Shared"
        THEN (of("AmsLite") = {} \/ pool.lite = "Additive") /\ standard + ht <= pool.units
        ELSE of("AmsLite") = {} /\ standard <= pool.std /\ ht <= pool.ht

(***************************************************************************)
(* Inputs and properties.  Three filaments, the last of id 40 in some       *)
(* inputs; a unit 0 with two trays, an AMS HT with one, external spools.    *)
(***************************************************************************)
Wanted(id, side, type, color, fid) ==
  [id |-> id, side |-> side, type |-> type, color |-> color, fid |-> fid]
Spool(type, color, fid, remain) ==
  [state |-> 11, type |-> type, idx |-> fid, color |-> color, remain |-> remain]
WantedKinds == {<<"PLA", 0, "A">>, <<"PLA", 1, "">>, <<"PLA", 3, "A">>, <<"PLA-S", 0, "">>}
Spools == {Spool("PLA", 0, "A", 50), Spool("PLA", 0, "A", 10), Spool("PLA", 2, "A", None),
           Spool("PLA", 0, None, None), Spool("Support W", 0, None, None), Spool("", 0, None, None)}
Reach(extruder, inlet) == [type |-> 1, extruder |-> extruder, inlet |-> inlet]
MappingInputs ==
  {[of |-> "mapping", dual |-> d.dual,
    wanted |-> <<Wanted(1, 1, k[1][1], k[1][2], k[1][3]), Wanted(2, 2, k[2][1], k[2][2], k[2][3]),
                 Wanted(d.third, 2, k[3][1], k[3][2], k[3][3])>>,
    report |-> [a \in {0, 128} |->
                  IF a = 0 THEN Unit(d.info, None, [s \in {0, 1} |-> t[s + 1]])
                  ELSE Unit(Reach(0, 15), None, [s \in {0} |-> t[3]])],
    spools |-> [id \in {254, 255} |-> Spool("PLA", 2, "A", None)]] :
     k \in WantedKinds \X WantedKinds \X {<<"PLA", 0, "A">>, <<"PLA", 1, "">>},
     t \in Spools \X Spools \X {Spool("PLA", 2, "A", None), Spool("Support W", 0, None, None)},
     d \in {[dual |-> FALSE, third |-> 3, info |-> None],
            [dual |-> TRUE, third |-> 3, info |-> Reach(14, 0)],
            [dual |-> TRUE, third |-> 40, info |-> Reach(14, 15)]}}

\* No filament is fed another material, whatever the tray calls it, and one is
\* left unmatched only when no tray its extruder can reach holds its material
\* or its id is out of range (auto_map.rs:510-560).
MaterialNeverMixed ==
  Given("mapping") =>
    LET sources == DeriveSources(input) IN
      \A i \in DOMAIN input.wanted :
        LET trays == CandidatesOf(input, input.wanted[i])
            fits == {trays[j].source : j \in {k \in DOMAIN trays : trays[k].type = input.wanted[i].type}}
        IN IF fits = {} THEN sources[i] = None ELSE sources[i] \in fits

\* A filament is refused a tray closer to it only for another filament at least
\* as close to that tray, and two filaments share a tray only when every tray of
\* the material is in use by the filaments of that extruder (auto_map.rs:542-602).
MappingStable ==
  Given("mapping") =>
    LET sources == DeriveSources(input) IN
      \A i \in DOMAIN input.wanted :
        LET w == input.wanted[i]
            trays == CandidatesOf(input, w)
            mates == {j \in DOMAIN input.wanted : ~input.dual \/ input.wanted[j].side = w.side} \ {i}
            mine == {t \in DOMAIN trays : trays[t].source = sources[i]}
            takers(t) == {j \in mates : sources[j] = trays[t].source}
        IN \A t \in mine, o \in DOMAIN trays :
             PairDistance(w, trays[o]) # None =>
               /\ PairDistance(w, trays[o]) < PairDistance(w, trays[t]) =>
                    \E j \in takers(o) :
                      PairDistance(input.wanted[j], trays[o]) <= PairDistance(w, trays[o])
               /\ takers(t) # {} => (o = t \/ takers(o) # {})

\* The mapping sent with the job agrees with the match the caller was shown:
\* entry n - 1 is the source of filament n, unmatched ids are unmapped, an id past
\* the cap adds no entry, and every printer whose pool holds the units accepts
\* it (auto_map.rs:215-236, mapping.rs:291-316, 433-473).
MappingAgreesWithMatches ==
  Given("mapping") =>
    LET sources == DeriveSources(input)
        mapping2 == DeriveAmsMapping(input)
    IN /\ Len(mapping2) <= MaxProjectFilaments
       /\ PoolCompositionValid(mapping2, QuirksOf("X1C").pool)
       /\ PoolCompositionValid(mapping2, QuirksOf("H2D").pool)
       /\ \A i \in DOMAIN input.wanted :
            LET n == input.wanted[i].id IN
              IF n \notin DOMAIN mapping2 THEN sources[i] = None
              ELSE mapping2[n] = (IF sources[i] = None THEN UnmappedEntry ELSE ToMapping2Entry(sources[i]))
=============================================================================

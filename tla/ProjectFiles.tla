---------------------------- MODULE ProjectFiles ----------------------------
(***************************************************************************)
(* Reading a sliced .3mf (src/ftps/project.rs, ftps/project/slice_info.rs): *)
(* from its front, as much of it as has arrived; from its end, through a    *)
(* window over a source; and the plates its slice_info.config lists.        *)
(*                                                                         *)
(* An archive is a sequence of entries [name, method, desc, size, ok,       *)
(* encrypted] laid out in units: two for a local header, the first of them  *)
(* its signature, one for a data descriptor, one for a signature of the     *)
(* central directory.  `ok` says that the data agrees with its CRC-32 and   *)
(* descriptor; a deflated entry's descriptor is taken to be found where it  *)
(* is.                                                                      *)
(***************************************************************************)
EXTENDS Integers, Sequences, FiniteSets, FiniteSetsExt, Options, Inputs

NeedMore == [tag |-> "NeedMore"]
Violation == [tag |-> "violation"]
Done(v) == [tag |-> "Done", value |-> v]

HeaderUnits == 2
DescriptorUnits(e) == IF e.desc THEN 1 ELSE 0
EntryUnits(e) == HeaderUnits + e.size + DescriptorUnits(e)
StartOf(archive, i) == MapThenSumSet(LAMBDA j : EntryUnits(archive[j]), 1..(i - 1))
DirectoryAt(archive) == StartOf(archive, Len(archive) + 1)

\* LocalHeader::find_end (with find_stored_png_end and find_deflate_end), of n
\* units read: the end of the entry, or why there is none yet.
\* (Mutant: the data is taken as far as it has arrived.)
FindEndMutant(archive, i, n) == Done(StartOf(archive, i + 1))
FindEnd(archive, i, n) ==
  LET e == archive[i]
      end == StartOf(archive, i + 1)
      needed == IF e.desc /\ e.method = "deflate" THEN end + 1 ELSE end
  IN IF needed > n THEN NeedMore
     ELSE IF e.method = "stored" /\ ~e.ok THEN Violation
     ELSE Done(end)

IsMetadata(e) == e.name \notin {"types", "model"}

\* walk_front: the entries `names` names, each by its place in the archive and
\* how much of its data was there.
FrontFound(archive, n, names, i) ==
  LET first == {k \in 1..(i - 1) : archive[k].name \in names
                                     /\ \A l \in 1..(k - 1) : archive[l].name # archive[k].name}
  IN {[name |-> archive[k].name, at |-> k,
       units |-> Min({n, StartOf(archive, k + 1)}) - StartOf(archive, k)] : k \in first}

FrontStep(archive, n, names, i) ==   \* at entry i: None is to go on to the next
  LET found == FrontFound(archive, n, names, i)
      sectionEnd == IF \E j \in 1..(i - 1) : IsMetadata(archive[j]) THEN Done(found) ELSE Violation
  IN IF Cardinality(found) = Cardinality(names) THEN Done(found)
     ELSE IF StartOf(archive, i) + 1 > n THEN NeedMore
     ELSE IF i = Len(archive) + 1 THEN sectionEnd
     ELSE IF StartOf(archive, i) + HeaderUnits > n THEN NeedMore
     ELSE IF archive[i].encrypted THEN Violation
     ELSE IF ~IsMetadata(archive[i]) /\ ~(i = 1 /\ archive[i].name = "types") THEN sectionEnd
     ELSE IF FindEnd(archive, i, n).tag # "Done" THEN FindEnd(archive, i, n)
     ELSE IF archive[i].name \in names /\ archive[i].method # "stored" THEN Violation
     ELSE None

\* walk_gcode_plates: the plates whose checksum precedes the first G-code.
PlatesStep(archive, n, i) ==
  LET plates == {archive[j].plate : j \in {k \in 1..(i - 1) : archive[k].name = "md5"}} IN
    IF StartOf(archive, i) + 1 > n THEN NeedMore
    ELSE IF i = Len(archive) + 1 THEN Done(plates)
    ELSE IF StartOf(archive, i) + HeaderUnits > n THEN NeedMore
    ELSE IF archive[i].encrypted THEN Violation
    ELSE IF archive[i].name = "gcode" THEN Done(plates)
    ELSE IF FindEnd(archive, i, n).tag # "Done" THEN FindEnd(archive, i, n)
    ELSE None

FirstVerdict(steps) == steps[Min({i \in DOMAIN steps : steps[i] # None})]
WalkFront(archive, n, names) ==
  FirstVerdict([i \in 1..(Len(archive) + 1) |-> FrontStep(archive, n, names, i)])
WalkGcodePlates(archive, n) ==
  FirstVerdict([i \in 1..(Len(archive) + 1) |-> PlatesStep(archive, n, i)])

(***************************************************************************)
(* slice_info.rs, Window::slice: a window of at least ReadWindow bytes over *)
(* a source whose byte at offset k is k.                                    *)
(***************************************************************************)
SourceLen == 7
ReadWindow == 3   \* READ_WINDOW: 4096

NoWindow == [start |-> 0, buf |-> <<>>]
\* (Mutant: the window is held if it holds the first byte.)
HeldMutant(w, offset, len) == offset \in w.start..(w.start + Len(w.buf) - 1)
Held(w, offset, len) == offset >= w.start /\ offset + len <= w.start + Len(w.buf)
Refilled(w, offset, len) ==
  IF Held(w, offset, len) THEN w
  ELSE [start |-> offset,
        buf |-> [k \in 1..Min({Max({len, ReadWindow}), SourceLen - offset}) |-> offset + k - 1]]
Slice(w, offset, len) ==   \* None: the structure points past the end
  LET v == Refilled(w, offset, len)
      byte(k) == IF k \in DOMAIN v.buf THEN v.buf[k] ELSE None
  IN IF offset + len > SourceLen THEN None ELSE [k \in 1..len |-> byte(offset - v.start + k)]

\* read_member's search for the end record, in the last window and then as far
\* as the longest comment reaches: of the places a signature is at, by their
\* distance from the end of the file, the last one whose comment runs exactly
\* to the end.  comments[d]: the comment length the record at distance d claims.
\* (Mutant: the first one.)
RecordUnits == 1
TailWindow == 3
LastFitMutant(fits) == Max(fits)
LastFit(fits) == Min(fits)
FindEndRecord(tail, comments) ==
  LET fits == {d \in DOMAIN comments : d <= tail /\ d = RecordUnits + comments[d]}
  IN IF fits = {} THEN None ELSE LastFit(fits)
EndRecord(fileLen, maxTail, comments) ==
  LET longest == Min({fileLen, maxTail})
  IN Or(FindEndRecord(Min({TailWindow, longest}), comments), FindEndRecord(longest, comments))

(***************************************************************************)
(* The plates of slice_info.config, as the tags of the XML.  "bad" is a tag *)
(* or attribute that cannot be read.                                        *)
(***************************************************************************)
EmptyPlate == [plate |-> 0, filaments |-> 0, model |-> None]

\* scan_plates, after the first i tags: what it holds.
\* (Mutant: a plate starts with what the one before it left.)
FreshPlateMutant(current) == current
FreshPlate(current) == EmptyPlate
ScanStep3mf(s, tag) ==
  IF s.bad THEN s
  ELSE CASE tag = "bad" -> [s EXCEPT !.bad = TRUE]
    [] tag = "open" -> [s EXCEPT !.inPlate = TRUE, !.current = FreshPlate(s.current)]
    [] tag = "close" /\ s.inPlate ->
         [s EXCEPT !.inPlate = FALSE, !.visited = Append(@, s.current), !.current = FreshPlate(s.current)]
    [] tag = "index" /\ s.inPlate -> [s EXCEPT !.current.plate = 2]
    [] tag = "filament" /\ s.inPlate -> [s EXCEPT !.current.filaments = @ + 1]
    [] tag \in {"A", "B"} /\ s.inPlate -> [s EXCEPT !.current.model = tag]
    [] OTHER -> s

Scan(tags) ==
  LET after[i \in 0..Len(tags)] ==
        IF i = 0 THEN [inPlate |-> FALSE, current |-> EmptyPlate, visited |-> <<>>, bad |-> FALSE]
        ELSE ScanStep3mf(after[i - 1], tags[i])
  IN after[Len(tags)]

\* parse_slice_info: the first such plate, a later bad tag not being read.
ParseSliceInfo(tags, plate) ==
  LET seen == Scan(tags)
      places == {i \in DOMAIN seen.visited : seen.visited[i].plate = plate}
  IN IF places # {} THEN Done(seen.visited[Min(places)]) ELSE Violation

\* parse_sliced_for
\* (Mutant: the first plate decides.)
DisagreeMutant(visited) == FALSE
Disagree(visited) == \E i \in DOMAIN visited : visited[i].model # visited[1].model
ParseSlicedFor(tags) ==
  LET seen == Scan(tags) IN
    IF seen.bad \/ seen.visited = <<>> \/ Disagree(seen.visited) THEN Violation
    ELSE Done(seen.visited[1].model)

(***************************************************************************)
(* Inputs and properties.                                                   *)
(***************************************************************************)
Entry(name, method, desc, size) ==
  [name |-> name, method |-> method, desc |-> desc, size |-> size, ok |-> TRUE, encrypted |-> FALSE,
   plate |-> 1]
Entries ==
  {Entry("types", "deflate", TRUE, 1), Entry("image", "stored", FALSE, 2), Entry("image", "stored", TRUE, 2),
   Entry("image", "deflate", TRUE, 2), [Entry("image", "stored", FALSE, 2) EXCEPT !.ok = FALSE],
   Entry("md5", "stored", FALSE, 1), [Entry("md5", "deflate", TRUE, 1) EXCEPT !.plate = 2],
   Entry("gcode", "deflate", TRUE, 2), Entry("model", "deflate", TRUE, 2),
   [Entry("image", "deflate", TRUE, 1) EXCEPT !.encrypted = TRUE]}
Tags == {"open", "close", "index", "A", "B", "filament", "bad"}
ProjectInputs ==
  [of : {"archive"}, archive : [1..3 -> Entries]]
    \cup [of : {"window"}, reads : [1..3 -> (0..SourceLen) \X {1, 2, 4}]]
    \cup [of : {"tail"}, fileLen : 1..6, maxTail : 3..5, comments : UNION {[D -> 0..4] : D \in SUBSET (1..4)}]
    \cup {[of |-> "plates", tags |-> <<"open">> \o t] : t \in [1..5 -> Tags]}

\* Stopping early is safe: once the front of the file gives an answer, any
\* longer front gives the same one, whole members included, and the whole file
\* always gives one (project.rs:155-295).
FrontAnswerFinal ==
  Given("archive") =>
    LET whole == DirectoryAt(input.archive) + 1
        images(n) == WalkFront(input.archive, n, {"image"})
        plates(n) == WalkGcodePlates(input.archive, n)
    IN /\ images(whole) # NeedMore /\ plates(whole) # NeedMore
       /\ \A n \in 0..(whole - 1) :
            /\ images(n) # NeedMore => images(n) = images(n + 1)
            /\ plates(n) # NeedMore => plates(n) = plates(n + 1)

\* Whatever was read before through the window, a slice is the bytes asked for
\* or a refusal: no read returns bytes left in it by another
\* (slice_info.rs:453-474).
WindowReadsSource ==
  Given("window") =>
    LET r == input.reads
        past(i) == r[i][1] + r[i][2] > SourceLen
        after(w, i) == IF past(i) THEN w ELSE Refilled(w, r[i][1], r[i][2])
        last == Slice(after(after(NoWindow, 1), 2), r[3][1], r[3][2])
    IN IF past(3) THEN last = None ELSE last = [k \in 1..r[3][2] |-> r[3][1] + k - 1]

\* Looking in the last window first finds the same end record as searching the
\* whole tail would: a record that the short search accepts is not overruled by
\* one further back, and no window hides the record there is
\* (slice_info.rs:504-534).
EndRecordFound ==
  Given("tail") =>
    LET reach == Min({input.fileLen, input.maxTail})
        real == {d \in DOMAIN input.comments : d <= reach /\ d - RecordUnits = input.comments[d]}
        found == EndRecord(input.fileLen, input.maxTail, input.comments)
    IN /\ found = None <=> real = {}
       /\ found # None => found = FindEndRecord(reach, input.comments) /\ \A d \in real : found <= d

PlateAt(j) ==   \* the plate that the tag at j closes, from the text
  LET opens == {i \in 1..(j - 1) : input.tags[i] = "open"
                  /\ \A k \in (i + 1)..(j - 1) : input.tags[k] \notin {"open", "close"}}
      own(names) == {k \in (Max(opens) + 1)..(j - 1) : input.tags[k] \in names}
  IN IF opens = {} THEN None
     ELSE [plate |-> IF own({"index"}) = {} THEN 0 ELSE 2, filaments |-> Cardinality(own({"filament"})),
           model |-> IF own({"A", "B"}) = {} THEN None ELSE input.tags[Max(own({"A", "B"}))]]

\* A model id the file is said to be sliced for is the one of every plate in it,
\* and a plate's filaments and id are those between its own tags
\* (slice_info.rs:180-325).
PlatesRead ==
  Given("plates") =>
    LET tags == input.tags
        bads == {i \in DOMAIN tags : tags[i] = "bad"}
        readable == IF bads = {} THEN Len(tags) ELSE Min(bads) - 1
        plates == {PlateAt(j) : j \in {k \in 1..readable : tags[k] = "close"}} \ {None}
    IN /\ \A p \in {0, 2} :
            IF ParseSliceInfo(tags, p).tag = "Done" THEN ParseSliceInfo(tags, p).value \in plates
            ELSE \A q \in plates : q.plate # p
       /\ IF ParseSlicedFor(tags).tag = "Done"
          THEN bads = {} /\ {q.model : q \in plates} = {ParseSlicedFor(tags).value}
          ELSE bads # {} \/ Cardinality({q.model : q \in plates}) # 1
=============================================================================

--------------------------- MODULE ReceiverProofs ---------------------------
(* The camera reader and the MQTT frame reader stay in step, and the          *)
(* discovery sweep is sound, for every value of the constants of             *)
(* CameraStream, MqttFrame and Discovery.                                     *)
EXTENDS CameraStream, Discovery, MqttFrame, FiniteSetTheorems, SequenceTheorems,
        WellFoundedInduction, TLAPS

----------------------------------------------------------------------------
(* The camera: the inductive invariant                                       *)

CamFrame == [start : Nat, size : CamSizes, markers : BOOLEAN]
CamState == [at : {"idle", "header", "payload", "discard"}, from : Nat, have : Nat, want : Nat]
Verdict == [from : Nat, as : {"empty", "oversized", "frame", "markers"}]
CamTypeOK ==
  /\ film \in Seq(CamFrame)
  /\ camera \in CamState
  /\ taken \in Nat
  /\ verdicts \in Seq(Verdict)

\* Frames follow one another without a gap and without overlap.
EndOf(f) == f.start + CamHeader + f.size
StreamInv ==
  /\ \A i \in DOMAIN film : i < Len(film) => film[i + 1].start = EndOf(film[i])
  /\ \A i, j \in DOMAIN film : i < j => EndOf(film[i]) <= film[j].start

\* The frame the reader owes a verdict on, and where it starts or will start.
DueFrame == Len(verdicts) + 1
DueStart == IF DueFrame <= Len(film) THEN film[DueFrame].start ELSE StreamEnd

\* What the reader holds is the beginning of that frame, up to the byte it has
\* taken, whatever ended the calls before.
PlaceInv ==
  /\ camera.at = "idle" => camera = Idle /\ taken = DueStart
  /\ camera.at # "idle" => camera.from = DueStart /\ camera.have < camera.want
  /\ camera.at = "header" => camera.want = CamHeader /\ taken = camera.from + camera.have
  /\ camera.at \in {"payload", "discard"} =>
       /\ DueFrame <= Len(film)
       /\ camera.want = film[DueFrame].size
       /\ taken = camera.from + CamHeader + camera.have
       /\ (camera.at = "discard") = (camera.want > CamMaxFrame)

CamInv == CamTypeOK /\ StreamInv /\ PlaceInv /\ CameraInStep

LEMMA CamInitInv == CamInit => CamInv
  <1> SUFFICES ASSUME CamInit PROVE CamInv  OBVIOUS
  <1> USE CamAssumption
  <1>1. film = <<>> /\ camera = Idle /\ taken = 0 /\ verdicts = <<>>  BY DEF CamInit
  <1>2. CamTypeOK  BY <1>1 DEF CamTypeOK, CamState, Idle
  <1>3. StreamInv  BY <1>1 DEF StreamInv
  <1>4. PlaceInv  BY <1>1 DEF PlaceInv, DueStart, DueFrame, StreamEnd, Idle
  <1>5. CameraInStep  BY <1>1 DEF CameraInStep, FramesJudgedInOrder, FrameBufferBounded, Idle
  <1> QED BY <1>2, <1>3, <1>4, <1>5 DEF CamInv

\* What a frame's fields are.
LEMMA FilmFrame ==
  ASSUME CamTypeOK, NEW i \in DOMAIN film
  PROVE  /\ film[i].start \in Nat /\ film[i].size \in CamSizes /\ film[i].size \in Nat
         /\ film[i].markers \in BOOLEAN /\ i \in 1..Len(film)
  <1>1. film[i] \in CamFrame /\ i \in 1..Len(film)  BY ElementOfSeq DEF CamTypeOK
  <1> QED BY <1>1, CamAssumption DEF CamFrame

LEMMA EndAfterStart ==
  ASSUME NEW f, f.start \in Nat, f.size \in Nat
  PROVE  EndOf(f) \in Nat /\ f.start < EndOf(f)
  BY CamAssumption DEF EndOf

LEMMA StreamEndType ==
  ASSUME CamTypeOK
  PROVE  /\ StreamEnd \in Nat
         /\ film # <<>> => Len(film) \in DOMAIN film /\ StreamEnd = EndOf(film[Len(film)])
  <1>1. CASE film = <<>>  BY <1>1 DEF StreamEnd
  <1>2. CASE film # <<>>
    <2>1. Len(film) \in DOMAIN film  BY <1>2 DEF CamTypeOK
    <2> QED BY <1>2, <2>1, FilmFrame, CamAssumption DEF StreamEnd, EndOf
  <1> QED BY <1>1, <1>2

\* The printer sends a frame: the one that is due is where it was.
LEMMA CamSends ==
  ASSUME CamInv, NEW size \in CamSizes, NEW markers \in BOOLEAN, PrinterSends(size, markers)
  PROVE  CamInv'
  <1> DEFINE f == [start |-> StreamEnd, size |-> size, markers |-> markers]
             n == Len(film)
  <1>1. CamTypeOK /\ StreamInv /\ PlaceInv /\ CameraInStep  BY DEF CamInv
  <1>2. film' = Append(film, f) /\ UNCHANGED <<camera, taken, verdicts>>
    BY DEF PrinterSends
  <1>3. f \in CamFrame /\ f.start = StreamEnd /\ f.size = size  BY <1>1, StreamEndType DEF CamFrame
  <1>4. film \in Seq(CamFrame) /\ n \in Nat  BY <1>1 DEF CamTypeOK
  <1> HIDE DEF f
  <1>5. /\ film' \in Seq(CamFrame) /\ Len(film') = n + 1 /\ film'[n + 1] = f
        /\ DOMAIN film' = 1..(n + 1) /\ DOMAIN film = 1..n
        /\ \A i \in 1..n : film'[i] = film[i]
    BY <1>2, <1>3, <1>4, AppendProperties
  <1>6. CamTypeOK'  BY <1>1, <1>2, <1>5 DEF CamTypeOK
  <1>7. \A i \in 1..n : EndOf(film[i]) <= StreamEnd
    <2> SUFFICES ASSUME NEW i \in 1..n PROVE EndOf(film[i]) <= StreamEnd  OBVIOUS
    <2>1. n \in DOMAIN film /\ i \in DOMAIN film /\ StreamEnd = EndOf(film[n])
      BY <1>1, <1>4, <1>5, StreamEndType
    <2>2. CASE i = n
      <3>1. StreamEnd \in Nat  BY <1>1, StreamEndType
      <3> QED BY <2>1, <2>2, <3>1
    <2>3. CASE i < n
      <3>1. EndOf(film[i]) <= film[n].start  BY <1>1, <2>1, <2>3 DEF StreamInv
      <3>2. /\ film[n].start \in Nat /\ film[n].size \in Nat /\ CamHeader \in Nat
            /\ film[i].start \in Nat /\ film[i].size \in Nat
        BY <1>1, <2>1, FilmFrame, CamAssumption
      <3>3. EndOf(film[i]) \in Nat /\ EndOf(film[n]) \in Nat /\ film[n].start < EndOf(film[n])
        BY <3>2, EndAfterStart
      <3> QED BY <2>1, <3>1, <3>2, <3>3
    <2> QED BY <2>2, <2>3, <1>4
  <1>8. StreamInv'
    <2>1. ASSUME NEW i \in DOMAIN film', i < Len(film')
          PROVE  film'[i + 1].start = EndOf(film'[i])
      <3>1. CASE i = n
        <4>1. film # <<>> /\ film'[i] = film[n] /\ film'[i + 1] = f  BY <1>4, <1>5, <3>1, <2>1
        <4> QED BY <1>1, <1>3, <4>1, StreamEndType
      <3>2. CASE i < n
        <4>1. i \in 1..n /\ i + 1 \in 1..n /\ i \in DOMAIN film  BY <1>4, <1>5, <2>1, <3>2
        <4> QED BY <1>1, <1>5, <3>2, <4>1 DEF StreamInv
      <3> QED BY <1>4, <1>5, <2>1, <3>1, <3>2
    <2>2. ASSUME NEW i \in DOMAIN film', NEW j \in DOMAIN film', i < j
          PROVE  EndOf(film'[i]) <= film'[j].start
      <3>1. i \in 1..n /\ film'[i] = film[i]  BY <1>4, <1>5, <2>2
      <3>2. CASE j = n + 1  BY <1>3, <1>5, <1>7, <3>1, <3>2
      <3>3. CASE j \in 1..n  BY <1>1, <1>5, <2>2, <3>1, <3>3 DEF StreamInv
      <3> QED BY <1>4, <1>5, <3>2, <3>3
    <2> QED BY <2>1, <2>2 DEF StreamInv, EndOf
  <1>9. Len(verdicts) \in Nat /\ Len(verdicts) <= n
    BY <1>1 DEF CamTypeOK, CameraInStep, FramesJudgedInOrder
  <1>10. /\ DueFrame' = DueFrame /\ DueFrame \in 1..(n + 1)
         /\ DueFrame <= n => film'[DueFrame] = film[DueFrame]
         /\ DueStart' = DueStart
    <2>1. DueFrame' = DueFrame /\ DueFrame \in 1..(n + 1)  BY <1>2, <1>4, <1>9 DEF DueFrame
    <2>2. CASE DueFrame <= n  BY <1>4, <1>5, <2>1, <2>2 DEF DueStart
    <2>3. CASE DueFrame = n + 1  BY <1>3, <1>4, <1>5, <2>1, <2>3 DEF DueStart
    <2> QED BY <1>4, <2>1, <2>2, <2>3
  <1>11. PlaceInv'
    <2>1. DueFrame <= n => DueFrame' <= Len(film')  BY <1>4, <1>5, <1>10
    <2> QED BY <1>1, <1>2, <1>10, <2>1 DEF PlaceInv
  <1>12. CameraInStep'
    <2>1. \A i \in DOMAIN verdicts : i \in 1..n  BY <1>1, <1>4, <1>9 DEF CamTypeOK
    <2>2. FramesJudgedInOrder'
      <3>1. Len(verdicts') <= Len(film')  BY <1>2, <1>4, <1>5, <1>9
      <3>2. \A i \in DOMAIN verdicts' : film'[i] = film[i]  BY <1>2, <1>5, <2>1
      <3> QED BY <1>1, <1>2, <3>1, <3>2 DEF FramesJudgedInOrder, CameraInStep, Deserved
    <2>3. FrameBufferBounded'  BY <1>1, <1>2 DEF CameraInStep, FrameBufferBounded
    <2> QED BY <2>2, <2>3 DEF CameraInStep
  <1> QED BY <1>6, <1>8, <1>11, <1>12 DEF CamInv

\* A call begins: from Idle it waits for the header of the frame that is due.
LEMMA CamBegins ==
  ASSUME CamInv, ReadNextFrame
  PROVE  CamInv'
  <1>1. CamTypeOK /\ StreamInv /\ PlaceInv /\ CameraInStep  BY DEF CamInv
  <1>2. UNCHANGED <<film, taken, verdicts>>  BY DEF ReadNextFrame
  <1>3. /\ StreamInv' /\ FramesJudgedInOrder'
        /\ DueStart' = DueStart /\ DueFrame' = DueFrame
    BY <1>1, <1>2 DEF StreamInv, CameraInStep, FramesJudgedInOrder, DueStart, DueFrame, StreamEnd,
                      EndOf, Deserved
  <1>4. CASE camera.at = "idle"
    <2>1. camera' = [at |-> "header", from |-> taken, have |-> 0, want |-> CamHeader]
      BY <1>4 DEF ReadNextFrame
    <2>2. CamTypeOK'  BY <1>1, <1>2, <2>1, CamAssumption DEF CamTypeOK, CamState
    <2>3. PlaceInv'
      <3>1. taken = DueStart /\ taken \in Nat  BY <1>1, <1>4 DEF PlaceInv, CamTypeOK
      <3> QED BY <1>2, <1>3, <2>1, <3>1, CamAssumption DEF PlaceInv
    <2>4. FrameBufferBounded'  BY <2>1 DEF FrameBufferBounded
    <2> QED BY <1>3, <2>2, <2>3, <2>4 DEF CamInv, CameraInStep
  <1>5. CASE camera.at # "idle"
    <2>1. camera' = camera  BY <1>5 DEF ReadNextFrame
    <2> QED BY <1>1, <1>2, <1>3, <2>1
         DEF CamInv, CamTypeOK, PlaceInv, CameraInStep, FrameBufferBounded
  <1> QED BY <1>4, <1>5

\* A call that ends early leaves the state to the next one.
LEMMA CamStops ==
  ASSUME CamInv, UNCHANGED <<film, camera, taken, verdicts>>
  PROVE  CamInv'
  <1>1. CamTypeOK /\ StreamInv /\ PlaceInv /\ CameraInStep  BY DEF CamInv
  <1>2. CamTypeOK'  BY <1>1 DEF CamTypeOK
  <1>3. StreamInv'  BY <1>1 DEF StreamInv, EndOf
  <1>4. DueStart' = DueStart /\ DueFrame' = DueFrame  BY DEF DueStart, DueFrame, StreamEnd
  <1>5. PlaceInv'  BY <1>1, <1>4 DEF PlaceInv
  <1>6. CameraInStep'
    BY <1>1 DEF CameraInStep, FramesJudgedInOrder, FrameBufferBounded, Deserved
  <1> QED BY <1>2, <1>3, <1>5, <1>6 DEF CamInv

\* Bytes read in mid-frame are bytes of the frame that is due.
LEMMA BytesAreDue ==
  ASSUME CamInv, NEW n \in 1..(camera.want - camera.have), ReadChunk(n)
  PROVE  /\ DueFrame \in DOMAIN film /\ camera.from = film[DueFrame].start
         /\ camera.at # "idle" /\ FramesFrom(camera.from) = {DueFrame}
         /\ n \in Nat \ {0} /\ camera.have + n \in Nat
  <1>1. CamTypeOK /\ StreamInv /\ PlaceInv /\ CameraInStep  BY DEF CamInv
  <1>2. /\ camera.have \in Nat /\ camera.want \in Nat /\ taken \in Nat /\ StreamEnd \in Nat
        /\ camera.at \in {"idle", "header", "payload", "discard"} /\ camera.from \in Nat
        /\ film \in Seq(CamFrame) /\ Len(film) \in Nat /\ DOMAIN film = 1..Len(film)
    BY <1>1, StreamEndType DEF CamTypeOK, CamState
  <1>3. n \in Nat \ {0}  BY <1>2
  <1>4. Len(verdicts) \in Nat /\ Len(verdicts) <= Len(film) /\ DueFrame \in Nat /\ DueFrame >= 1
    BY <1>1 DEF CamTypeOK, CameraInStep, FramesJudgedInOrder, DueFrame
  <1>5. n <= StreamEnd - taken /\ camera.at # "idle"
    <2>1. n <= StreamEnd - taken  BY DEF ReadChunk
    <2>2. camera.at = "idle" => camera.want = 0 /\ camera.have = 0  BY <1>1 DEF PlaceInv, Idle
    <2> QED BY <2>1, <2>2
  <1>6. camera.from = DueStart  BY <1>1, <1>5 DEF PlaceInv
  <1>7. DueFrame <= Len(film)
    <2>1. CASE camera.at = "header"
      <3>1. taken = camera.from + camera.have  BY <1>1, <2>1 DEF PlaceInv
      <3>2. camera.from # StreamEnd  BY <1>2, <1>3, <1>5, <3>1
      <3> QED BY <1>6, <3>2 DEF DueStart
    <2>2. CASE camera.at # "header"  BY <1>1, <1>2, <1>5, <2>2 DEF PlaceInv
    <2> QED BY <2>1, <2>2
  <1>8. DueFrame \in DOMAIN film /\ camera.from = film[DueFrame].start
    BY <1>2, <1>4, <1>6, <1>7 DEF DueStart
  <1>9. ASSUME NEW i \in DOMAIN film, film[i].start = camera.from PROVE i = DueFrame
    <2>1. CASE i < DueFrame
      <3>1. EndOf(film[i]) <= film[DueFrame].start  BY <1>1, <1>8, <2>1 DEF StreamInv
      <3> QED BY <1>1, <1>8, <1>9, <3>1, FilmFrame, CamAssumption DEF EndOf
    <2>2. CASE DueFrame < i
      <3>1. EndOf(film[DueFrame]) <= film[i].start  BY <1>1, <1>8, <2>2 DEF StreamInv
      <3> QED BY <1>1, <1>8, <1>9, <3>1, FilmFrame, CamAssumption DEF EndOf
    <2> QED BY <1>2, <1>8, <2>1, <2>2
  <1>10. FramesFrom(camera.from) = {DueFrame}  BY <1>8, <1>9 DEF FramesFrom
  <1> QED BY <1>2, <1>3, <1>5, <1>8, <1>10

\* A verdict on the frame that is due, with its last byte taken, makes the next one due.
LEMMA CamJudges ==
  ASSUME CamInv, DueFrame \in DOMAIN film, camera.from = film[DueFrame].start,
         UNCHANGED film, NEW as, Returns(as), as = Deserved(film[DueFrame]),
         taken' = EndOf(film[DueFrame])
  PROVE  CamInv'
  <1> DEFINE d == DueFrame
  <1>1. CamTypeOK /\ StreamInv /\ PlaceInv /\ CameraInStep  BY DEF CamInv
  <1>2. /\ film[d].start \in Nat /\ film[d].size \in Nat /\ d \in 1..Len(film)
        /\ Len(verdicts) \in Nat /\ d = Len(verdicts) + 1 /\ Len(film) \in Nat
    BY <1>1, FilmFrame DEF DueFrame, CamTypeOK
  <1> DEFINE v == [from |-> camera.from, as |-> as]
  <1>3. v \in Verdict
    <2>1. as \in {"empty", "oversized", "frame", "markers"}
      BY <1>2, CamAssumption DEF Deserved
    <2> QED BY <1>2, <2>1 DEF Verdict
  <1>4. camera' = Idle /\ verdicts' = Append(verdicts, v)  BY DEF Returns
  <1>5. v = [from |-> film[d].start, as |-> Deserved(film[d])]  OBVIOUS
  <1> HIDE DEF v
  <1>6. /\ verdicts' \in Seq(Verdict) /\ Len(verdicts') = d /\ verdicts'[d] = v
        /\ DOMAIN verdicts' = 1..d /\ DOMAIN verdicts = 1..(d - 1)
        /\ \A i \in 1..(d - 1) : verdicts'[i] = verdicts[i]
    BY <1>1, <1>2, <1>3, <1>4, AppendProperties DEF CamTypeOK
  <1>7. CamTypeOK'
    <2>1. EndOf(film[d]) \in Nat  BY <1>2, CamAssumption DEF EndOf
    <2>2. Idle \in CamState  BY DEF Idle, CamState
    <2> QED BY <1>1, <1>4, <1>6, <2>1, <2>2 DEF CamTypeOK
  <1>8. StreamInv'  BY <1>1 DEF StreamInv, EndOf
  <1>9. taken' = DueStart'
    <2>1. DueFrame' = d + 1  BY <1>6 DEF DueFrame
    <2>2. CASE d < Len(film)
      <3>1. film[d + 1].start = EndOf(film[d])  BY <1>1, <2>2 DEF StreamInv
      <3>2. DueFrame' <= Len(film')  BY <1>2, <2>1, <2>2
      <3> QED BY <2>1, <3>1, <3>2 DEF DueStart
    <2>3. CASE d = Len(film)
      <3>1. StreamEnd' = StreamEnd /\ film # <<>>  BY <1>2, <2>3 DEF StreamEnd
      <3>2. StreamEnd = EndOf(film[d])  BY <1>1, <2>3, <3>1, StreamEndType
      <3>3. ~(DueFrame' <= Len(film'))  BY <1>2, <2>1, <2>3
      <3> QED BY <3>1, <3>2, <3>3 DEF DueStart
    <2> QED BY <1>2, <2>2, <2>3
  <1>10. PlaceInv'  BY <1>4, <1>9 DEF PlaceInv, Idle
  <1>11. FramesJudgedInOrder'
    <2>1. Len(verdicts') <= Len(film')  BY <1>2, <1>6
    <2>2. ASSUME NEW i \in DOMAIN verdicts'
          PROVE  verdicts'[i] = [from |-> film[i].start, as |-> Deserved(film[i])]
      <3>1. CASE i = d  BY <1>5, <1>6, <3>1
      <3>2. CASE i \in 1..(d - 1)
        BY <1>1, <1>6, <3>2 DEF CameraInStep, FramesJudgedInOrder
      <3> QED BY <1>2, <1>6, <3>1, <3>2
    <2> QED BY <2>1, <2>2 DEF FramesJudgedInOrder, Deserved
  <1>12. FrameBufferBounded'  BY <1>4 DEF FrameBufferBounded, Idle
  <1> QED BY <1>7, <1>8, <1>10, <1>11, <1>12 DEF CamInv, CameraInStep

\* A header or a payload goes on.
LEMMA CamGoesOn ==
  ASSUME CamInv, NEW n \in 1..(camera.want - camera.have), ReadChunk(n), camera.have + n < camera.want,
         camera' = [camera EXCEPT !.have = @ + n], UNCHANGED verdicts
  PROVE  CamInv'
  <1>1. CamTypeOK /\ StreamInv /\ PlaceInv /\ CameraInStep  BY DEF CamInv
  <1>2. taken' = taken + n /\ UNCHANGED film  BY DEF ReadChunk
  <1>3. n \in Nat /\ camera.have + n \in Nat /\ camera.at # "idle"  BY BytesAreDue
  <1>4. camera \in CamState /\ taken \in Nat  BY <1>1 DEF CamTypeOK
  <1>5. /\ camera' \in CamState /\ camera'.at = camera.at /\ camera'.from = camera.from
        /\ camera'.want = camera.want /\ camera'.have = camera.have + n
    BY <1>3, <1>4 DEF CamState
  <1>6. camera.from \in Nat /\ camera.have \in Nat  BY <1>4 DEF CamState
  <1>7. CamTypeOK'  BY <1>1, <1>2, <1>3, <1>4, <1>5 DEF CamTypeOK
  <1>8. StreamInv'  BY <1>1, <1>2 DEF StreamInv, EndOf
  <1>9. DueStart' = DueStart /\ DueFrame' = DueFrame
    BY <1>2 DEF DueStart, DueFrame, StreamEnd
  <1>10. PlaceInv'
    <2>1. camera'.at # "idle" /\ camera'.from = DueStart' /\ camera'.have < camera'.want
      BY <1>1, <1>3, <1>5, <1>9 DEF PlaceInv
    <2>2. camera.at = "header" => camera'.want = CamHeader /\ taken' = camera'.from + camera'.have
      BY <1>1, <1>2, <1>3, <1>4, <1>5, <1>6 DEF PlaceInv
    <2>3. camera.at \in {"payload", "discard"} =>
            /\ DueFrame' <= Len(film') /\ camera'.want = film'[DueFrame'].size
            /\ (camera'.at = "discard") = (camera'.want > CamMaxFrame)
      BY <1>1, <1>2, <1>5, <1>9 DEF PlaceInv
    <2>4. camera.at \in {"payload", "discard"} => taken' = camera'.from + CamHeader + camera'.have
      <3> SUFFICES ASSUME camera.at \in {"payload", "discard"}
                   PROVE  taken' = camera'.from + CamHeader + camera'.have
        OBVIOUS
      <3>1. taken = camera.from + CamHeader + camera.have  BY <1>1 DEF PlaceInv
      <3>2. CamHeader \in Nat  BY CamAssumption
      <3> QED BY <1>2, <1>3, <1>5, <1>6, <3>1, <3>2
    <2> QED BY <1>5, <2>1, <2>2, <2>3, <2>4 DEF PlaceInv
  <1>11. CameraInStep'
    BY <1>1, <1>2, <1>5 DEF CameraInStep, FramesJudgedInOrder, FrameBufferBounded, Deserved
  <1> QED BY <1>7, <1>8, <1>10, <1>11 DEF CamInv

\* The header of a frame with a payload is whole: the payload is read or discarded.
LEMMA CamHeaderDone ==
  ASSUME CamInv, NEW n \in 1..(camera.want - camera.have), ReadChunk(n), camera.at = "header",
         camera.have + n = camera.want, NEW size \in DeclaredSizes, size # 0,
         camera' = AfterHeader(size), UNCHANGED verdicts
  PROVE  CamInv'
  <1>1. CamTypeOK /\ StreamInv /\ PlaceInv /\ CameraInStep  BY DEF CamInv
  <1>2. taken' = taken + n /\ UNCHANGED film  BY DEF ReadChunk
  <1>3. /\ DueFrame \in DOMAIN film /\ camera.from = film[DueFrame].start
        /\ FramesFrom(camera.from) = {DueFrame} /\ n \in Nat
    BY BytesAreDue
  <1>4. size = film[DueFrame].size /\ size \in Nat /\ film[DueFrame].start \in Nat /\ DueFrame <= Len(film)
    BY <1>1, <1>3, FilmFrame DEF DeclaredSizes
  <1>5. /\ camera.want = CamHeader /\ taken = camera.from + camera.have /\ camera.from = DueStart
        /\ camera.have \in Nat /\ taken \in Nat
    BY <1>1 DEF PlaceInv, CamTypeOK, CamState
  <1>6. taken' = camera.from + CamHeader + 0 /\ taken' \in Nat
    <2>1. camera.from \in Nat /\ CamHeader \in Nat /\ camera.have + n = CamHeader
      BY <1>3, <1>4, <1>5, CamAssumption
    <2>2. taken' = camera.from + camera.have + n  BY <1>2, <1>5
    <2> QED BY <1>3, <1>5, <2>1, <2>2
  <1>7. /\ camera'.at = IF size > CamMaxFrame THEN "discard" ELSE "payload"
        /\ camera'.from = camera.from /\ camera'.have = 0 /\ camera'.want = size
        /\ camera' \in CamState
    BY <1>3, <1>4 DEF AfterHeader, TooLarge, CamState
  <1>8. CamTypeOK'  BY <1>1, <1>2, <1>6, <1>7 DEF CamTypeOK
  <1>9. StreamInv'  BY <1>1, <1>2 DEF StreamInv, EndOf
  <1>10. DueStart' = DueStart /\ DueFrame' = DueFrame
    BY <1>2 DEF DueStart, DueFrame, StreamEnd
  <1>11. PlaceInv'
    <2>1. camera'.at \in {"discard", "payload"} /\ (camera'.at = "discard") = (camera'.want > CamMaxFrame)
      BY <1>7
    <2>2. camera'.have < camera'.want  BY <1>4, <1>7
    <2> QED BY <1>2, <1>4, <1>5, <1>6, <1>7, <1>10, <2>1, <2>2 DEF PlaceInv
  <1>12. CameraInStep'
    <2>1. FrameBufferBounded'  BY <1>4, <1>7, CamAssumption DEF FrameBufferBounded
    <2> QED BY <1>1, <1>2, <2>1 DEF CameraInStep, FramesJudgedInOrder, Deserved
  <1> QED BY <1>8, <1>9, <1>11, <1>12 DEF CamInv

LEMMA CamReads ==
  ASSUME CamInv, NEW n \in 1..(camera.want - camera.have), ReadChunk(n)
  PROVE  CamInv'
  <1> DEFINE f == film[DueFrame]
  <1>1. CamTypeOK /\ PlaceInv  BY DEF CamInv
  <1>2. taken' = taken + n /\ UNCHANGED film  BY DEF ReadChunk
  <1>3. /\ DueFrame \in DOMAIN film /\ camera.from = f.start
        /\ FramesFrom(camera.from) = {DueFrame} /\ n \in Nat
    BY BytesAreDue
  <1>4. /\ f.size \in Nat /\ f.start \in Nat /\ f.markers \in BOOLEAN
        /\ camera.have \in Nat /\ taken \in Nat /\ CamHeader \in Nat /\ CamMaxFrame \in Nat
    BY <1>1, <1>3, FilmFrame, CamAssumption DEF CamTypeOK, CamState
  <1>5. CASE camera.have + n < camera.want /\ camera' = [camera EXCEPT !.have = @ + n]
               /\ UNCHANGED verdicts
    BY <1>5, CamGoesOn
  <1>6. CASE camera.have + n = camera.want /\ camera.at = "header" /\ HeaderRead
    <2>1. PICK size \in DeclaredSizes :
            IF size = 0 THEN Returns("empty")
            ELSE camera' = AfterHeader(size) /\ UNCHANGED verdicts
      BY <1>6 DEF HeaderRead
    <2>2. CASE size = 0
      <3>1. f.size = 0  BY <1>3, <2>2 DEF DeclaredSizes
      <3>2. "empty" = Deserved(f)  BY <1>4, <3>1 DEF Deserved
      <3>3. taken' = EndOf(f)
        <4>1. camera.want = CamHeader /\ taken = camera.from + camera.have  BY <1>1, <1>6 DEF PlaceInv
        <4> QED BY <1>2, <1>3, <1>4, <1>6, <3>1, <4>1 DEF EndOf
      <3> QED BY <1>2, <1>3, <2>1, <2>2, <3>2, <3>3, CamJudges
    <2>3. CASE size # 0  BY <1>6, <2>1, <2>3, CamHeaderDone
    <2> QED BY <2>2, <2>3
  <1>7. CASE camera.have + n = camera.want /\ camera.at \in {"payload", "discard"}
    <2>1. /\ camera.want = f.size /\ taken = camera.from + CamHeader + camera.have
          /\ (camera.at = "discard") = (camera.want > CamMaxFrame)
          /\ camera.have < camera.want
      BY <1>1, <1>7 DEF PlaceInv
    <2>2. taken' = EndOf(f)  BY <1>2, <1>3, <1>4, <1>7, <2>1 DEF EndOf
    <2>3. f.size > 0  BY <1>4, <2>1
    <2>4. CASE camera.at = "payload" /\ PayloadRead
      <3> DEFINE marked == {film[i].markers : i \in FramesFrom(camera.from)}
      <3>1. marked = {f.markers}  BY <1>3
      <3>2. (marked = {TRUE}) = f.markers  BY <1>4, <3>1
      <3>3. f.size <= CamMaxFrame  BY <1>4, <2>1, <2>4
      <3>4. (camera.want >= CamJpegMin /\ marked = {TRUE}) = (f.markers /\ f.size >= CamJpegMin)
        BY <2>1, <3>2
      <3>5. Deserved(f) = IF f.markers /\ f.size >= CamJpegMin THEN "frame" ELSE "markers"
        BY <1>4, <2>3, <3>3 DEF Deserved
      <3>6. Returns(Deserved(f))  BY <2>4, <3>4, <3>5 DEF PayloadRead
      <3> QED BY <1>2, <1>3, <2>2, <3>6, CamJudges
    <2>5. CASE camera.at = "discard" /\ Returns("oversized")
      <3>1. "oversized" = Deserved(f)  BY <1>4, <2>1, <2>3, <2>5 DEF Deserved
      <3> QED BY <1>2, <1>3, <2>2, <2>5, <3>1, CamJudges
    <2>6. ~(camera.have + n < camera.want)  BY <1>3, <1>4, <1>7
    <2> QED BY <1>7, <2>4, <2>5, <2>6 DEF ReadChunk
  <1> QED BY <1>5, <1>6, <1>7 DEF ReadChunk

LEMMA CamStep == CamInv /\ [CamNext]_camVars => CamInv'
  <1> SUFFICES ASSUME CamInv, [CamNext]_camVars PROVE CamInv'  OBVIOUS
  <1>1. CASE ReadNextFrame  BY <1>1, CamBegins
  <1>2. CASE ReadEnds  BY <1>2, CamStops DEF ReadEnds, ReaderKept
  <1>3. CASE \E n \in 1..(camera.want - camera.have) : ReadChunk(n)  BY <1>3, CamReads
  <1>4. CASE \E size \in CamSizes, markers \in BOOLEAN : PrinterSends(size, markers)
    BY <1>4, CamSends
  <1>5. CASE UNCHANGED camVars  BY <1>5, CamStops DEF camVars
  <1> QED BY <1>1, <1>2, <1>3, <1>4, <1>5 DEF CamNext

\* read_next_frame judges every frame of the stream once and in order, wherever
\* timeouts, closed links and dropped calls cut its reads, and never allocates
\* above the configured size (camera/binary.rs).
THEOREM CameraTheorem == CamSpec => []CameraInStep
  <1>1. CamInv => CameraInStep  BY DEF CamInv
  <1> QED BY <1>1, CamInitInv, CamStep, PTL DEF CamSpec

----------------------------------------------------------------------------
(* Discovery: the inductive invariant                                        *)

Device == [serial : Printers, port : Nat]
SweepTypeOK ==
  /\ sweep \in {"bind", "burst", "test", "poll", "done", "failed"}
  /\ engines \in Seq(Nat) /\ Len(engines) \in 0..2
  /\ sweep = "bind" => turn \in 1..2 /\ Len(engines) < turn
  /\ sweep \in {"burst", "test", "poll", "done"} => Len(engines) \in 1..2
  /\ sweep = "poll" => turn \in 1..Len(engines)
  /\ clock \in Nat /\ sweepStart \in Nat /\ lastSearch \in Nat /\ passStart \in Nat
  /\ found \in Seq(Device)
  /\ rested \in BOOLEAN

\* seenSerials is the index of what was found.
SeenInv == seenSerials = {found[i].serial : i \in DOMAIN found}

\* What one poll can take, and the polls of this pass so far.
PollMax == ReceiveMax + Backoff
Polled == IF turn = 2 THEN PollMax ELSE 0

\* Time within a pass: it began inside the window, the search of its head took at
\* most SendMax, and the polls since at most PollMax each.
ClockInv ==
  /\ sweep = "poll" =>
       /\ passStart - sweepStart < Window
       /\ passStart <= clock /\ clock <= passStart + SendMax + Polled
       /\ clock - lastSearch < SearchEvery + Polled
  /\ sweep = "test" => passStart <= clock
  /\ sweep \in {"bind", "burst"} => ~rested

SweepInv == SweepTypeOK /\ SeenInv /\ ClockInv /\ SweepSound

LEMMA SweepInitInv == SweepInit => SweepInv
  <1> SUFFICES ASSUME SweepInit PROVE SweepInv  OBVIOUS
  <1>1. /\ sweep = "bind" /\ turn = 1 /\ engines = <<>> /\ clock = 0 /\ sweepStart = 0
        /\ lastSearch = 0 /\ passStart = 0 /\ seenSerials = {} /\ found = <<>> /\ reported = <<>>
        /\ rested = FALSE
    BY DEF SweepInit
  <1>2. SweepTypeOK
    <2>1. engines \in Seq(Nat) /\ Len(engines) = 0 /\ found \in Seq(Device)  BY <1>1
    <2>2. rested \in BOOLEAN  BY <1>1, Zenon
    <2> QED BY <1>1, <2>1, <2>2 DEF SweepTypeOK
  <1>3. SeenInv  BY <1>1 DEF SeenInv
  <1>4. ClockInv  BY <1>1 DEF ClockInv
  <1>5. SweepSound
    BY <1>1 DEF SweepSound, EachPrinterOnce, OnePortIsEnough, SweepKeepsTime, PassTakesTime
  <1> QED BY <1>2, <1>3, <1>4, <1>5 DEF SweepInv

\* How often a sleep worked, of none, one or two.
LEMMA TimesNone == ASSUME NEW b PROVE Times(<<>>, b) = 0
  <1>1. {i \in DOMAIN <<>> : <<>>[i] = b} = {}  OBVIOUS
  <1> QED BY <1>1, FS_EmptySet DEF Times

LEMMA TimesOne == ASSUME NEW x, NEW b PROVE Times(<<x>>, b) = IF x = b THEN 1 ELSE 0
  <1>1. {i \in DOMAIN <<x>> : <<x>>[i] = b} = IF x = b THEN {1} ELSE {}  OBVIOUS
  <1> QED BY <1>1, FS_EmptySet, FS_Singleton DEF Times

LEMMA TimesTwo ==
  ASSUME NEW x, NEW y, NEW b
  PROVE  /\ x = b /\ y = b => Times(<<x, y>>, b) = 2
         /\ x = b /\ y # b => Times(<<x, y>>, b) = 1
         /\ x # b /\ y = b => Times(<<x, y>>, b) = 1
         /\ x # b /\ y # b => Times(<<x, y>>, b) = 0
  <1> DEFINE S == {i \in DOMAIN <<x, y>> : <<x, y>>[i] = b}
  <1>1. DOMAIN <<x, y>> = {1, 2} /\ <<x, y>>[1] = x /\ <<x, y>>[2] = y  OBVIOUS
  <1>2. CASE x = b /\ y = b
    <2>1. S = {1} \cup {2}  BY <1>1, <1>2
    <2>2. IsFiniteSet({1}) /\ Cardinality({1}) = 1  BY FS_Singleton
    <2>3. Cardinality({1} \cup {2}) = Cardinality({1}) + 1  BY <2>2, FS_AddElement
    <2> QED BY <1>2, <2>1, <2>2, <2>3 DEF Times
  <1>3. CASE x = b /\ y # b
    <2>1. S = {1}  BY <1>1, <1>3
    <2> QED BY <1>3, <2>1, FS_Singleton DEF Times
  <1>4. CASE x # b /\ y = b
    <2>1. S = {2}  BY <1>1, <1>4
    <2> QED BY <1>4, <2>1, FS_Singleton DEF Times
  <1>5. CASE x # b /\ y # b
    <2>1. S = {}  BY <1>1, <1>5
    <2> QED BY <1>5, <2>1, FS_EmptySet DEF Times
  <1> QED BY <1>2, <1>3, <1>4, <1>5

LEMMA SleptTimes ==
  ASSUME NEW x \in BOOLEAN, NEW y \in BOOLEAN
  PROVE  /\ SleptIn(<<>>) = 0
         /\ SleptIn(<<x>>) = IF x THEN Backoff ELSE 0
         /\ SleptIn(<<x, y>>) = (IF x THEN Backoff ELSE 0) + (IF y THEN Backoff ELSE 0)
  <1>0. Backoff \in Nat /\ Backoff * 0 = 0 /\ Backoff * 1 = Backoff /\ Backoff * 2 = Backoff + Backoff
    BY SweepAssumption
  <1>1. SleptIn(<<>>) = 0  BY <1>0, TimesNone DEF SleptIn
  <1>2. Times(<<x>>, TRUE) = IF x THEN 1 ELSE 0
    <2>1. Times(<<x>>, TRUE) = IF x = TRUE THEN 1 ELSE 0  BY TimesOne
    <2> QED BY <2>1
  <1>3. SleptIn(<<x>>) = IF x THEN Backoff ELSE 0  BY <1>0, <1>2 DEF SleptIn
  <1>4. /\ x /\ y => Times(<<x, y>>, TRUE) = 2
        /\ x /\ ~y => Times(<<x, y>>, TRUE) = 1
        /\ ~x /\ y => Times(<<x, y>>, TRUE) = 1
        /\ ~x /\ ~y => Times(<<x, y>>, TRUE) = 0
    <2>1. (x = TRUE <=> x) /\ (y = TRUE <=> y)  OBVIOUS
    <2>2. /\ x = TRUE /\ y = TRUE => Times(<<x, y>>, TRUE) = 2
          /\ x = TRUE /\ y # TRUE => Times(<<x, y>>, TRUE) = 1
          /\ x # TRUE /\ y = TRUE => Times(<<x, y>>, TRUE) = 1
          /\ x # TRUE /\ y # TRUE => Times(<<x, y>>, TRUE) = 0
      BY TimesTwo, Zenon
    <2> QED BY <2>1, <2>2, Zenon
  <1>5. SleptIn(<<x, y>>) = (IF x THEN Backoff ELSE 0) + (IF y THEN Backoff ELSE 0)
    <2> DEFINE k == Times(<<x, y>>, TRUE)
    <2>0. SleptIn(<<x, y>>) = Backoff * k  BY DEF SleptIn
    <2> HIDE DEF k
    <2>1. CASE x /\ y
      <3>1. k = 2  BY <1>4, <2>1 DEF k
      <3> QED BY <1>0, <2>0, <2>1, <3>1
    <2>2. CASE x /\ ~y
      <3>1. k = 1  BY <1>4, <2>2 DEF k
      <3> QED BY <1>0, <2>0, <2>2, <3>1
    <2>3. CASE ~x /\ y
      <3>1. k = 1  BY <1>4, <2>3 DEF k
      <3> QED BY <1>0, <2>0, <2>3, <3>1
    <2>4. CASE ~x /\ ~y
      <3>1. k = 0  BY <1>4, <2>4 DEF k
      <3> QED BY <1>0, <2>0, <2>4, <3>1
    <2> QED BY <2>1, <2>2, <2>3, <2>4
  <1> QED BY <1>1, <1>3, <1>5

LEMMA JoinOne ==
  ASSUME NEW x, NEW y
  PROVE  <<x>> \o <<y>> = <<x, y>> /\ <<>> \o <<y>> = <<y>>
  <1>1. <<x>> \o <<y>> = <<x, y>>
    <2> DEFINE S == {x, y}
               j == <<x>> \o <<y>>
    <2>1. <<x>> \in Seq(S) /\ <<y>> \in Seq(S) /\ <<x, y>> \in Seq(S)  OBVIOUS
    <2>2. /\ Len(<<x>>) = 1 /\ Len(<<y>>) = 1 /\ Len(<<x, y>>) = 2
          /\ <<x>>[1] = x /\ <<y>>[1] = y /\ <<x, y>>[1] = x /\ <<x, y>>[2] = y
      OBVIOUS
    <2>3. j \in Seq(S) /\ Len(j) = 2 /\ j[1] = x /\ j[2] = y
      <3>1. /\ j \in Seq(S) /\ Len(j) = Len(<<x>>) + Len(<<y>>)
            /\ \A i \in 1..(Len(<<x>>) + Len(<<y>>)) :
                 j[i] = IF i <= Len(<<x>>) THEN <<x>>[i] ELSE <<y>>[i - Len(<<x>>)]
        BY <2>1, ConcatProperties
      <3> QED BY <2>2, <3>1
    <2> HIDE DEF j
    <2>4. \A i \in 1..Len(j) : j[i] = <<x, y>>[i]  BY <2>2, <2>3
    <2> QED BY <2>1, <2>2, <2>3, <2>4, SeqEqual DEF j
  <1>2. <<y>> \in Seq({y})  OBVIOUS
  <1>3. <<>> \o <<y>> = <<y>>  BY <1>2, ConcatEmptySeq
  <1> QED BY <1>1, <1>3

\* One poll with its sleeps takes at most PollMax, and the last poll of a pass
\* leaves the clock where the pass began only when a sleep failed.
LEMMA PollTime ==
  ASSUME clock \in Nat, passStart \in Nat, passStart <= clock,
         NEW spent \in 0..ReceiveMax, NEW failed \in BOOLEAN, NEW ok1 \in BOOLEAN, NEW ok2 \in BOOLEAN
  PROVE  LET sleeps == SleepsAfter(spent, failed, ok1, ok2) IN
         /\ SleptIn(sleeps) \in Nat /\ spent + SleptIn(sleeps) <= PollMax
         /\ (turn = Len(engines) /\ FALSE \notin ToSet(sleeps)) =>
              passStart < clock + spent + SleptIn(sleeps)
  <1> DEFINE backoff == IF failed THEN <<ok1>> ELSE <<>>
             b == SleptIn(backoff)
             sleeps == SleepsAfter(spent, failed, ok1, ok2)
             paused == Pause(spent + b)
  <1>0. ReceiveMax \in Nat /\ Backoff \in Nat /\ Backoff > 0 /\ spent \in Nat /\ spent <= ReceiveMax
    BY SweepAssumption
  <1>1. b = IF failed /\ ok1 THEN Backoff ELSE 0
    BY SleptTimes
  <1>2. sleeps = backoff \o (IF paused THEN <<ok2>> ELSE <<>>)
    BY DEF SleepsAfter
  <1>3. paused <=> (turn = Len(engines) /\ clock + (spent + b) = passStart)
    BY DEF Pause
  <1> HIDE DEF paused, b
  <1>4. CASE ~paused
    <2>1. sleeps = backoff  BY <1>2, <1>4
    <2>2. SleptIn(sleeps) = b  BY <2>1 DEF b
    <2>3. b \in Nat /\ spent + b <= PollMax  BY <1>0, <1>1 DEF PollMax
    <2>4. turn = Len(engines) => clock + (spent + b) # passStart  BY <1>3, <1>4
    <2> HIDE DEF sleeps
    <2>5. turn = Len(engines) => passStart < clock + spent + SleptIn(sleeps)
      BY <1>0, <2>2, <2>3, <2>4
    <2> QED BY <2>2, <2>3, <2>5 DEF sleeps
  <1>5. CASE paused
    <2>1. spent = 0 /\ b = 0  BY <1>0, <1>1, <1>3, <1>5
    <2>2. ~(failed /\ ok1)  BY <1>0, <1>1, <2>1
    <2>3. sleeps = IF failed THEN <<ok1, ok2>> ELSE <<ok2>>
      <3>1. <<ok1>> \o <<ok2>> = <<ok1, ok2>> /\ <<>> \o <<ok2>> = <<ok2>>  BY JoinOne
      <3> QED BY <1>2, <1>5, <3>1
    <2>4. SleptIn(sleeps) = IF ok2 THEN Backoff ELSE 0
      <3>1. CASE failed
        <4>1. ~ok1 /\ sleeps = <<ok1, ok2>>  BY <2>2, <2>3, <3>1
        <4>2. SleptIn(<<ok1, ok2>>) = 0 + (IF ok2 THEN Backoff ELSE 0)  BY <4>1, SleptTimes
        <4> QED BY <1>0, <4>1, <4>2
      <3>2. CASE ~failed  BY <2>3, <3>2, SleptTimes
      <3> QED BY <3>1, <3>2
    <2>5. ~ok2 => FALSE \in ToSet(sleeps)
      <3>1. CASE failed
        <4>1. 2 \in DOMAIN <<ok1, ok2>> /\ <<ok1, ok2>>[2] = ok2  OBVIOUS
        <4> QED BY <2>3, <3>1, <4>1 DEF ToSet
      <3>2. CASE ~failed
        <4>1. 1 \in DOMAIN <<ok2>> /\ <<ok2>>[1] = ok2  OBVIOUS
        <4> QED BY <2>3, <3>2, <4>1 DEF ToSet
      <3> QED BY <3>1, <3>2
    <2> HIDE DEF sleeps
    <2>6. SleptIn(sleeps) \in Nat /\ spent + SleptIn(sleeps) <= PollMax
      BY <1>0, <2>1, <2>4 DEF PollMax
    <2>7. FALSE \notin ToSet(sleeps) => passStart < clock + spent + SleptIn(sleeps)
      <3> SUFFICES ASSUME FALSE \notin ToSet(sleeps) PROVE passStart < clock + spent + SleptIn(sleeps)
        OBVIOUS
      <3>1. SleptIn(sleeps) = Backoff  BY <2>4, <2>5
      <3> QED BY <1>0, <2>1, <3>1
    <2> QED BY <2>6, <2>7 DEF sleeps
  <1> QED BY <1>4, <1>5

LEMMA PassLength ==
  ASSUME Len(engines) \in 1..2
  PROVE  /\ PollMax \in Nat /\ PollMax > 0 /\ SendMax \in Nat /\ Window \in Nat
         /\ SearchEvery \in Nat /\ SearchEvery > 0
         /\ LongestPass = SendMax + (IF Len(engines) = 2 THEN PollMax + PollMax ELSE PollMax)
  <1>1. /\ PollMax \in Nat /\ PollMax > 0 /\ SendMax \in Nat /\ Window \in Nat
        /\ SearchEvery \in Nat /\ SearchEvery > 0
    BY SweepAssumption DEF PollMax
  <1>2. LongestPass = SendMax + (Len(engines) * PollMax)  BY DEF LongestPass, PollMax
  <1>3. 1 * PollMax = PollMax /\ 2 * PollMax = PollMax + PollMax  BY <1>1
  <1>4. Len(engines) = 1 \/ Len(engines) = 2  OBVIOUS
  <1> QED BY <1>1, <1>2, <1>3, <1>4

\* A step that hears no printer keeps the devices.
LEMMA DevicesKept ==
  ASSUME SweepInv, UNCHANGED <<seenSerials, found, reported>>
  PROVE  found' \in Seq(Device) /\ SeenInv' /\ EachPrinterOnce'
  BY DEF SweepInv, SweepTypeOK, SeenInv, SweepSound, EachPrinterOnce

LEMMA BindStep ==
  ASSUME SweepInv, NEW ok \in BOOLEAN, BindPort(ok)
  PROVE  SweepInv'
  <1>1. /\ sweep = "bind" /\ turn \in 1..2 /\ engines \in Seq(Nat) /\ Len(engines) < turn
        /\ Len(engines) \in Nat /\ ~rested
    BY DEF BindPort, SweepInv, SweepTypeOK, ClockInv
  <1>2. UNCHANGED <<clock, sweepStart, lastSearch, passStart, seenSerials, found, reported, rested>>
    BY DEF BindPort
  <1>3. Ports[turn] \in Nat /\ Len(Ports) = 2  BY <1>1 DEF Ports
  <1>4. engines' \in Seq(Nat) /\ Len(engines') \in Nat /\ Len(engines') <= turn
    <2>1. CASE ok
      <3>1. engines' = Append(engines, Ports[turn])  BY <2>1 DEF BindPort
      <3> QED BY <1>1, <1>3, <3>1, AppendProperties
    <2>2. CASE ~ok
      <3>1. engines' = engines  BY <2>2 DEF BindPort
      <3> QED BY <1>1, <3>1
    <2> QED BY <2>1, <2>2
  <1>7. clock \in Nat /\ sweepStart \in Nat /\ lastSearch \in Nat /\ passStart \in Nat
        /\ rested \in BOOLEAN
    BY DEF SweepInv, SweepTypeOK
  <1>5. CASE turn = 1
    <2>1. sweep' = "bind" /\ turn' = 2  BY <1>3, <1>5 DEF BindPort, AfterBind
    <2>2. SweepTypeOK'
      <3>0. PICK n \in Nat : n = Len(engines')  BY <1>4
      <3>2. n <= 1  BY <1>4, <1>5, <3>0
      <3>3. n \in 0..2 /\ n < 2  BY <3>2
      <3>1. Len(engines') \in 0..2 /\ Len(engines') < 2  BY <3>0, <3>3
      <3> QED BY <1>2, <1>4, <1>7, <2>1, <3>1, DevicesKept DEF SweepTypeOK
    <2>3. ClockInv'  BY <1>1, <1>2, <2>1 DEF ClockInv
    <2>4. SweepSound'
      BY <1>2, <2>1, DevicesKept DEF SweepSound, OnePortIsEnough, SweepKeepsTime, PassTakesTime
    <2> QED BY <1>2, <2>2, <2>3, <2>4, DevicesKept DEF SweepInv
  <1>6. CASE turn = 2
    <2>1. turn' = 1 /\ sweep' = IF engines' = <<>> THEN "failed" ELSE "burst"
      BY <1>3, <1>6 DEF BindPort, AfterBind
    <2>2. engines' # <<>> => Len(engines') \in 1..2
      <3>1. engines' # <<>> => Len(engines') # 0  BY <1>4, EmptySeq
      <3>2. PICK n \in Nat : n = Len(engines')  BY <1>4
      <3>3. n <= 2  BY <1>4, <1>6, <3>2
      <3>4. n # 0 => n \in 1..2  BY <3>3
      <3> QED BY <3>1, <3>2, <3>4
    <2>3. SweepTypeOK'
      <3>0. PICK n \in Nat : n = Len(engines')  BY <1>4
      <3>2. n <= 2  BY <1>4, <1>6, <3>0
      <3>1. Len(engines') \in 0..2  BY <3>0, <3>2
      <3> QED BY <1>2, <1>4, <1>7, <2>1, <2>2, <3>1, DevicesKept DEF SweepTypeOK
    <2>4. ClockInv'  BY <1>1, <1>2, <2>1 DEF ClockInv
    <2>5. SweepSound'
      BY <1>2, <2>1, DevicesKept DEF SweepSound, OnePortIsEnough, SweepKeepsTime, PassTakesTime
    <2> QED BY <1>2, <2>3, <2>4, <2>5, DevicesKept DEF SweepInv
  <1> QED BY <1>1, <1>5, <1>6

LEMMA BurstStep ==
  ASSUME SweepInv, NEW send \in 0..SendMax, NEW slept \in BOOLEAN, InitialBurst(send, slept)
  PROVE  SweepInv'
  <1>1. /\ sweep = "burst" /\ Len(engines) \in 1..2 /\ ~rested
        /\ clock \in Nat /\ sweepStart \in Nat /\ lastSearch \in Nat /\ passStart \in Nat
        /\ engines \in Seq(Nat) /\ rested \in BOOLEAN
    BY DEF InitialBurst, SweepInv, SweepTypeOK, ClockInv
  <1>2. UNCHANGED <<engines, seenSerials, found, reported, rested>>  BY DEF InitialBurst
  <1>3. clock' \in Nat
    <2>0. SleptIn(<<slept>>) = IF slept THEN Backoff ELSE 0  BY SleptTimes
    <2>1. SleptIn(<<slept>>) \in Nat  BY <2>0, SweepAssumption
    <2>2. clock' = clock + send + SleptIn(<<slept>>)  BY DEF InitialBurst, Pace
    <2>3. send \in Nat  BY SweepAssumption
    <2> QED BY <1>1, <2>1, <2>2, <2>3
  <1>4. CASE UNCHANGED <<sweep, sweepStart, lastSearch, passStart>>
    <2>1. SweepTypeOK'  BY <1>1, <1>2, <1>3, <1>4, DevicesKept DEF SweepTypeOK
    <2>2. ClockInv'  BY <1>1, <1>2, <1>4 DEF ClockInv
    <2>3. SweepSound'
      BY <1>1, <1>2, <1>4, DevicesKept DEF SweepSound, OnePortIsEnough, SweepKeepsTime, PassTakesTime
    <2> QED BY <1>2, <2>1, <2>2, <2>3, DevicesKept DEF SweepInv
  <1>5. CASE sweep' = "test" /\ turn' = 1 /\ sweepStart' = clock' /\ lastSearch' = clock' /\ passStart' = clock'
    <2>1. SweepTypeOK'  BY <1>1, <1>2, <1>3, <1>5, DevicesKept DEF SweepTypeOK
    <2>2. ClockInv'  BY <1>1, <1>2, <1>3, <1>5 DEF ClockInv
    <2>3. SweepKeepsTime'
      <3>1. LongestPass' = LongestPass  BY <1>2 DEF LongestPass
      <3>2. LongestPass \in Nat /\ LongestPass > 0  BY <1>1, PassLength
      <3>3. 0 < Window + LongestPass /\ 0 < SearchEvery + LongestPass  BY <1>1, <3>2, PassLength
      <3>4. \A c \in Nat : c - c = 0  OBVIOUS
      <3>5. clock' - sweepStart' = 0 /\ clock' - lastSearch' = 0  BY <1>3, <1>5, <3>4
      <3> QED BY <3>1, <3>3, <3>5 DEF SweepKeepsTime
    <2>4. SweepSound'
      BY <1>1, <1>2, <1>5, <2>3, DevicesKept DEF SweepSound, OnePortIsEnough, PassTakesTime
    <2> QED BY <1>2, <2>1, <2>2, <2>4, DevicesKept DEF SweepInv
  <1> QED BY <1>4, <1>5 DEF InitialBurst

LEMMA PassStep ==
  ASSUME SweepInv, NEW send \in 0..SendMax, BeginPass(send)
  PROVE  SweepInv'
  <1>1. /\ sweep = "test" /\ Len(engines) \in 1..2
        /\ clock \in Nat /\ sweepStart \in Nat /\ lastSearch \in Nat /\ passStart \in Nat
        /\ engines \in Seq(Nat)
    BY DEF BeginPass, SweepInv, SweepTypeOK
  <1>2. /\ UNCHANGED <<engines, seenSerials, found, reported, sweepStart>>
        /\ sweep' = "poll" /\ turn' = 1 /\ rested' = TRUE /\ passStart' = clock
        /\ clock - sweepStart < Window
    BY DEF BeginPass, WindowOpen
  <1>3. send \in Nat /\ send <= SendMax /\ SearchEvery \in Nat /\ SearchEvery > 0 /\ SendMax \in Nat
        /\ Window \in Nat
    BY SweepAssumption
  <1>4. /\ clock' \in Nat /\ lastSearch' \in Nat /\ clock <= clock' /\ clock' <= clock + SendMax
        /\ clock' - lastSearch' < SearchEvery
    <2>1. CASE SearchDue
      <3>1. clock' = clock + send /\ lastSearch' = clock'  BY <2>1 DEF BeginPass
      <3> QED BY <1>1, <1>3, <3>1
    <2>2. CASE ~SearchDue
      <3>1. UNCHANGED <<clock, lastSearch>>  BY <2>2 DEF BeginPass
      <3>2. clock - lastSearch < SearchEvery  BY <1>1, <1>3, <2>2 DEF SearchDue
      <3> QED BY <1>1, <1>3, <3>1, <3>2
    <2> QED BY <2>1, <2>2
  <1>5. SweepTypeOK'
    <2>1. rested' \in BOOLEAN  BY <1>2, Zenon
    <2>2. engines' \in Seq(Nat) /\ Len(engines') \in 1..2 /\ Len(engines') \in 0..2
          /\ turn' \in 1..Len(engines')
      BY <1>1, <1>2
    <2> QED BY <1>1, <1>2, <1>4, <2>1, <2>2, DevicesKept DEF SweepTypeOK
  <1>6. Polled' = 0  BY <1>2 DEF Polled
  <1>10. PICK c \in Nat, l \in Nat : c = clock' /\ l = lastSearch'  BY <1>4
  <1>11. clock <= c /\ c <= clock + SendMax /\ c - l < SearchEvery  BY <1>4, <1>10
  <1>7. ClockInv'
    <2>1. passStart' - sweepStart' < Window /\ passStart' <= clock'  BY <1>2, <1>4
    <2>2. clock' <= passStart' + SendMax + Polled'  BY <1>1, <1>2, <1>3, <1>4, <1>6
    <2>4. c - l < SearchEvery + 0  BY <1>3, <1>11
    <2>3. clock' - lastSearch' < SearchEvery + Polled'  BY <1>6, <1>10, <2>4
    <2> QED BY <1>2, <2>1, <2>2, <2>3 DEF ClockInv
  <1>8. SweepKeepsTime'
    <2>1. LongestPass' = LongestPass  BY <1>2 DEF LongestPass
    <2>2. LongestPass \in Nat /\ LongestPass > SendMax  BY <1>1, <1>3, PassLength
    <2>3. PICK p \in Nat : p = LongestPass  BY <2>2
    <2>4. c - sweepStart < Window + p  BY <1>1, <1>2, <1>3, <1>11, <2>2, <2>3
    <2>5. c - l < SearchEvery + p  BY <1>3, <1>11, <2>2, <2>3
    <2> QED BY <1>2, <1>10, <2>1, <2>3, <2>4, <2>5 DEF SweepKeepsTime
  <1>9. SweepSound'
    BY <1>2, <1>8, DevicesKept DEF SweepSound, OnePortIsEnough, PassTakesTime
  <1> QED BY <1>2, <1>5, <1>7, <1>9, DevicesKept DEF SweepInv

LEMMA EndStep ==
  ASSUME SweepInv, EndSweep
  PROVE  SweepInv'
  <1>1. /\ sweep = "test" /\ sweep' = "done"
        /\ UNCHANGED <<turn, engines, clock, sweepStart, lastSearch, passStart, seenSerials, found,
                       reported, rested>>
    BY DEF EndSweep
  <1>2. SweepTypeOK'  BY <1>1, DevicesKept DEF SweepInv, SweepTypeOK
  <1>3. ClockInv'  BY <1>1 DEF ClockInv
  <1>4. SweepSound'
    BY <1>1, DevicesKept DEF SweepInv, SweepSound, OnePortIsEnough, SweepKeepsTime, PassTakesTime,
                             LongestPass
  <1> QED BY <1>1, <1>2, <1>3, <1>4, DevicesKept DEF SweepInv

\* What a poll hears keeps the devices distinct, indexed and reported.
LEMMA HearStep ==
  ASSUME SweepInv, NEW serial \in Printers, NEW port \in Nat, Hear(serial, port)
  PROVE  found' \in Seq(Device) /\ SeenInv' /\ EachPrinterOnce'
  <1>1. CASE ~NewPrinter(serial, port)
    <2>1. UNCHANGED <<seenSerials, found, reported>>  BY <1>1 DEF Hear
    <2> QED BY <2>1, DevicesKept
  <1>2. CASE NewPrinter(serial, port)
    <2> DEFINE device == [serial |-> serial, port |-> port]
    <2>1. /\ seenSerials' = seenSerials \cup {serial}
          /\ reported' = Append(reported, device) /\ found' = Append(found, device)
      BY <1>2 DEF Hear
    <2>2. device \in Device /\ device.serial = serial  BY DEF Device
    <2>3. /\ found \in Seq(Device) /\ reported = found /\ serial \notin seenSerials
          /\ seenSerials = {found[i].serial : i \in DOMAIN found}
          /\ \A i, j \in DOMAIN found : found[i].serial = found[j].serial => i = j
      BY <1>2 DEF SweepInv, SweepTypeOK, SeenInv, SweepSound, EachPrinterOnce, NewPrinter
    <2> HIDE DEF device
    <2>4. PICK n \in Nat : n = Len(found)  BY <2>3
    <2>5. DOMAIN found = 1..n  BY <2>3, <2>4
    <2>6. /\ found' \in Seq(Device) /\ DOMAIN found' = 1..(n + 1)
          /\ \A i \in 1..n : found'[i] = found[i]
          /\ found'[n + 1] = device
      <3>1. /\ Append(found, device) \in Seq(Device) /\ Len(Append(found, device)) = n + 1
            /\ \A i \in 1..n : Append(found, device)[i] = found[i]
            /\ Append(found, device)[n + 1] = device
        BY <2>2, <2>3, <2>4, AppendProperties
      <3> QED BY <2>1, <3>1
    <2>7. \A i \in 1..n : found[i].serial # serial  BY <2>3, <2>5
    <2>8. SeenInv'
      <3>1. {found'[i].serial : i \in DOMAIN found'} = {found[i].serial : i \in DOMAIN found} \cup {serial}
        BY <2>2, <2>5, <2>6
      <3> QED BY <2>1, <2>3, <3>1 DEF SeenInv
    <2>9. EachPrinterOnce'
      <3>1. \A i, j \in 1..(n + 1) : found'[i].serial = found'[j].serial => i = j
        BY <2>2, <2>3, <2>5, <2>6, <2>7
      <3> QED BY <2>1, <2>3, <2>6, <3>1 DEF EachPrinterOnce
    <2> QED BY <2>6, <2>8, <2>9
  <1> QED BY <1>1, <1>2

LEMMA PollStep ==
  ASSUME SweepInv, NEW spent \in 0..ReceiveMax, NEW failed \in BOOLEAN, NEW ok1 \in BOOLEAN,
         NEW ok2 \in BOOLEAN, PollEngine(spent, failed, ok1, ok2)
  PROVE  SweepInv'
  <1> DEFINE sleeps == SleepsAfter(spent, failed, ok1, ok2)
  <1>1. /\ sweep = "poll" /\ Len(engines) \in 1..2 /\ turn \in 1..Len(engines)
        /\ clock \in Nat /\ sweepStart \in Nat /\ lastSearch \in Nat /\ passStart \in Nat
        /\ engines \in Seq(Nat) /\ rested \in BOOLEAN
    BY DEF PollEngine, SweepInv, SweepTypeOK
  <1>2. /\ passStart - sweepStart < Window /\ passStart <= clock
        /\ clock <= passStart + SendMax + Polled /\ clock - lastSearch < SearchEvery + Polled
    BY <1>1 DEF SweepInv, ClockInv
  <1>3. /\ UNCHANGED <<engines, sweepStart, lastSearch, passStart>>
        /\ clock' = clock + spent + SleptIn(sleeps)
        /\ rested' = (rested /\ FALSE \notin ToSet(sleeps))
        /\ IF turn < Len(engines) THEN turn' = turn + 1 /\ UNCHANGED sweep
           ELSE turn' = 1 /\ sweep' = "test"
    BY DEF PollEngine, Pace
  <1>4. found' \in Seq(Device) /\ SeenInv' /\ EachPrinterOnce'
    <2>1. CASE UNCHANGED <<seenSerials, found, reported>>  BY <2>1, DevicesKept
    <2>2. CASE \E serial \in Printers : Hear(serial, engines[turn])
      <3>1. engines[turn] \in Nat  BY <1>1, ElementOfSeq
      <3> QED BY <2>2, <3>1, HearStep
    <2> QED BY <2>1, <2>2 DEF PollEngine
  <1>5. PICK d \in Nat, c \in Nat :
          /\ d <= PollMax /\ c = clock + d /\ c = clock'
          /\ (turn = Len(engines) /\ FALSE \notin ToSet(sleeps)) => passStart < c
    <2>1. /\ SleptIn(sleeps) \in Nat /\ spent + SleptIn(sleeps) <= PollMax
          /\ (turn = Len(engines) /\ FALSE \notin ToSet(sleeps)) =>
               passStart < clock + spent + SleptIn(sleeps)
      BY <1>1, <1>2, PollTime
    <2> HIDE DEF sleeps
    <2>2. PICK s \in Nat : s = SleptIn(sleeps)  BY <2>1
    <2>3. spent \in Nat  BY SweepAssumption
    <2>4. spent + s \in Nat /\ clock + spent + s \in Nat /\ clock + spent + s = clock + (spent + s)
      BY <1>1, <2>3
    <2> QED BY <1>3, <2>1, <2>2, <2>4
  <1> HIDE DEF sleeps
  <1>6. rested' \in BOOLEAN  BY <1>3, Zenon
  <1>7. /\ PollMax \in Nat /\ PollMax > 0 /\ SendMax \in Nat /\ Window \in Nat
        /\ SearchEvery \in Nat /\ SearchEvery > 0
        /\ LongestPass = SendMax + (IF Len(engines) = 2 THEN PollMax + PollMax ELSE PollMax)
    BY <1>1, PassLength
  <1>8. LongestPass' = LongestPass  BY <1>3 DEF LongestPass
  <1>9. CASE turn < Len(engines)
    <2>0. turn = 1 /\ Len(engines) = 2
      <3>1. PICK n \in 1..2 : n = Len(engines)  BY <1>1
      <3>2. PICK k \in 1..n : k = turn  BY <1>1, <3>1
      <3>3. k < n  BY <1>9, <3>1, <3>2
      <3>4. k = 1 /\ n = 2  BY <3>3
      <3> QED BY <3>1, <3>2, <3>4
    <2>1. turn = 1 /\ Len(engines) = 2 /\ turn' = 2 /\ sweep' = "poll"  BY <1>1, <1>3, <1>9, <2>0
    <2>2. Polled = 0 /\ Polled' = PollMax  BY <2>1 DEF Polled, PollMax
    <2>3. SweepTypeOK'
      <3>1. Len(engines') = 2 /\ turn' \in 1..Len(engines')  BY <1>3, <2>1
      <3> QED BY <1>1, <1>3, <1>4, <1>5, <1>6, <2>1, <3>1 DEF SweepTypeOK
    <2>4. /\ passStart <= c /\ c <= passStart + SendMax + PollMax
          /\ c - lastSearch < SearchEvery + PollMax
      BY <1>1, <1>2, <1>5, <1>7, <2>2
    <2>5. ClockInv'  BY <1>2, <1>3, <1>5, <2>1, <2>2, <2>4 DEF ClockInv
    <2>6. SweepKeepsTime'
      <3>1. LongestPass = SendMax + (PollMax + PollMax)  BY <1>7, <2>1
      <3>2. c - sweepStart < Window + LongestPass /\ c - lastSearch < SearchEvery + LongestPass
        BY <1>1, <1>2, <1>7, <2>4, <3>1
      <3> QED BY <1>3, <1>5, <1>8, <3>2 DEF SweepKeepsTime
    <2>7. SweepSound'
      BY <1>4, <2>1, <2>6 DEF SweepSound, OnePortIsEnough, PassTakesTime
    <2> QED BY <1>4, <2>3, <2>5, <2>7 DEF SweepInv
  <1>10. CASE ~(turn < Len(engines))
    <2>1. turn = Len(engines) /\ turn' = 1 /\ sweep' = "test"  BY <1>1, <1>3, <1>10
    <2>2. LongestPass = SendMax + Polled + PollMax /\ Polled \in Nat
      BY <1>1, <1>7, <2>1 DEF Polled
    <2>3. SweepTypeOK'
      <3>1. Len(engines') \in 1..2 /\ Len(engines') \in 0..2  BY <1>1, <1>3
      <3> QED BY <1>1, <1>3, <1>4, <1>5, <1>6, <2>1, <3>1 DEF SweepTypeOK
    <2>4. passStart <= c  BY <1>1, <1>2, <1>5
    <2>5. ClockInv'  BY <1>3, <1>5, <2>1, <2>4 DEF ClockInv
    <2>6. SweepKeepsTime'
      <3>0. PICK q \in Nat : q = Polled  BY <2>2
      <3>1. LongestPass = SendMax + q + PollMax  BY <2>2, <3>0
      <3>2. c - sweepStart < Window + LongestPass /\ c - lastSearch < SearchEvery + LongestPass
        BY <1>1, <1>2, <1>5, <1>7, <3>0, <3>1
      <3> QED BY <1>3, <1>5, <1>8, <3>2 DEF SweepKeepsTime
    <2>7. PassTakesTime'
      <3>1. rested' => passStart < c  BY <1>3, <1>5, <2>1
      <3>2. rested' => c > passStart  BY <1>1, <3>1
      <3> QED BY <1>3, <1>5, <3>2 DEF PassTakesTime
    <2>8. SweepSound'
      BY <1>4, <2>1, <2>6, <2>7 DEF SweepSound, OnePortIsEnough
    <2> QED BY <1>4, <2>3, <2>5, <2>8 DEF SweepInv
  <1> QED BY <1>9, <1>10

LEMMA SweepStep == SweepInv /\ [SweepNext]_sweepVars => SweepInv'
  <1> SUFFICES ASSUME SweepInv, [SweepNext]_sweepVars PROVE SweepInv'  OBVIOUS
  <1>1. CASE \E b \in BOOLEAN : BindPort(b)  BY <1>1, BindStep
  <1>2. CASE \E t \in 0..SendMax : BeginPass(t)  BY <1>2, PassStep
  <1>3. CASE \E t \in 0..SendMax : \E b \in BOOLEAN : InitialBurst(t, b)  BY <1>3, BurstStep
  <1>4. CASE \E t \in 0..ReceiveMax, failed, ok1, ok2 \in BOOLEAN : PollEngine(t, failed, ok1, ok2)
    BY <1>4, PollStep
  <1>5. CASE EndSweep  BY <1>5, EndStep
  <1>6. CASE UNCHANGED sweepVars
    BY <1>6 DEF sweepVars, SweepInv, SweepTypeOK, SeenInv, ClockInv, Polled, SweepSound, EachPrinterOnce,
                OnePortIsEnough, SweepKeepsTime, PassTakesTime, LongestPass
  <1> QED BY <1>1, <1>2, <1>3, <1>4, <1>5, <1>6 DEF SweepNext

\* discover_devices_with finds each printer once, works with one port, keeps to its
\* window and its search interval and never spins, whichever of its binds, sends,
\* receives and sleeps fail, provided each send returns within SendMax and each
\* receive within ReceiveMax, whatever those are (discovery/mod.rs).
THEOREM SweepTheorem == SweepSpec => []SweepSound
  <1>1. SweepInv => SweepSound  BY DEF SweepInv
  <1> QED BY <1>1, SweepInitInv, SweepStep, PTL DEF SweepSpec

----------------------------------------------------------------------------
(* Induction over the naturals, and encode_remaining_length                 *)

\* Induction over the naturals, for a set instead of a formula.
LEMMA NatSets ==
  ASSUME NEW S, 0 \in S, \A n \in Nat : n \in S => n + 1 \in S
  PROVE  Nat \subseteq S
  <1> DEFINE T == Nat \ S
             R == {ss \in Nat \X Nat : ss[1] < ss[2]}
  <1> SUFFICES ASSUME T # {} PROVE FALSE  OBVIOUS
  <1>0. IsWellFoundedOn(R, Nat) BY NatLessThanWellFounded DEF OpToRel
  <1>1. PICK x \in T : \A y \in T : ~(<<y, x>> \in R)
    <2> HIDE DEF R
    <2> QED BY <1>0, WFMin
  <1>2. x # 0 /\ x - 1 \in Nat  OBVIOUS
  <1>3. <<x - 1, x>> \in R  BY <1>2
  <1>4. x - 1 \notin T  BY <1>1, <1>3
  <1> QED BY <1>2, <1>4

LEMMA Division ==
  ASSUME NEW n \in Nat
  PROVE  /\ n \div LenBase \in Nat /\ n % LenBase \in 0..(LenBase - 1)
         /\ n = (LenBase * (n \div LenBase)) + (n % LenBase)
         /\ n >= LenBase => n \div LenBase < n /\ n \div LenBase > 0
  <1>1. LenBase \in Nat /\ LenBase > 1  BY FrameAssumption
  <1>2. n \div LenBase \in Nat /\ n % LenBase \in 0..(LenBase - 1)  BY <1>1
  <1>3. n = (LenBase * (n \div LenBase)) + (n % LenBase)  BY <1>1
  <1>4. ASSUME n >= LenBase PROVE n \div LenBase < n /\ n \div LenBase > 0
    <2>1. ASSUME NEW k \in Nat, NEW r \in 0..(LenBase - 1), n = LenBase * k + r
          PROVE  k < n /\ k > 0
      <3>1. k > 0
        <4> SUFFICES ASSUME k = 0 PROVE FALSE  BY <2>1
        <4> QED BY <1>1, <1>4, <2>1
      <3>2. LenBase * k >= 2 * k  BY <1>1, <2>1
      <3> QED BY <3>1, <3>2, <1>1, <2>1
    <2> QED BY <2>1, <1>2, <1>3
  <1> QED BY <1>2, <1>3, <1>4

\* encode_remaining_length's equation, on the numbers below a bound.
Digits(g, n) == IF n < LenBase THEN <<n>> ELSE <<(n % LenBase) + LenBase>> \o g[n \div LenBase]
Encodes(N, g) == g \in [0..N -> Seq(Nat)] /\ \A n \in 0..N : g[n] = Digits(g, n)

LEMMA DigitsTyped ==
  ASSUME NEW n \in Nat, NEW g, n >= LenBase => g[n \div LenBase] \in Seq(Nat)
  PROVE  Digits(g, n) \in Seq(Nat)
  <1>1. n < LenBase => <<n>> \in Seq(Nat)  OBVIOUS
  <1>2. <<(n % LenBase) + LenBase>> \in Seq(Nat)
    <2>1. (n % LenBase) + LenBase \in Nat  BY Division, FrameAssumption
    <2> QED BY <2>1
  <1> QED BY <1>1, <1>2, ConcatProperties, FrameAssumption DEF Digits

LEMMA EncodesUnique ==
  ASSUME NEW M \in Nat, NEW N \in Nat, NEW g, NEW h, Encodes(M, g), Encodes(N, h)
  PROVE  \A n \in Nat : n <= M /\ n <= N => g[n] = h[n]
  <1> DEFINE S == {k \in Nat : \A n \in 0..k : n <= M /\ n <= N => g[n] = h[n]}
  <1>0. \A n \in Nat : n <= M /\ n <= N => g[n] = Digits(g, n) /\ h[n] = Digits(h, n)
    BY DEF Encodes
  <1>1. ASSUME NEW n \in Nat, n < LenBase, n <= M, n <= N PROVE g[n] = h[n]
    <2>1. Digits(g, n) = <<n>> /\ Digits(h, n) = <<n>>  BY <1>1 DEF Digits
    <2> QED BY <1>0, <1>1, <2>1
  <1>2. 0 \in S  BY <1>1, FrameAssumption
  <1>3. ASSUME NEW k \in Nat, k \in S PROVE k + 1 \in S
    <2> SUFFICES ASSUME k + 1 <= M, k + 1 <= N PROVE g[k + 1] = h[k + 1]  BY <1>3
    <2>1. CASE k + 1 < LenBase  BY <2>1, <1>1
    <2>2. CASE k + 1 >= LenBase
      <3>1. (k + 1) \div LenBase \in 0..k  BY <2>2, Division
      <3>2. g[(k + 1) \div LenBase] = h[(k + 1) \div LenBase]  BY <1>3, <3>1
      <3>3. Digits(g, k + 1) = Digits(h, k + 1)  BY <3>2, <2>2, FrameAssumption DEF Digits
      <3> QED BY <3>3, <1>0
    <2> QED BY <2>1, <2>2, FrameAssumption
  <1>4. Nat \subseteq S
    <2> HIDE DEF S
    <2> QED BY <1>2, <1>3, NatSets
  <1> QED BY <1>4

LEMMA EncodesExists == \A N \in Nat : \E g : Encodes(N, g)
  <1> DEFINE S == {N \in Nat : \E g : Encodes(N, g)}
  <1>1. 0 \in S
    <2>1. Encodes(0, [n \in 0..0 |-> <<0>>])  BY FrameAssumption DEF Encodes, Digits
    <2> QED BY <2>1
  <1>2. ASSUME NEW N \in Nat, N \in S PROVE N + 1 \in S
    <2>1. PICK g : Encodes(N, g)  BY <1>2
    <2> DEFINE h == [n \in 0..(N + 1) |-> IF n <= N THEN g[n] ELSE Digits(g, N + 1)]
    <2>2. N + 1 >= LenBase => (N + 1) \div LenBase \in 0..N  BY Division
    <2>3. Digits(g, N + 1) \in Seq(Nat)  BY <2>1, <2>2, DigitsTyped DEF Encodes
    <2>4. h \in [0..(N + 1) -> Seq(Nat)]  BY <2>1, <2>3 DEF Encodes
    <2>5. ASSUME NEW n \in 0..(N + 1) PROVE h[n] = Digits(h, n)
      <3>1. n >= LenBase => n \div LenBase \in 0..N  BY Division
      <3>2. n >= LenBase => h[n \div LenBase] = g[n \div LenBase]  BY <3>1
      <3>3. Digits(h, n) = Digits(g, n)  BY <3>2, FrameAssumption DEF Digits
      <3> QED BY <3>3, <2>1 DEF Encodes
    <2>6. Encodes(N + 1, h)  BY <2>4, <2>5 DEF Encodes
    <2> QED BY <2>6
  <1>3. Nat \subseteq S
    <2> HIDE DEF S
    <2> QED BY <1>1, <1>2, NatSets
  <1> QED BY <1>3

LEMMA EncodeLengthDef ==
  /\ EncodeLength \in [Nat -> Seq(Nat)]
  /\ \A n \in Nat : EncodeLength[n] = Digits(EncodeLength, n)
  <1> DEFINE For(n) == CHOOSE g : Encodes(n, g)
             E == [n \in Nat |-> For(n)[n]]
  <1>1. \A n \in Nat : Encodes(n, For(n))  BY EncodesExists
  <1> HIDE DEF For
  <1>2. \A n \in Nat : E[n] \in Seq(Nat)  BY <1>1 DEF Encodes
  <1>3. ASSUME NEW n \in Nat PROVE E[n] = Digits(E, n)
    <2>1. ASSUME n >= LenBase PROVE For(n)[n \div LenBase] = E[n \div LenBase]
      <3>1. n \div LenBase \in Nat /\ n \div LenBase <= n  BY <2>1, Division
      <3> QED BY <3>1, <1>1, EncodesUnique
    <2>2. Digits(For(n), n) = Digits(E, n)  BY <2>1, FrameAssumption DEF Digits
    <2> QED BY <1>1, <2>2 DEF Encodes
  <1>4. E = [n \in Nat |-> IF n < LenBase THEN <<n>>
                           ELSE <<(n % LenBase) + LenBase>> \o E[n \div LenBase]]
    BY <1>3, Zenon DEF Digits
  <1> HIDE DEF E
  <1>5. EncodeLength = [n \in Nat |-> IF n < LenBase THEN <<n>>
                           ELSE <<(n % LenBase) + LenBase>> \o EncodeLength[n \div LenBase]]
    BY <1>4, Zenon DEF EncodeLength
  <1>6. \A n \in Nat : EncodeLength[n] = Digits(EncodeLength, n)
    BY <1>5, Zenon DEF Digits
  <1>7. DOMAIN EncodeLength = Nat /\ EncodeLength = [n \in Nat |-> EncodeLength[n]]
    BY <1>5, Zenon
  <1> DEFINE S == {k \in Nat : \A n \in 0..k : EncodeLength[n] \in Seq(Nat)}
  <1>8. 0 \in S  BY <1>6, DigitsTyped, FrameAssumption
  <1>9. ASSUME NEW k \in Nat, k \in S PROVE k + 1 \in S
    <2>1. k + 1 >= LenBase => (k + 1) \div LenBase \in 0..k  BY Division
    <2>2. EncodeLength[k + 1] \in Seq(Nat)  BY <2>1, <1>6, <1>9, DigitsTyped
    <2> QED BY <2>2, <1>9
  <1>10. Nat \subseteq S
    <2> HIDE DEF S
    <2> QED BY <1>8, <1>9, NatSets
  <1>11. \A n \in Nat : EncodeLength[n] \in Seq(Nat)  BY <1>10
  <1> QED BY <1>6, <1>7, <1>11

----------------------------------------------------------------------------
(* The bytes of frames joined                                                *)

\* Byte strings, without their inside.
ByteSeq == Seq(Nat)

LEMMA ByteStrings ==
  /\ <<>> \in ByteSeq
  /\ \A a, b \in ByteSeq : a \o b \in ByteSeq
  /\ \A a, b, c \in ByteSeq : (a \o b) \o c = a \o (b \o c)
  /\ \A a \in ByteSeq : a \o <<>> = a /\ <<>> \o a = a
  BY EmptySeq, ConcatProperties, ConcatAssociative, ConcatEmptySeq DEF ByteSeq

\* g[i] is the first i sequences of s, joined.
Joined(s, g) ==
  /\ Len(s) # 0 => g[1] = s[1]
  /\ \A i \in 1..(Len(s) - 1) : g[i + 1] = g[i] \o s[i + 1]
Joins(s, g) == g \in [1..Len(s) -> ByteSeq] /\ Joined(s, g)

LEMMA JoinsExists == \A s \in Seq(ByteSeq) : \E g : Joins(s, g)
  <1> DEFINE S == {n \in Nat : \A s \in Seq(ByteSeq) : Len(s) = n => \E g : Joins(s, g)}
  <1>1. 0 \in S
    <2> SUFFICES ASSUME NEW s \in Seq(ByteSeq), Len(s) = 0 PROVE \E g : Joins(s, g)  OBVIOUS
    <2>1. Joins(s, [i \in 1..Len(s) |-> <<>>])  BY DEF Joins, Joined
    <2> QED BY <2>1
  <1>2. ASSUME NEW n \in Nat, n \in S PROVE n + 1 \in S
    <2> SUFFICES ASSUME NEW s \in Seq(ByteSeq), Len(s) = n + 1 PROVE \E g : Joins(s, g)
      OBVIOUS
    <2> DEFINE t == SubSeq(s, 1, n)
    <2>1. t \in Seq(ByteSeq) /\ Len(t) = n /\ \A i \in 1..n : t[i] = s[i]  OBVIOUS
    <2> HIDE DEF t
    <2>2. PICK g : Joins(t, g)  BY <1>2, <2>1
    <2> DEFINE last == IF n = 0 THEN s[1] ELSE g[n] \o s[n + 1]
               h == [i \in 1..(n + 1) |-> IF i <= n THEN g[i] ELSE last]
    <2>3. \A i \in 1..(n + 1) : s[i] \in ByteSeq  OBVIOUS
    <2>4. g \in [1..n -> ByteSeq]  BY <2>1, <2>2 DEF Joins, Joined
    <2>5. last \in ByteSeq
      <3>1. CASE n = 0  BY <2>3, <3>1
      <3>2. CASE n # 0
        <4>1. g[n] \in ByteSeq /\ s[n + 1] \in ByteSeq  BY <2>3, <2>4, <3>2
        <4> QED BY <4>1, <3>2, ByteStrings
      <3> QED BY <3>1, <3>2
    <2> HIDE DEF last
    <2>6. h \in [1..Len(s) -> ByteSeq]  BY <2>4, <2>5
    <2>7. h[1] = s[1]
      <3>1. CASE n = 0  BY <3>1 DEF last
      <3>2. CASE n # 0  BY <3>2, <2>1, <2>2 DEF Joins, Joined
      <3> QED BY <3>1, <3>2
    <2>8. ASSUME NEW i \in 1..n PROVE h[i + 1] = h[i] \o s[i + 1]
      <3>0. h[i] = g[i]  OBVIOUS
      <3>1. CASE i < n
        <4>1. i \in 1..(Len(t) - 1) /\ i + 1 \in 1..n  BY <3>1, <2>1
        <4>2. g[i + 1] = g[i] \o t[i + 1]  BY <2>2, <4>1 DEF Joins, Joined
        <4>3. t[i + 1] = s[i + 1]  BY <2>1, <4>1
        <4>4. h[i + 1] = g[i + 1]  BY <4>1
        <4> QED BY <3>0, <4>2, <4>3, <4>4
      <3>2. CASE i = n
        <4>1. h[i + 1] = last  BY <3>2
        <4>2. n # 0 /\ s[i + 1] = s[n + 1] /\ h[i] = g[n]  BY <3>0, <3>2
        <4>3. last = g[n] \o s[n + 1]  BY <4>2, Zenon DEF last
        <4> HIDE DEF h
        <4> QED BY <4>1, <4>2, <4>3
      <3>3. i < n \/ i = n  OBVIOUS
      <3> QED BY <3>1, <3>2, <3>3, Zenon
    <2> HIDE DEF h
    <2>9. Joins(s, h)
      <3>1. 1..(Len(s) - 1) = 1..n  OBVIOUS
      <3> QED BY <2>6, <2>7, <2>8, <3>1 DEF Joins, Joined
    <2> QED BY <2>9
  <1>3. Nat \subseteq S
    <2> HIDE DEF S
    <2> QED BY <1>1, <1>2, NatSets
  <1> QED BY <1>3, LenProperties

LEMMA JoinsUnique ==
  ASSUME NEW s \in Seq(ByteSeq), NEW g, NEW h, Joined(s, g), Joined(s, h)
  PROVE  \A i \in 1..Len(s) : g[i] = h[i]
  <1> DEFINE S == {n \in Nat : \A i \in 1..n : i <= Len(s) => g[i] = h[i]}
  <1>1. 0 \in S  OBVIOUS
  <1>2. ASSUME NEW n \in Nat, n \in S PROVE n + 1 \in S
    <2> SUFFICES ASSUME n + 1 <= Len(s) PROVE g[n + 1] = h[n + 1]  BY <1>2
    <2>0. Len(s) \in Nat  OBVIOUS
    <2>1. CASE n = 0  BY <2>0, <2>1 DEF Joins, Joined
    <2>2. CASE n # 0
      <3>1. n \in 1..(Len(s) - 1) /\ n \in 1..n /\ n <= Len(s)  BY <2>0, <2>2
      <3>2. g[n + 1] = g[n] \o s[n + 1] /\ h[n + 1] = h[n] \o s[n + 1]  BY <3>1 DEF Joins, Joined
      <3>3. g[n] = h[n]  BY <1>2, <3>1
      <3> QED BY <3>2, <3>3
    <2> QED BY <2>1, <2>2
  <1>3. Nat \subseteq S
    <2> HIDE DEF S
    <2> QED BY <1>1, <1>2, NatSets
  <1> QED BY <1>3

\* FlattenSeq is the last of the joins of its sequences.
LEMMA FlattenIsJoin ==
  ASSUME NEW s \in Seq(ByteSeq), Len(s) # 0, NEW g, Joins(s, g)
  PROVE  FlattenSeq(s) = g[Len(s)]
  <1> DEFINE f == CHOOSE f : f = [i \in 1..Len(s) |-> IF i = 1 THEN s[i] ELSE f[i - 1] \o s[i]]
  <1>0. Len(s) \in Nat  OBVIOUS
  <1>1. FlattenSeq(s) = f[Len(s)]  BY Zenon DEF FlattenSeq
  <1>2. g = [i \in 1..Len(s) |-> IF i = 1 THEN s[i] ELSE g[i - 1] \o s[i]]
    <2>1. g = [i \in 1..Len(s) |-> g[i]]  BY Zenon DEF Joins, Joined
    <2>2. ASSUME NEW i \in 1..Len(s) PROVE g[i] = IF i = 1 THEN s[i] ELSE g[i - 1] \o s[i]
      <3>1. CASE i = 1  BY <3>1 DEF Joins, Joined
      <3>2. CASE i # 1
        <4>1. i - 1 \in 1..(Len(s) - 1) /\ (i - 1) + 1 = i  BY <3>2, <1>0
        <4>2. g[(i - 1) + 1] = g[i - 1] \o s[(i - 1) + 1]  BY <4>1, Zenon DEF Joins, Joined
        <4> QED BY <3>2, <4>1, <4>2
      <3> QED BY <3>1, <3>2
    <2> QED BY <2>1, <2>2, Zenon
  <1>3. f = [i \in 1..Len(s) |-> IF i = 1 THEN s[i] ELSE f[i - 1] \o s[i]]  BY <1>2, Zenon
  <1> HIDE DEF f
  <1>4. \A i \in 1..Len(s) : f[i] = IF i = 1 THEN s[i] ELSE f[i - 1] \o s[i]  BY <1>3, Zenon
  <1>5. f[1] = s[1]  BY <1>0, <1>4
  <1>6. ASSUME NEW i \in 1..(Len(s) - 1) PROVE f[i + 1] = f[i] \o s[i + 1]
    <2>1. i + 1 \in 1..Len(s) /\ i + 1 # 1 /\ (i + 1) - 1 = i  BY <1>0
    <2>2. f[i + 1] = f[(i + 1) - 1] \o s[i + 1]  BY <1>4, <2>1, Zenon
    <2> QED BY <2>1, <2>2
  <1>7. \A i \in 1..Len(s) : g[i] = f[i]
    <2>1. Joined(s, f)  BY <1>5, <1>6, Zenon DEF Joined
    <2>2. Joined(s, g)  BY DEF Joins
    <2> QED BY <2>1, <2>2, JoinsUnique
  <1>8. Len(s) \in 1..Len(s)  BY <1>0
  <1> QED BY <1>1, <1>7, <1>8

LEMMA FlattenTyped ==
  /\ FlattenSeq(<<>>) = <<>>
  /\ \A s \in Seq(ByteSeq) : FlattenSeq(s) \in ByteSeq
  <1>1. FlattenSeq(<<>>) = <<>>
    <2>1. Len(<<>>) = 0  OBVIOUS
    <2> QED BY <2>1, Zenon DEF FlattenSeq
  <1>2. ASSUME NEW s \in Seq(ByteSeq) PROVE FlattenSeq(s) \in ByteSeq
    <2>1. CASE Len(s) = 0
      <3>1. s = <<>>  BY <2>1, EmptySeq
      <3> QED BY <3>1, <1>1, ByteStrings
    <2>2. CASE Len(s) # 0
      <3>1. PICK g : Joins(s, g)  BY JoinsExists
      <3>2. FlattenSeq(s) = g[Len(s)]  BY <2>2, <3>1, FlattenIsJoin
      <3>3. Len(s) \in 1..Len(s)  BY <2>2, LenProperties
      <3>4. g \in [1..Len(s) -> ByteSeq]  BY <3>1 DEF Joins, Joined
      <3>5. g[Len(s)] \in ByteSeq  BY <3>3, <3>4
      <3> QED BY <3>2, <3>5
    <2> QED BY <2>1, <2>2
  <1> QED BY <1>1, <1>2

LEMMA FlattenAppend ==
  ASSUME NEW s \in Seq(ByteSeq), NEW x \in ByteSeq
  PROVE  FlattenSeq(Append(s, x)) = FlattenSeq(s) \o x
  <1> DEFINE t == Append(s, x)
  <1>1. t \in Seq(ByteSeq) /\ Len(t) = Len(s) + 1 /\ t[Len(s) + 1] = x
        /\ \A i \in 1..Len(s) : t[i] = s[i]
    BY AppendProperties
  <1>2. Len(s) \in Nat  OBVIOUS
  <1> HIDE DEF t
  <1>3. PICK g : Joins(t, g)  BY <1>1, JoinsExists
  <1>4. FlattenSeq(t) = g[Len(s) + 1]  BY <1>1, <1>2, <1>3, FlattenIsJoin
  <1>5. CASE Len(s) = 0
    <2>1. s = <<>>  BY <1>5, EmptySeq
    <2>2. g[1] = x  BY <1>1, <1>3, <1>5 DEF Joins, Joined
    <2>3. FlattenSeq(s) \o x = x  BY <2>1, FlattenTyped, ByteStrings
    <2>4. FlattenSeq(t) = g[1]  BY <1>4, <1>5
    <2> QED BY <2>2, <2>3, <2>4 DEF t
  <1>6. CASE Len(s) # 0
    <2> DEFINE h == [i \in 1..Len(s) |-> g[i]]
    <2>1. Joins(s, h)
      <3>1. g \in [1..(Len(s) + 1) -> ByteSeq] /\ g[1] = t[1]  BY <1>1, <1>2, <1>3 DEF Joins, Joined
      <3>2. ASSUME NEW i \in 1..(Len(s) - 1) PROVE g[i + 1] = g[i] \o s[i + 1]
        <4>1. i \in 1..(Len(t) - 1) /\ i + 1 \in 1..Len(s)  BY <1>1, <1>2
        <4> QED BY <1>1, <1>3, <4>1 DEF Joins, Joined
      <3>3. h \in [1..Len(s) -> ByteSeq] /\ h[1] = s[1]  BY <1>1, <1>2, <1>6, <3>1
      <3>4. ASSUME NEW i \in 1..(Len(s) - 1) PROVE h[i + 1] = h[i] \o s[i + 1]
        <4>1. h[i + 1] = g[i + 1] /\ h[i] = g[i]  BY <1>2
        <4> HIDE DEF h
        <4> QED BY <3>2, <4>1
      <3> HIDE DEF h
      <3> QED BY <3>3, <3>4 DEF Joins, Joined
    <2>2. FlattenSeq(s) = h[Len(s)]
      <3> HIDE DEF h
      <3> QED BY <1>6, <2>1, FlattenIsJoin
    <2>3. g[Len(s) + 1] = g[Len(s)] \o x
      <3>1. Len(s) \in 1..(Len(t) - 1)  BY <1>1, <1>2, <1>6
      <3> QED BY <1>1, <1>3, <3>1 DEF Joins, Joined
    <2>4. h[Len(s)] = g[Len(s)]  BY <1>2, <1>6
    <2> HIDE DEF h
    <2> QED BY <1>4, <2>2, <2>3, <2>4 DEF t
  <1> QED BY <1>5, <1>6

LEMMA FlattenFirst ==
  ASSUME NEW s \in Seq(ByteSeq), Len(s) # 0
  PROVE  FlattenSeq(s) = s[1] \o FlattenSeq(Tail(s))
  <1> DEFINE S == {n \in Nat : \A t \in Seq(ByteSeq) :
                     Len(t) = n + 1 => FlattenSeq(t) = t[1] \o FlattenSeq(Tail(t))}
  <1>1. 0 \in S
    <2> SUFFICES ASSUME NEW t \in Seq(ByteSeq), Len(t) = 1
                 PROVE  FlattenSeq(t) = t[1] \o FlattenSeq(Tail(t))
      OBVIOUS
    <2>0. t[1] \in ByteSeq
      <3>1. 1 \in 1..Len(t)  OBVIOUS
      <3> QED BY <3>1, ElementOfSeq
    <2>1. Tail(t) = <<>> /\ t = Append(<<>>, t[1])
      <3>0. t # <<>>
        <4>1. Len(<<>>) = 0 /\ Len(t) # 0  OBVIOUS
        <4> QED BY <4>1, Zenon
      <3>1. Tail(t) \in Seq(ByteSeq) /\ Len(Tail(t)) = 0  BY <3>0, HeadTailProperties
      <3>2. Tail(t) = <<>>  BY <3>1, EmptySeq
      <3>3. t = Append(<<>>, t[1])  OBVIOUS
      <3> QED BY <3>2, <3>3
    <2>2. FlattenSeq(t) = FlattenSeq(<<>>) \o t[1]  BY <2>0, <2>1, EmptySeq, FlattenAppend
    <2> QED BY <2>0, <2>1, <2>2, FlattenTyped, ByteStrings
  <1>2. ASSUME NEW n \in Nat, n \in S PROVE n + 1 \in S
    <2> SUFFICES ASSUME NEW t \in Seq(ByteSeq), Len(t) = n + 2
                 PROVE  FlattenSeq(t) = t[1] \o FlattenSeq(Tail(t))
      OBVIOUS
    <2> DEFINE u == SubSeq(t, 1, n + 1)
               x == t[n + 2]
    <2>1. u \in Seq(ByteSeq) /\ Len(u) = n + 1 /\ u[1] = t[1] /\ x \in ByteSeq  OBVIOUS
    <2>2. t = Append(u, x)  OBVIOUS
    <2> HIDE DEF u, x
    <2>3. Tail(t) = Append(Tail(u), x)
      <3>1. u # <<>>  BY <2>1
      <3> QED BY <2>1, <2>2, <3>1, HeadTailAppend
    <2>4. FlattenSeq(t) = FlattenSeq(u) \o x  BY <2>1, <2>2, FlattenAppend
    <2>5. FlattenSeq(u) = u[1] \o FlattenSeq(Tail(u))  BY <1>2, <2>1
    <2>6. Tail(u) \in Seq(ByteSeq)  BY <2>1
    <2>7. FlattenSeq(Tail(t)) = FlattenSeq(Tail(u)) \o x  BY <2>1, <2>3, <2>6, FlattenAppend
    <2>8. u[1] \in ByteSeq /\ FlattenSeq(Tail(u)) \in ByteSeq  
      <3>1. 1 \in 1..Len(u)  BY <2>1
      <3> QED BY <2>1, <2>6, <3>1, FlattenTyped, ElementOfSeq
    <2>9. (u[1] \o FlattenSeq(Tail(u))) \o x = u[1] \o (FlattenSeq(Tail(u)) \o x)
      BY <2>1, <2>8, ByteStrings
    <2> QED BY <2>1, <2>4, <2>5, <2>7, <2>9
  <1>3. Nat \subseteq S
    <2> HIDE DEF S
    <2> QED BY <1>1, <1>2, NatSets
  <1>4. Len(s) - 1 \in Nat /\ Len(s) = (Len(s) - 1) + 1  OBVIOUS
  <1> QED BY <1>3, <1>4

SentFrame == PeerFrames \cup {None}

LEMMA PeerFrame ==
  ASSUME NEW f \in PeerFrames
  PROVE  /\ f.header \in Nat /\ f.payload \in ByteSeq /\ Len(f.payload) \in FrameLengths
         /\ f = [header |-> f.header, payload |-> f.payload] /\ f # None
         /\ Len(f.payload) < LenBase * LenBase * LenBase * LenBase /\ Len(f.payload) \in Nat
         /\ EncodeFrame(f) \in ByteSeq
  <1>1. PICK h \in {1, 2}, n \in FrameLengths : f = [header |-> h, payload |-> PayloadOf(n, h)]
    BY DEF PeerFrames
  <1>2. n \in Nat /\ n < LenBase * LenBase * LenBase * LenBase
    <2>1. LenBase * LenBase * LenBase * LenBase \in Int  BY FrameAssumption
    <2> QED BY <2>1, FrameAssumption
  <1>3. PayloadOf(n, h) \in ByteSeq /\ Len(PayloadOf(n, h)) = n
    <2>1. 2 * LenBase \in Nat /\ 2 * LenBase > 0  BY FrameAssumption
    <2>2. \A i \in 1..n : (i + h) % (2 * LenBase) \in Nat  BY <1>2, <2>1
    <2> QED BY <1>2, <2>2 DEF PayloadOf, ByteSeq
  <1>4. f.header = h /\ f.payload = PayloadOf(n, h)  BY <1>1
  <1>5. f.header \in Nat  BY <1>4
  <1>6. EncodeFrame(f) \in ByteSeq
    <2>1. <<f.header>> \in ByteSeq  BY <1>5 DEF ByteSeq
    <2>2. EncodeLength[Len(f.payload)] \in ByteSeq  BY <1>2, <1>3, <1>4, EncodeLengthDef DEF ByteSeq
    <2> QED BY <1>3, <1>4, <2>1, <2>2, ByteStrings DEF EncodeFrame
  <1> QED BY <1>1, <1>2, <1>3, <1>4, <1>5, <1>6, NoneIsNoFrame

LEMMA MalformedBytes ==
  /\ Malformed \in ByteSeq /\ Len(Malformed) = 7
  /\ Malformed[1] = 1 /\ \A i \in 2..5 : Malformed[i] = 2 * LenBase - 1
  <1> DEFINE d == [i \in 1..4 |-> 2 * LenBase - 1]
             e == <<1>>
             z == <<0, 1>>
             ed == e \o d
             edz == ed \o z
  <1>1. 2 * LenBase - 1 \in Nat  BY FrameAssumption
  <1>2. d \in Seq(Nat) /\ Len(d) = 4 /\ \A i \in 1..4 : d[i] = 2 * LenBase - 1  BY <1>1
  <1>3. e \in Seq(Nat) /\ z \in Seq(Nat) /\ Len(e) = 1 /\ Len(z) = 2 /\ e[1] = 1  OBVIOUS
  <1>4. Malformed = edz  BY DEF Malformed
  <1> HIDE DEF d, e, z
  <1>5. ed \in Seq(Nat) /\ Len(ed) = 5
        /\ \A i \in 1..5 : ed[i] = IF i <= 1 THEN e[i] ELSE d[i - 1]
    <2>1. ed \in Seq(Nat) /\ Len(ed) = Len(e) + Len(d)
          /\ \A i \in 1..(Len(e) + Len(d)) :
               ed[i] = IF i <= Len(e) THEN e[i] ELSE d[i - Len(e)]
      BY <1>2, <1>3, ConcatProperties, Zenon
    <2> HIDE DEF ed
    <2> QED BY <1>2, <1>3, <2>1
  <1>6. ed[1] = 1 /\ \A i \in 2..5 : ed[i] = 2 * LenBase - 1
    <2> HIDE DEF ed
    <2>1. ed[1] = 1  BY <1>3, <1>5
    <2>2. ASSUME NEW i \in 2..5 PROVE ed[i] = 2 * LenBase - 1
      <3>1. i \in 1..5 /\ ~(i <= 1) /\ i - 1 \in 1..4  OBVIOUS
      <3> QED BY <1>2, <1>5, <3>1
    <2> QED BY <2>1, <2>2
  <1> HIDE DEF ed
  <1>7. edz \in Seq(Nat) /\ Len(edz) = 7
        /\ \A i \in 1..7 : edz[i] = IF i <= 5 THEN ed[i] ELSE z[i - 5]
    <2>1. edz \in Seq(Nat) /\ Len(edz) = Len(ed) + Len(z)
          /\ \A i \in 1..(Len(ed) + Len(z)) :
               edz[i] = IF i <= Len(ed) THEN ed[i] ELSE z[i - Len(ed)]
      BY <1>3, <1>5, ConcatProperties, Zenon
    <2> HIDE DEF edz
    <2> QED BY <1>3, <1>5, <2>1
  <1> HIDE DEF edz
  <1>8. \A i \in 1..5 : edz[i] = ed[i]  BY <1>7
  <1> QED BY <1>4, <1>6, <1>7, <1>8 DEF ByteSeq

LEMMA BytesTyped == \A f \in SentFrame : Bytes(f) \in ByteSeq
  BY PeerFrame, MalformedBytes DEF SentFrame, Bytes

\* The bytes of the frames after the first k.
BytesOf(s, k) == [i \in 1..(Len(s) - k) |-> Bytes(s[k + i])]
RestOf(s, k) == FlattenSeq(BytesOf(s, k))

LEMMA BytesOfTyped ==
  ASSUME NEW s \in Seq(SentFrame), NEW k \in 0..Len(s)
  PROVE  /\ BytesOf(s, k) \in Seq(ByteSeq) /\ Len(BytesOf(s, k)) = Len(s) - k
         /\ \A i \in 1..(Len(s) - k) : BytesOf(s, k)[i] = Bytes(s[k + i])
  <1>1. Len(s) - k \in Nat  OBVIOUS
  <1>2. \A i \in 1..(Len(s) - k) : k + i \in 1..Len(s)  OBVIOUS
  <1>3. \A i \in 1..(Len(s) - k) : Bytes(s[k + i]) \in ByteSeq  BY <1>2, BytesTyped, ElementOfSeq
  <1> QED BY <1>1, <1>3 DEF BytesOf

LEMMA RestTyped ==
  ASSUME NEW s \in Seq(SentFrame), NEW k \in 0..Len(s)
  PROVE  RestOf(s, k) \in ByteSeq /\ RestOf(s, Len(s)) = <<>>
  <1>1. RestOf(s, k) \in ByteSeq  BY BytesOfTyped, FlattenTyped DEF RestOf
  <1>2. Len(s) \in 0..Len(s)  OBVIOUS
  <1>3. BytesOf(s, Len(s)) \in Seq(ByteSeq) /\ Len(BytesOf(s, Len(s))) = 0
    BY <1>2, BytesOfTyped
  <1>4. BytesOf(s, Len(s)) = <<>>  BY <1>3, EmptySeq
  <1> QED BY <1>1, <1>4, FlattenTyped DEF RestOf

LEMMA RestFirst ==
  ASSUME NEW s \in Seq(SentFrame), NEW k \in Nat, k < Len(s)
  PROVE  RestOf(s, k) = Bytes(s[k + 1]) \o RestOf(s, k + 1)
  <1> DEFINE b == BytesOf(s, k)
             c == BytesOf(s, k + 1)
  <1>1. k \in 0..Len(s) /\ k + 1 \in 0..Len(s) /\ Len(s) - k # 0 /\ 1 \in 1..(Len(s) - k)  OBVIOUS
  <1>2. b \in Seq(ByteSeq) /\ Len(b) = Len(s) - k
        /\ \A i \in 1..(Len(s) - k) : b[i] = Bytes(s[k + i])
    BY <1>1, BytesOfTyped
  <1>3. c \in Seq(ByteSeq) /\ Len(c) = Len(s) - (k + 1)
        /\ \A i \in 1..(Len(s) - (k + 1)) : c[i] = Bytes(s[(k + 1) + i])
    BY <1>1, BytesOfTyped
  <1> HIDE DEF b, c
  <1>4. b # <<>>  BY <1>1, <1>2
  <1>5. Tail(b) \in Seq(ByteSeq) /\ Len(Tail(b)) = Len(b) - 1
        /\ \A i \in 1..Len(Tail(b)) : Tail(b)[i] = b[i + 1]
    BY <1>2, <1>4, HeadTailProperties
  <1>6. Tail(b) = c
    <2>1. Len(Tail(b)) = Len(c)  BY <1>2, <1>3, <1>5
    <2>2. ASSUME NEW i \in 1..Len(Tail(b)) PROVE Tail(b)[i] = c[i]
      <3>1. i \in 1..(Len(s) - (k + 1)) /\ i + 1 \in 1..(Len(s) - k) /\ k + (i + 1) = (k + 1) + i
        BY <1>2, <1>5
      <3>2. Tail(b)[i] = Bytes(s[k + (i + 1)])  BY <1>2, <1>5, <3>1
      <3>3. c[i] = Bytes(s[(k + 1) + i])  BY <1>3, <3>1
      <3> QED BY <3>1, <3>2, <3>3
    <2> QED BY <1>3, <1>5, <2>1, <2>2, SeqEqual
  <1>7. FlattenSeq(b) = b[1] \o FlattenSeq(c)  BY <1>1, <1>2, <1>6, FlattenFirst
  <1>8. b[1] = Bytes(s[k + 1])  BY <1>1, <1>2
  <1> QED BY <1>7, <1>8 DEF RestOf, b, c

LEMMA RestAppend ==
  ASSUME NEW s \in Seq(SentFrame), NEW k \in 0..Len(s), NEW f \in SentFrame
  PROVE  RestOf(Append(s, f), k) = RestOf(s, k) \o Bytes(f)
  <1> DEFINE t == Append(s, f)
             b == BytesOf(s, k)
             c == BytesOf(t, k)
  <1>1. t \in Seq(SentFrame) /\ Len(t) = Len(s) + 1 /\ t[Len(s) + 1] = f
        /\ \A i \in 1..Len(s) : t[i] = s[i]
    BY AppendProperties
  <1> HIDE DEF t
  <1>2. b \in Seq(ByteSeq) /\ Len(b) = Len(s) - k
        /\ \A i \in 1..(Len(s) - k) : b[i] = Bytes(s[k + i])
    BY BytesOfTyped
  <1>3. k \in 0..Len(t)  BY <1>1
  <1>4. c \in Seq(ByteSeq) /\ Len(c) = Len(t) - k
        /\ \A i \in 1..(Len(t) - k) : c[i] = Bytes(t[k + i])
    BY <1>1, <1>3, BytesOfTyped
  <1> HIDE DEF b, c
  <1>5. Bytes(f) \in ByteSeq  BY BytesTyped
  <1> DEFINE d == Append(b, Bytes(f))
  <1>6. d \in Seq(ByteSeq) /\ Len(d) = Len(b) + 1 /\ d[Len(b) + 1] = Bytes(f)
        /\ \A i \in 1..Len(b) : d[i] = b[i]
    BY <1>2, <1>5, AppendProperties
  <1> HIDE DEF d
  <1>7. c = d
    <2>1. Len(c) = Len(d)  BY <1>1, <1>2, <1>4, <1>6
    <2>2. ASSUME NEW i \in 1..Len(c) PROVE c[i] = d[i]
      <3>1. CASE i <= Len(s) - k
        <4>1. i \in 1..(Len(s) - k) /\ i \in 1..Len(b) /\ i \in 1..(Len(t) - k) /\ k + i \in 1..Len(s)
          BY <1>1, <1>2, <3>1
        <4>2. c[i] = Bytes(t[k + i]) /\ t[k + i] = s[k + i]  BY <1>1, <1>4, <4>1
        <4>3. d[i] = Bytes(s[k + i])  BY <1>2, <1>6, <4>1
        <4> QED BY <4>2, <4>3
      <3>2. CASE i = Len(s) - k + 1
        <4>1. i = Len(b) + 1 /\ i \in 1..(Len(t) - k) /\ k + i = Len(s) + 1  BY <1>1, <1>2, <3>2
        <4>2. c[i] = Bytes(t[Len(s) + 1])  BY <1>4, <4>1
        <4> QED BY <1>1, <1>6, <4>1, <4>2
      <3>3. i <= Len(s) - k \/ i = Len(s) - k + 1  BY <1>1, <1>4
      <3> QED BY <3>1, <3>2, <3>3
    <2> QED BY <1>4, <1>6, <2>1, <2>2, SeqEqual
  <1>8. FlattenSeq(d) = FlattenSeq(b) \o Bytes(f)  BY <1>2, <1>5, FlattenAppend DEF d
  <1> QED BY <1>7, <1>8 DEF RestOf, b, c, t

----------------------------------------------------------------------------
(* The MQTT frame reader: the inductive invariant                            *)

Powers == <<1, LenBase, LenBase * LenBase, LenBase * LenBase * LenBase>>

\* What is left to read of the frame the reader is in, and what it has of it.
InLength(f, r, bytes, rest) ==
  /\ r \in [at : {"Length"}, header : Nat, value : Nat, mult : Nat]
  /\ f = None =>
       \E j \in 0..3 : r.mult = Powers[j + 1] /\ bytes = SubSeq(Malformed, j + 2, 7) \o rest
  /\ f # None =>
       /\ r.header = f.header
       /\ \E j \in 1..4 : r.mult = Powers[j]
       /\ \E q \in Nat : /\ Len(f.payload) = r.value + q * r.mult
                         /\ bytes = (EncodeLength[q] \o f.payload) \o rest
InPayload(f, r, bytes, rest) ==
  /\ r \in [at : {"Payload"}, header : Nat, buf : ByteSeq, target : Nat]
  /\ f # None /\ r.header = f.header
  /\ r.target = Len(f.payload) /\ r.target <= MaxPayload
  /\ Len(r.buf) <= r.target /\ r.buf = SubSeq(f.payload, 1, Len(r.buf))
  /\ bytes = SubSeq(f.payload, Len(r.buf) + 1, r.target) \o rest

FrameTypeOK ==
  /\ sent \in Seq(SentFrame) /\ got \in Seq(PeerFrames)
  /\ inbound \in ByteSeq
  /\ capacity \in Nat /\ toRead \in Nat /\ inCall \in BOOLEAN
  /\ reader.at \in {"Idle", "Length", "Payload", "Poisoned"}
Due == sent[Len(got) + 1]
WhereInv ==
  /\ reader.at = "Idle" => inbound = RestOf(sent, Len(got))
  /\ reader.at \in {"Length", "Payload"} => Len(got) < Len(sent)
  /\ reader.at = "Length" => InLength(Due, reader, inbound, RestOf(sent, Len(got) + 1))
  /\ reader.at = "Payload" => InPayload(Due, reader, inbound, RestOf(sent, Len(got) + 1))
RoomInv ==
  /\ reader.at # "Payload" => toRead = 0
  /\ reader.at = "Payload" => toRead <= reader.target - Len(reader.buf)
  /\ AllocationFollowsArrival
FrameInv == FrameTypeOK /\ FramesInStep /\ WhereInv /\ RoomInv

LEMMA FrameInitInv == FrameInit => FrameInv
  <1> SUFFICES ASSUME FrameInit PROVE FrameInv  OBVIOUS
  <1>1. reader.at = "Idle"  BY DEF FrameInit
  <1>2. FrameTypeOK
    <2>1. <<>> \in Seq(SentFrame) /\ <<>> \in Seq(PeerFrames)  BY EmptySeq
    <2> QED BY <1>1, <2>1, ByteStrings DEF FrameInit, FrameTypeOK
  <1>3. FramesInStep  BY DEF FrameInit, FramesInStep
  <1>4. WhereInv
    <2>1. sent = <<>> /\ got = <<>> /\ inbound = <<>>  BY DEF FrameInit
    <2>2. sent \in Seq(SentFrame) /\ Len(sent) = 0 /\ Len(got) = 0 /\ 0 \in 0..Len(sent)  BY <2>1
    <2>3. RestOf(sent, Len(sent)) = <<>>  BY <2>2, RestTyped
    <2> QED BY <1>1, <2>1, <2>2, <2>3 DEF WhereInv
  <1>5. RoomInv  BY <1>1 DEF FrameInit, RoomInv, AllocationFollowsArrival
  <1> QED BY <1>2, <1>3, <1>4, <1>5 DEF FrameInv

LEMMA Due1 ==
  ASSUME FrameInv, Len(got) < Len(sent)
  PROVE  /\ Due \in SentFrame /\ Len(got) \in Nat /\ Len(sent) \in Nat
         /\ Len(got) + 1 \in 1..Len(sent) /\ Len(got) + 1 \in 0..Len(sent)
         /\ RestOf(sent, Len(got) + 1) \in ByteSeq
         /\ RestOf(sent, Len(got)) = Bytes(Due) \o RestOf(sent, Len(got) + 1)
  <1>1. sent \in Seq(SentFrame) /\ Len(got) \in Nat /\ Len(sent) \in Nat
    BY DEF FrameInv, FrameTypeOK
  <1>2. Len(got) + 1 \in 1..Len(sent) /\ Len(got) + 1 \in 0..Len(sent)  BY <1>1
  <1>3. Due \in SentFrame  BY <1>1, <1>2, ElementOfSeq DEF Due
  <1> QED BY <1>1, <1>2, <1>3, RestTyped, RestFirst DEF Due

\* PeerSends and PeerSendsMalformed.
LEMMA SendStep ==
  ASSUME FrameInv, NEW f \in SentFrame, sent' = Append(sent, f),
         inbound' = inbound \o Bytes(f), UNCHANGED <<reader, capacity, inCall, toRead, got>>
  PROVE  FrameInv'
  <1> DEFINE k == Len(got)
  <1>1. sent \in Seq(SentFrame) /\ k \in Nat /\ Len(sent) \in Nat /\ inbound \in ByteSeq
        /\ k <= Len(sent) /\ Bytes(f) \in ByteSeq /\ got \in Seq(PeerFrames)
    BY BytesTyped DEF FrameInv, FrameTypeOK, FramesInStep
  <1>2. sent' \in Seq(SentFrame) /\ Len(sent') = Len(sent) + 1
        /\ \A i \in 1..Len(sent) : sent'[i] = sent[i]
    BY <1>1, AppendProperties
  <1>3. inbound' \in ByteSeq  BY <1>1, ByteStrings
  <1>4. FrameTypeOK'  BY <1>2, <1>3 DEF FrameInv, FrameTypeOK
  <1>5. FramesInStep'
    <2>1. Len(got') <= Len(sent')  BY <1>1, <1>2
    <2>2. ASSUME NEW i \in DOMAIN got PROVE got[i] = sent'[i] /\ Acceptable(sent'[i])
      <3>1. i \in 1..Len(sent)  BY <1>1
      <3> QED BY <1>2, <3>1 DEF FrameInv, FramesInStep
    <2> QED BY <2>1, <2>2 DEF FramesInStep
  <1>6. WhereInv'
    <2>1. reader.at = "Idle" => inbound' = RestOf(sent', k)
      <3>1. RestOf(sent', k) = RestOf(sent, k) \o Bytes(f)  
        <4>1. k \in 0..Len(sent)  BY <1>1
        <4> HIDE DEF k
        <4> QED BY <1>1, <4>1, RestAppend
      <3> QED BY <3>1 DEF FrameInv, WhereInv
    <2>2. ASSUME reader.at \in {"Length", "Payload"}
          PROVE  /\ k < Len(sent) /\ k < Len(sent') /\ Due' = Due
                 /\ RestOf(sent, k + 1) \in ByteSeq
                 /\ RestOf(sent', k + 1) = RestOf(sent, k + 1) \o Bytes(f)
      <3>1. k < Len(sent)  BY <2>2 DEF FrameInv, WhereInv
      <3>2. k + 1 \in 0..Len(sent) /\ k + 1 \in 1..Len(sent) /\ RestOf(sent, k + 1) \in ByteSeq
        BY <3>1, Due1
      <3>3. RestOf(sent', k + 1) = RestOf(sent, k + 1) \o Bytes(f)
        <4> HIDE DEF k
        <4> QED BY <1>1, <3>2, RestAppend
      <3>4. Due' = Due  BY <1>2, <3>2 DEF Due
      <3>5. k < Len(sent')  BY <1>1, <1>2, <3>1
      <3> QED BY <3>1, <3>2, <3>3, <3>4, <3>5
    <2> DEFINE rest == RestOf(sent, k + 1)
    <2>3. ASSUME reader.at = "Length" PROVE InLength(Due, reader, inbound', rest \o Bytes(f))
      <3>0. InLength(Due, reader, inbound, rest)  BY <2>3 DEF FrameInv, WhereInv
      <3>1. rest \in ByteSeq /\ Due \in SentFrame  BY <2>2, <2>3, Due1
      <3> HIDE DEF rest
      <3>2. CASE Due = None
        <4>1. PICK j \in 0..3 : reader.mult = Powers[j + 1]
                                /\ inbound = SubSeq(Malformed, j + 2, 7) \o rest
          BY <3>0, <3>2 DEF InLength
        <4>2. SubSeq(Malformed, j + 2, 7) \in ByteSeq
          <5>1. Malformed \in Seq(Nat) /\ Len(Malformed) = 7  BY MalformedBytes DEF ByteSeq
          <5>2. \A i \in (j + 2)..7 : Malformed[i] \in Nat
            <6>1. \A i \in (j + 2)..7 : i \in 1..Len(Malformed)  BY <5>1
            <6> QED BY <5>1, <6>1, ElementOfSeq
          <5> QED BY <5>2, SubSeqProperties DEF ByteSeq
        <4>3. inbound' = SubSeq(Malformed, j + 2, 7) \o (rest \o Bytes(f))
          BY <1>1, <3>1, <4>1, <4>2, ByteStrings
        <4> QED BY <3>0, <3>2, <4>1, <4>3 DEF InLength
      <3>3. CASE Due # None
        <4>1. PICK q \in Nat : Len(Due.payload) = reader.value + q * reader.mult
                               /\ inbound = (EncodeLength[q] \o Due.payload) \o rest
          BY <3>0, <3>3 DEF InLength
        <4>2. EncodeLength[q] \in ByteSeq /\ Due.payload \in ByteSeq
          BY <3>1, <3>3, EncodeLengthDef, PeerFrame DEF ByteSeq, SentFrame
        <4>3. EncodeLength[q] \o Due.payload \in ByteSeq  BY <4>2, ByteStrings
        <4>4. inbound' = (EncodeLength[q] \o Due.payload) \o (rest \o Bytes(f))
          BY <1>1, <3>1, <4>1, <4>3, ByteStrings
        <4> QED BY <3>0, <3>3, <4>1, <4>4 DEF InLength
      <3> QED BY <3>2, <3>3
    <2>4. ASSUME reader.at = "Payload" PROVE InPayload(Due, reader, inbound', rest \o Bytes(f))
      <3>0. InPayload(Due, reader, inbound, rest)  BY <2>4 DEF FrameInv, WhereInv
      <3>1. rest \in ByteSeq /\ Due \in SentFrame  BY <2>2, <2>4, Due1
      <3> HIDE DEF rest
      <3> DEFINE left == SubSeq(Due.payload, Len(reader.buf) + 1, reader.target)
      <3>2. left \in ByteSeq
        <4>1. Due.payload \in Seq(Nat)  BY <3>0, <3>1, PeerFrame DEF SentFrame, InPayload, ByteSeq
        <4>2. Len(reader.buf) \in Nat /\ reader.target = Len(Due.payload)
          BY <3>0 DEF InPayload, ByteSeq
        <4> QED BY <4>1, <4>2 DEF ByteSeq
      <3>3. inbound = left \o rest  BY <3>0 DEF InPayload
      <3> HIDE DEF left
      <3>4. inbound' = left \o (rest \o Bytes(f))  BY <1>1, <3>1, <3>2, <3>3, ByteStrings
      <3> QED BY <3>0, <3>4 DEF InPayload, left
    <2> QED BY <2>1, <2>2, <2>3, <2>4 DEF WhereInv
  <1>7. RoomInv'  BY DEF FrameInv, RoomInv, AllocationFollowsArrival
  <1> QED BY <1>4, <1>5, <1>6, <1>7 DEF FrameInv

LEMMA FirstByte ==
  ASSUME NEW x \in Nat, NEW a \in ByteSeq
  PROVE  /\ <<x>> \in ByteSeq /\ <<x>> \o a # <<>>
         /\ Head(<<x>> \o a) = x /\ Tail(<<x>> \o a) = a
  <1> DEFINE e == <<x>>
             c == e \o a
  <1>1. e \in Seq(Nat) /\ Len(e) = 1 /\ e[1] = x /\ a \in Seq(Nat)  BY DEF ByteSeq
  <1> HIDE DEF e
  <1>2. c \in Seq(Nat) /\ Len(c) = Len(e) + Len(a)
        /\ \A i \in 1..(Len(e) + Len(a)) : c[i] = IF i <= Len(e) THEN e[i] ELSE a[i - Len(e)]
    BY <1>1, ConcatProperties, Zenon
  <1> HIDE DEF c
  <1>3. Len(a) \in Nat /\ Len(c) # 0 /\ Len(<<>>) = 0  BY <1>1, <1>2
  <1>4. c # <<>>  BY <1>3, Zenon
  <1>5. c[1] = x /\ Head(c) = c[1]  BY <1>1, <1>2, <1>3, <1>4
  <1>6. Tail(c) \in Seq(Nat) /\ Len(Tail(c)) = Len(c) - 1
        /\ \A i \in 1..Len(Tail(c)) : Tail(c)[i] = c[i + 1]
    BY <1>2, <1>4, HeadTailProperties
  <1>7. \A i \in 1..Len(Tail(c)) : Tail(c)[i] = a[i]
    <2> SUFFICES ASSUME NEW i \in 1..Len(Tail(c)) PROVE c[i + 1] = a[i]  BY <1>6
    <2>1. i + 1 \in 1..(Len(e) + Len(a)) /\ ~(i + 1 <= Len(e)) /\ (i + 1) - Len(e) = i
      BY <1>1, <1>2, <1>3, <1>6
    <2> QED BY <1>2, <2>1
  <1>8. Len(Tail(c)) = Len(a)  BY <1>1, <1>2, <1>3, <1>6
  <1>9. Tail(c) = a  BY <1>1, <1>6, <1>7, <1>8, SeqEqual
  <1> QED BY <1>1, <1>4, <1>5, <1>9 DEF c, e, ByteSeq

LEMMA MalformedRest ==
  ASSUME NEW m \in 1..6, NEW rest \in ByteSeq
  PROVE  /\ SubSeq(Malformed, m + 1, 7) \o rest \in ByteSeq
         /\ Malformed[m] \in Nat
         /\ SubSeq(Malformed, m, 7) \o rest
              = <<Malformed[m]>> \o (SubSeq(Malformed, m + 1, 7) \o rest)
  <1>1. Malformed \in Seq(Nat) /\ Len(Malformed) = 7  BY MalformedBytes DEF ByteSeq
  <1>2. m \in 1..Len(Malformed) /\ 7 \in m..Len(Malformed)  BY <1>1
  <1>3. SubSeq(Malformed, m, 7) = <<Malformed[m]>> \o SubSeq(Malformed, m + 1, 7)
    BY <1>1, <1>2, SubSeqRecursiveFirst
  <1>4. SubSeq(Malformed, m + 1, 7) \in ByteSeq
    <2>1. \A i \in (m + 1)..7 : i \in 1..Len(Malformed)  BY <1>1
    <2>2. \A i \in (m + 1)..7 : Malformed[i] \in Nat  BY <1>1, <2>1, ElementOfSeq
    <2> QED BY <2>2, SubSeqProperties DEF ByteSeq
  <1>5. Malformed[m] \in Nat  BY <1>1, <1>2, ElementOfSeq
  <1>6. <<Malformed[m]>> \in ByteSeq  BY <1>4, <1>5, FirstByte
  <1> DEFINE b == <<Malformed[m]>>
             t == SubSeq(Malformed, m + 1, 7)
  <1>7. b \in ByteSeq /\ t \in ByteSeq  BY <1>4, <1>6
  <1> HIDE DEF b, t
  <1>8. (b \o t) \o rest = b \o (t \o rest) /\ t \o rest \in ByteSeq  BY <1>7, ByteStrings
  <1> QED BY <1>3, <1>5, <1>8 DEF b, t

LEMMA PowerFacts ==
  /\ Powers[1] = 1
  /\ \A j \in 1..4 : Powers[j] \in Nat /\ Powers[j] > 0
  /\ \A j \in 1..3 : /\ Powers[j] * LenBase = Powers[j + 1]
                     /\ Powers[j] * LenBase <= LenBase * LenBase * LenBase
  /\ Powers[4] = LenBase * LenBase * LenBase
  /\ Powers[4] * LenBase > LenBase * LenBase * LenBase
  /\ Powers[4] * LenBase = LenBase * LenBase * LenBase * LenBase
  <1> DEFINE a == LenBase
             b == a * a
             c == b * a
  <1>1. a \in Nat /\ a > 1  BY FrameAssumption
  <1>2. b \in Nat /\ b >= a  BY <1>1
  <1> HIDE DEF b
  <1>3. c \in Nat /\ c >= b  BY <1>1, <1>2
  <1>4. c * a > c  BY <1>1, <1>2, <1>3
  <1> HIDE DEF c
  <1>5. Powers = <<1, a, b, c>>  BY DEF Powers, b, c
  <1>6. Powers[1] = 1 /\ Powers[2] = a /\ Powers[3] = b /\ Powers[4] = c  BY <1>5
  <1>7. 1 * a = a /\ a * a = b /\ b * a = c  BY <1>1 DEF b, c
  <1>8. LenBase * LenBase * LenBase = c /\ LenBase * LenBase * LenBase * LenBase = c * a
    BY DEF b, c
  <1> HIDE DEF a
  <1>9. ASSUME NEW j \in 1..3 PROVE Powers[j] * a = Powers[j + 1] /\ Powers[j] * a <= c
    <2>1. j = 1 \/ j = 2 \/ j = 3  OBVIOUS
    <2> QED BY <2>1, <1>1, <1>2, <1>3, <1>6, <1>7
  <1>10. ASSUME NEW j \in 1..4 PROVE Powers[j] \in Nat /\ Powers[j] > 0
    <2>1. j = 1 \/ j = 2 \/ j = 3 \/ j = 4  OBVIOUS
    <2> QED BY <2>1, <1>1, <1>2, <1>3, <1>6
  <1> QED BY <1>4, <1>6, <1>8, <1>9, <1>10 DEF a

LEMMA Remainders ==
  /\ \A r \in 0..(LenBase - 1) : r % LenBase = r /\ (r + LenBase) % LenBase = r
  /\ (2 * LenBase - 1) % LenBase \in Nat
  <1>1. LenBase \in Nat /\ LenBase > 1  BY FrameAssumption
  <1>2. ASSUME NEW x \in Nat, NEW k \in Nat, NEW r \in 0..(LenBase - 1), x = (LenBase * k) + r
        PROVE  x % LenBase = r
    <2> DEFINE d == x \div LenBase
               s == x % LenBase
    <2>1. d \in Nat /\ s \in 0..(LenBase - 1) /\ x = (LenBase * d) + s  BY Division
    <2> HIDE DEF d, s
    <2>2. d = k
      <3>1. ASSUME NEW u \in Nat, NEW v \in Nat, u < v PROVE LenBase * v >= (LenBase * u) + LenBase
        <4>1. v >= u + 1  BY <3>1
        <4>2. LenBase * v >= LenBase * (u + 1)  BY <1>1, <4>1
        <4>3. LenBase * (u + 1) = (LenBase * u) + LenBase  BY <1>1
        <4> QED BY <1>1, <4>2, <4>3
      <3>2. LenBase * d \in Nat /\ LenBase * k \in Nat  BY <1>1, <2>1
      <3>3. ~(d < k)
        <4> SUFFICES ASSUME d < k PROVE FALSE  OBVIOUS
        <4>1. LenBase * k >= (LenBase * d) + LenBase  BY <2>1, <3>1
        <4> QED BY <1>1, <1>2, <2>1, <3>2, <4>1
      <3>4. ~(k < d)
        <4> SUFFICES ASSUME k < d PROVE FALSE  OBVIOUS
        <4>1. LenBase * d >= (LenBase * k) + LenBase  BY <2>1, <3>1
        <4> QED BY <1>1, <1>2, <2>1, <3>2, <4>1
      <3> QED BY <2>1, <3>3, <3>4
    <2>3. s = r
      <3>1. LenBase * k \in Nat  BY <1>1
      <3> QED BY <1>1, <1>2, <2>1, <2>2, <3>1
    <2> QED BY <2>3 DEF s
  <1>3. ASSUME NEW r \in 0..(LenBase - 1) PROVE r % LenBase = r /\ (r + LenBase) % LenBase = r
    <2>1. r = (LenBase * 0) + r /\ r + LenBase = (LenBase * 1) + r /\ r \in Nat /\ r + LenBase \in Nat
      BY <1>1
    <2> QED BY <1>2, <2>1
  <1>4. (2 * LenBase - 1) % LenBase \in Nat
    <2>1. 2 * LenBase - 1 \in Nat  BY <1>1
    <2> QED BY <2>1, Division
  <1> QED BY <1>3, <1>4

LEMMA ReadHeaderStep ==
  ASSUME FrameInv, ReadHeader
  PROVE  FrameInv'
  <1> DEFINE k == Len(got)
             rest == RestOf(sent, k + 1)
  <1>1. inbound \in ByteSeq /\ inbound = RestOf(sent, k) /\ inbound # <<>> /\ toRead = 0
        /\ sent \in Seq(SentFrame) /\ k \in Nat /\ Len(sent) \in Nat /\ k <= Len(sent)
    BY DEF ReadHeader, FrameInv, FrameTypeOK, WhereInv, RoomInv, FramesInStep
  <1>2. reader' = [at |-> "Length", header |-> Head(inbound), value |-> 0, mult |-> 1]
        /\ inbound' = Tail(inbound) /\ UNCHANGED <<sent, capacity, inCall, toRead, got>>
    BY DEF ReadHeader
  <1>3. k < Len(sent)
    <2>1. Len(sent) \in 0..Len(sent)  BY <1>1
    <2>2. RestOf(sent, Len(sent)) = <<>>  BY <1>1, <2>1, RestTyped
    <2>3. k # Len(sent)  BY <1>1, <2>2
    <2> QED BY <1>1, <2>3
  <1>4. Due \in SentFrame /\ rest \in ByteSeq /\ inbound = Bytes(Due) \o rest
    BY <1>1, <1>3, Due1
  <1>5. Head(inbound) \in Nat /\ Tail(inbound) \in ByteSeq
    BY <1>1, HeadTailProperties DEF ByteSeq
  <1>6. FrameTypeOK'  BY <1>2, <1>5 DEF FrameInv, FrameTypeOK
  <1>7. FramesInStep'  BY <1>2 DEF FrameInv, FramesInStep
  <1>8. RoomInv'  BY <1>1, <1>2 DEF FrameInv, RoomInv, AllocationFollowsArrival
  <1> HIDE DEF rest
  <1>9. InLength(Due, reader', inbound', rest)
    <2>1. reader' \in [at : {"Length"}, header : Nat, value : Nat, mult : Nat]
          /\ reader'.mult = 1 /\ reader'.value = 0 /\ reader'.header = Head(inbound)
      BY <1>2, <1>5
    <2>2. ASSUME Due = None PROVE inbound' = SubSeq(Malformed, 0 + 2, 7) \o rest
      <3>1. Bytes(Due) = Malformed  BY <2>2 DEF Bytes
      <3>2. Malformed = SubSeq(Malformed, 1, 7)  BY MalformedBytes, SubSeqFull DEF ByteSeq
      <3>3. inbound = SubSeq(Malformed, 1, 7) \o rest  BY <1>4, <3>1, <3>2
      <3>4. inbound = <<Malformed[1]>> \o (SubSeq(Malformed, 1 + 1, 7) \o rest)
            /\ Malformed[1] \in Nat /\ SubSeq(Malformed, 1 + 1, 7) \o rest \in ByteSeq
        BY <1>4, <3>3, MalformedRest
      <3> DEFINE t == SubSeq(Malformed, 1 + 1, 7) \o rest
      <3>5. t = SubSeq(Malformed, 0 + 2, 7) \o rest  OBVIOUS
      <3> HIDE DEF t
      <3>6. Tail(inbound) = t  BY <3>4, FirstByte DEF t
      <3> QED BY <1>2, <3>5, <3>6
    <2>3. ASSUME Due # None
          PROVE  /\ Head(inbound) = Due.header
                 /\ inbound' = (EncodeLength[Len(Due.payload)] \o Due.payload) \o rest
                 /\ Len(Due.payload) \in Nat
      <3>1. Due \in PeerFrames  BY <1>4, <2>3 DEF SentFrame
      <3> DEFINE h == <<Due.header>>
                 p == Due.payload
                 e == EncodeLength[Len(Due.payload)]
      <3>2. Due.header \in Nat /\ p \in ByteSeq /\ Len(Due.payload) \in Nat  BY <3>1, PeerFrame
      <3>3. e \in ByteSeq  BY <3>2, EncodeLengthDef DEF ByteSeq
      <3>4. h \in ByteSeq  BY <3>2, <3>3, FirstByte
      <3>5. inbound = ((h \o e) \o p) \o rest  BY <1>4, <2>3 DEF Bytes, EncodeFrame
      <3> HIDE DEF p, e
      <3>6. e \o p \in ByteSeq /\ (e \o p) \o rest \in ByteSeq  BY <1>4, <3>2, <3>3, ByteStrings
      <3>7. inbound = h \o ((e \o p) \o rest)
        <4> HIDE DEF h
        <4>1. (h \o e) \o p = h \o (e \o p)  BY <3>2, <3>3, <3>4, ByteStrings
        <4> QED BY <1>4, <3>4, <3>5, <3>6, <4>1, ByteStrings
      <3>8. Head(inbound) = Due.header /\ Tail(inbound) = (e \o p) \o rest
        BY <3>2, <3>6, <3>7, FirstByte
      <3> QED BY <1>2, <3>2, <3>8 DEF e, p
    <2>4. Due = None => \E j \in 0..3 : reader'.mult = Powers[j + 1]
                                  /\ inbound' = SubSeq(Malformed, j + 2, 7) \o rest
      <3>1. 0 \in 0..3 /\ Powers[0 + 1] = 1  BY PowerFacts
      <3> QED BY <2>1, <2>2, <3>1
    <2>5. ASSUME Due # None
          PROVE  /\ reader'.header = Due.header
                 /\ \E j \in 1..4 : reader'.mult = Powers[j]
                 /\ \E q \in Nat : /\ Len(Due.payload) = reader'.value + q * reader'.mult
                                   /\ inbound' = (EncodeLength[q] \o Due.payload) \o rest
      <3>1. Len(Due.payload) = reader'.value + Len(Due.payload) * reader'.mult
        BY <2>1, <2>3, <2>5
      <3>2. 1 \in 1..4 /\ reader'.mult = Powers[1]  BY <2>1, PowerFacts
      <3> QED BY <2>1, <2>3, <2>5, <3>1, <3>2
    <2> QED BY <2>1, <2>4, <2>5 DEF InLength
  <1>10. WhereInv'
    <2>1. reader'.at = "Length" /\ Due' = Due /\ RestOf(sent', Len(got') + 1) = rest
      BY <1>2 DEF Due, rest
    <2> QED BY <1>2, <1>3, <1>9, <2>1 DEF WhereInv
  <1> QED BY <1>6, <1>7, <1>8, <1>10 DEF FrameInv

\* What the next digit of a remaining length makes of the reader's state.
LEMMA LengthSteps ==
  ASSUME NEW r \in [at : {"Length"}, header : Nat, value : Nat, mult : Nat], NEW b \in Nat,
         NEW d \in Nat, b % LenBase = d
  PROVE  /\ b >= LenBase /\ r.mult * LenBase > LenBase * LenBase * LenBase =>
              LengthStep(r, b).at = "Poisoned"
         /\ b >= LenBase /\ ~(r.mult * LenBase > LenBase * LenBase * LenBase) =>
              /\ LengthStep(r, b) \in [at : {"Length"}, header : Nat, value : Nat, mult : Nat]
              /\ LengthStep(r, b).header = r.header
              /\ LengthStep(r, b).value = r.value + d * r.mult
              /\ LengthStep(r, b).mult = r.mult * LenBase
         /\ ~(b >= LenBase) /\ r.value + d * r.mult > MaxPayload =>
              LengthStep(r, b).at = "Poisoned"
         /\ ~(b >= LenBase) /\ ~(r.value + d * r.mult > MaxPayload) =>
              LengthStep(r, b) = [at |-> "Payload", header |-> r.header, buf |-> <<>>,
                                  target |-> r.value + d * r.mult]
  <1>1. r.value \in Nat /\ r.mult \in Nat /\ LenBase \in Nat  BY FrameAssumption
  <1>2. d * r.mult \in Nat /\ r.mult * LenBase \in Nat  BY <1>1
  <1>3. r.value + d * r.mult \in Nat  BY <1>1, <1>2
  <1> DEFINE v == r.value + d * r.mult
             m == r.mult * LenBase
             cube == LenBase * LenBase * LenBase
  <1>4. LengthStep(r, b) =
          IF b >= LenBase
          THEN IF m > cube THEN [at |-> "Poisoned"] ELSE [r EXCEPT !.value = v, !.mult = m]
          ELSE IF v > MaxPayload THEN [at |-> "Poisoned"]
          ELSE [at |-> "Payload", header |-> r.header, buf |-> <<>>, target |-> v]
    BY DEF LengthStep
  <1>5. v \in Nat /\ m \in Nat  BY <1>2, <1>3
  <1> HIDE DEF v, m, cube
  <1>6. [r EXCEPT !.value = v, !.mult = m] \in [at : {"Length"}, header : Nat, value : Nat, mult : Nat]
        /\ [r EXCEPT !.value = v, !.mult = m].header = r.header
        /\ [r EXCEPT !.value = v, !.mult = m].value = v
        /\ [r EXCEPT !.value = v, !.mult = m].mult = m
    BY <1>5
  <1> QED BY <1>4, <1>6 DEF v, m, cube

LEMMA ReadLengthStep ==
  ASSUME FrameInv, ReadLength
  PROVE  FrameInv'
  <1> DEFINE k == Len(got)
             rest == RestOf(sent, k + 1)
             b == Head(inbound)
  <1>1. /\ inCall /\ reader.at = "Length" /\ inbound # <<>>
        /\ reader' = LengthStep(reader, b) /\ inbound' = Tail(inbound)
        /\ inCall' = (reader'.at \in {"Length", "Payload"})
        /\ capacity' = (IF reader'.at = "Payload" THEN 0 ELSE capacity)
        /\ UNCHANGED <<sent, toRead, got>>
    BY DEF ReadLength
  <1>2. /\ inbound \in ByteSeq /\ toRead = 0 /\ k < Len(sent) /\ k \in Nat /\ Len(sent) \in Nat
        /\ InLength(Due, reader, inbound, rest) /\ capacity \in Nat
    BY <1>1 DEF FrameInv, FrameTypeOK, WhereInv, RoomInv
  <1>3. Due \in SentFrame /\ rest \in ByteSeq /\ Due' = Due /\ rest' = rest
    BY <1>1, <1>2, Due1 DEF Due
  <1>4. b \in Nat /\ Tail(inbound) \in ByteSeq
    BY <1>1, <1>2, HeadTailProperties DEF ByteSeq
  <1>5. reader \in [at : {"Length"}, header : Nat, value : Nat, mult : Nat]  BY <1>2 DEF InLength
  <1>6. \/ reader'.at = "Poisoned"
        \/ reader'.at = "Length" /\ InLength(Due, reader', inbound', rest)
        \/ /\ reader'.at = "Payload" /\ reader'.buf = <<>>
           /\ InPayload(Due, reader', inbound', rest)
    <2>1. CASE Due = None
      <3>1. PICK j \in 0..3 : reader.mult = Powers[j + 1]
                              /\ inbound = SubSeq(Malformed, j + 2, 7) \o rest
        BY <1>2, <2>1 DEF InLength
      <3>2. j + 2 \in 1..6 /\ j + 2 \in 2..5 /\ (j + 2) + 1 = (j + 1) + 2  OBVIOUS
      <3> DEFINE t == SubSeq(Malformed, (j + 2) + 1, 7) \o rest
      <3> HIDE DEF rest
      <3>3. inbound = <<Malformed[j + 2]>> \o t /\ Malformed[j + 2] \in Nat /\ t \in ByteSeq
        BY <1>3, <3>1, <3>2, MalformedRest
      <3>4. t = SubSeq(Malformed, (j + 1) + 2, 7) \o rest  BY <3>2
      <3> HIDE DEF t
      <3>5. b = Malformed[j + 2] /\ Tail(inbound) = t  BY <3>3, FirstByte
      <3>6. b = 2 * LenBase - 1  BY <3>2, <3>5, MalformedBytes
      <3>7. b >= LenBase /\ b % LenBase \in Nat  BY <3>6, FrameAssumption, Remainders
      <3> HIDE DEF b
      <3>8. CASE j = 3
        <4>1. reader.mult * LenBase > LenBase * LenBase * LenBase  BY <3>1, <3>8, PowerFacts
        <4> QED BY <1>1, <1>4, <1>5, <3>7, <4>1, LengthSteps
      <3>9. CASE j # 3
        <4>1. j + 1 \in 1..3 /\ j + 1 \in 0..3  BY <3>9
        <4>2. /\ reader.mult * LenBase = Powers[(j + 1) + 1]
              /\ reader.mult * LenBase <= LenBase * LenBase * LenBase
          BY <3>1, <4>1, PowerFacts
        <4>3. ~(reader.mult * LenBase > LenBase * LenBase * LenBase)
          <5> DEFINE x == reader.mult * LenBase
                     y == LenBase * LenBase * LenBase
          <5>1. x \in Int /\ y \in Int /\ x <= y  BY <1>5, <4>2, FrameAssumption
          <5> HIDE DEF x, y
          <5>2. ~(x > y)  BY <5>1
          <5> QED BY <5>2 DEF x, y
        <4>4. /\ reader' \in [at : {"Length"}, header : Nat, value : Nat, mult : Nat]
              /\ reader'.mult = Powers[(j + 1) + 1]
          BY <1>1, <1>4, <1>5, <3>7, <4>2, <4>3, LengthSteps
        <4>5. inbound' = SubSeq(Malformed, (j + 1) + 2, 7) \o rest  BY <1>1, <3>4, <3>5
        <4>6. reader'.at = "Length"  BY <4>4
        <4> QED BY <2>1, <4>1, <4>4, <4>5, <4>6 DEF InLength
      <3> QED BY <3>8, <3>9
    <2>2. CASE Due # None
      <3>1. Due \in PeerFrames  BY <1>3, <2>2 DEF SentFrame
      <3> DEFINE p == Due.payload
      <3>2. p \in ByteSeq /\ Len(p) \in Nat /\ Len(p) < LenBase * LenBase * LenBase * LenBase
            /\ Due.header \in Nat
        BY <3>1, PeerFrame
      <3>3. PICK q \in Nat : /\ Len(p) = reader.value + q * reader.mult
                             /\ inbound = (EncodeLength[q] \o p) \o rest
        BY <1>2, <2>2 DEF InLength
      <3>4. PICK j \in 1..4 : reader.mult = Powers[j]  BY <1>2, <2>2 DEF InLength
      <3>5. reader.header = Due.header  BY <1>2, <2>2 DEF InLength
      <3>6. EncodeLength[q] = Digits(EncodeLength, q)  BY EncodeLengthDef
      <3>7. reader.value \in Nat /\ reader.mult \in Nat /\ LenBase \in Nat /\ LenBase > 1
        BY <1>5, FrameAssumption
      <3> HIDE DEF rest, p
      <3>8. CASE q < LenBase
        <4>1. inbound = (<<q>> \o p) \o rest  BY <3>3, <3>6, <3>8 DEF Digits
        <4>2. <<q>> \in ByteSeq /\ p \o rest \in ByteSeq  BY <1>3, <3>2, FirstByte, ByteStrings
        <4>3. inbound = <<q>> \o (p \o rest)
          <5> DEFINE s == <<q>>
          <5>1. s \in ByteSeq /\ inbound = (s \o p) \o rest  BY <4>1, <4>2
          <5> HIDE DEF s
          <5>2. inbound = s \o (p \o rest)  BY <1>3, <3>2, <5>1, ByteStrings
          <5> QED BY <5>2 DEF s
        <4>4. b = q /\ Tail(inbound) = p \o rest  BY <4>2, <4>3, FirstByte
        <4>5. b % LenBase = q /\ ~(b >= LenBase)
          <5>1. q \in 0..(LenBase - 1)  BY <3>7, <3>8
          <5> QED BY <3>7, <3>8, <4>4, <5>1, Remainders
        <4> HIDE DEF b
        <4>6. CASE Len(p) > MaxPayload
          <5>1. reader'.at = "Poisoned"
            BY <1>1, <1>4, <1>5, <3>3, <4>5, <4>6, LengthSteps
          <5> QED BY <5>1
        <4>7. CASE ~(Len(p) > MaxPayload)
          <5>1. reader' = [at |-> "Payload", header |-> reader.header, buf |-> <<>>,
                           target |-> Len(p)]
            BY <1>1, <1>4, <1>5, <3>3, <4>5, <4>7, LengthSteps
          <5>2. reader'.at = "Payload" /\ reader'.buf = <<>> /\ reader'.target = Len(p)
                /\ reader'.header = Due.header /\ Len(reader'.buf) = 0
                /\ reader' \in [at : {"Payload"}, header : Nat, buf : ByteSeq, target : Nat]
            BY <3>2, <3>5, <5>1, ByteStrings
          <5>3. SubSeq(p, 0 + 1, Len(p)) = p /\ SubSeq(p, 1, 0) = <<>>
            <6>1. p \in Seq(Nat)  BY <3>2 DEF ByteSeq
            <6> QED BY <6>1, SubSeqFull, SubSeqEmpty
          <5>4. inbound' = SubSeq(p, Len(reader'.buf) + 1, reader'.target) \o rest
            BY <1>1, <4>4, <5>2, <5>3
          <5>5. Len(p) <= MaxPayload  BY <3>2, <4>7, FrameAssumption
          <5>6. reader'.buf = SubSeq(p, 1, Len(reader'.buf))  BY <5>2, <5>3
          <5> QED BY <2>2, <3>2, <5>2, <5>4, <5>5, <5>6 DEF InPayload, p
        <4> QED BY <4>6, <4>7
      <3>9. CASE q >= LenBase
        <4> DEFINE d == q % LenBase
                   n == q \div LenBase
                   e == EncodeLength[q \div LenBase]
                   x == d + LenBase
        <4>1. d \in 0..(LenBase - 1) /\ n \in Nat /\ q = (LenBase * n) + d  BY Division
        <4>2. inbound = ((<<x>> \o e) \o p) \o rest
          <5>1. ~(q < LenBase)  BY <3>7, <3>9
          <5> QED BY <3>3, <3>6, <5>1 DEF Digits
        <4>3. x \in Nat /\ x >= LenBase /\ x % LenBase = d  BY <3>7, <4>1, Remainders
        <4>4. e \in ByteSeq  BY <4>1, EncodeLengthDef DEF ByteSeq
        <4> HIDE DEF d, n, e, x
        <4>5. (e \o p) \o rest \in ByteSeq /\ e \o p \in ByteSeq  BY <1>3, <3>2, <4>4, ByteStrings
        <4>6. inbound = <<x>> \o ((e \o p) \o rest)
          <5> DEFINE s == <<x>>
          <5>1. s \in ByteSeq /\ inbound = ((s \o e) \o p) \o rest
            BY <4>2, <4>3, <4>5, FirstByte
          <5> HIDE DEF s
          <5>2. (s \o e) \o p = s \o (e \o p)  BY <3>2, <4>4, <5>1, ByteStrings
          <5> DEFINE ep == e \o p
          <5>3. ep \in ByteSeq /\ inbound = (s \o ep) \o rest  BY <4>5, <5>1, <5>2
          <5> HIDE DEF ep
          <5>4. inbound = s \o (ep \o rest)  BY <1>3, <5>1, <5>3, ByteStrings
          <5> QED BY <5>4 DEF s, ep
        <4>7. b = x /\ Tail(inbound) = (e \o p) \o rest  BY <4>3, <4>5, <4>6, FirstByte
        <4> HIDE DEF b
        <4>8. j # 4
          <5> SUFFICES ASSUME j = 4 PROVE FALSE  OBVIOUS
          <5> DEFINE c == reader.mult
          <5>1. c * LenBase = LenBase * LenBase * LenBase * LenBase  BY <3>4, PowerFacts
          <5>2. Len(p) < c * LenBase /\ Len(p) = reader.value + q * c  BY <3>2, <3>3, <5>1
          <5> HIDE DEF c
          <5>3. c \in Nat  BY <3>7 DEF c
          <5>4. q * c >= c * LenBase  BY <3>7, <3>9, <5>3
          <5> QED BY <3>2, <3>7, <5>2, <5>3, <5>4
        <4>9. /\ reader.mult * LenBase = Powers[j + 1]
              /\ reader.mult * LenBase <= LenBase * LenBase * LenBase
              /\ j + 1 \in 1..4
          <5>1. j \in 1..3  BY <4>8
          <5> QED BY <3>4, <5>1, PowerFacts
        <4>10. ~(reader.mult * LenBase > LenBase * LenBase * LenBase)
          <5> DEFINE u == reader.mult * LenBase
                     w == LenBase * LenBase * LenBase
          <5>1. u \in Int /\ w \in Int /\ u <= w  BY <3>7, <4>9
          <5> HIDE DEF u, w
          <5>2. ~(u > w)  BY <5>1
          <5> QED BY <5>2 DEF u, w
        <4>11. /\ reader' \in [at : {"Length"}, header : Nat, value : Nat, mult : Nat]
               /\ reader'.header = reader.header
               /\ reader'.value = reader.value + d * reader.mult
               /\ reader'.mult = reader.mult * LenBase
          <5>1. d \in Nat /\ b \in Nat /\ b >= LenBase /\ b % LenBase = d
            BY <1>4, <3>7, <4>1, <4>3, <4>7
          <5> QED BY <1>1, <1>5, <4>10, <5>1, LengthSteps
        <4>12. Len(p) = reader'.value + n * reader'.mult
          <5> DEFINE m == reader.mult
          <5>1. m \in Nat /\ d \in Nat  BY <3>7, <4>1
          <5>2. q * m = (n * (m * LenBase)) + (d * m)
            <6> HIDE DEF m
            <6>1. q * m = ((LenBase * n) + d) * m  BY <4>1
            <6>2. ((LenBase * n) + d) * m = (n * (m * LenBase)) + (d * m)  BY <3>7, <4>1, <5>1
            <6> QED BY <6>1, <6>2
          <5>3. n * (m * LenBase) \in Nat /\ d * m \in Nat  BY <3>7, <4>1, <5>1
          <5>4. reader.value + ((n * (m * LenBase)) + (d * m))
                  = (reader.value + d * m) + n * (m * LenBase)
            BY <3>7, <5>3
          <5> QED BY <3>3, <4>11, <5>2, <5>4
        <4>13. inbound' = (EncodeLength[n] \o p) \o rest  BY <1>1, <4>7 DEF e, n
        <4>14. reader'.at = "Length" /\ reader'.header = Due.header /\ reader'.mult = Powers[j + 1]
          BY <3>5, <4>9, <4>11
        <4> QED BY <2>2, <4>1, <4>9, <4>11, <4>12, <4>13, <4>14 DEF InLength, p
      <3> QED BY <3>7, <3>8, <3>9
    <2> QED BY <2>1, <2>2
  <1>7. FrameTypeOK'
    <2>1. inbound' \in ByteSeq /\ capacity' \in Nat /\ inCall' \in BOOLEAN
      BY <1>1, <1>2, <1>4
    <2> QED BY <1>1, <1>6, <2>1 DEF FrameInv, FrameTypeOK
  <1>8. FramesInStep'  BY <1>1 DEF FrameInv, FramesInStep
  <1>9. WhereInv'  BY <1>1, <1>2, <1>3, <1>6 DEF WhereInv, Due
  <1>10. RoomInv'
    <2>1. toRead' = 0  BY <1>1, <1>2
    <2>2. ASSUME reader'.at = "Payload"
          PROVE  capacity' <= Len(reader'.buf) + GrowthChunk
                 /\ toRead' <= reader'.target - Len(reader'.buf)
      <3>1. Len(reader'.buf) = 0 /\ reader'.target \in Nat /\ capacity' = 0
        BY <1>1, <1>6, <2>2 DEF InPayload
      <3> QED BY <2>1, <3>1, FrameAssumption
    <2> QED BY <2>1, <2>2 DEF RoomInv, AllocationFollowsArrival
  <1> QED BY <1>7, <1>8, <1>9, <1>10 DEF FrameInv

LEMMA SubBytes ==
  ASSUME NEW s \in ByteSeq, NEW m \in Nat \ {0}, NEW n \in Nat, n <= Len(s), m <= n + 1
  PROVE  /\ SubSeq(s, m, n) \in ByteSeq /\ Len(SubSeq(s, m, n)) = n - m + 1
         /\ \A i \in 1..(n - m + 1) : SubSeq(s, m, n)[i] = s[m + i - 1]
  <1>1. s \in Seq(Nat) /\ Len(s) \in Nat  BY DEF ByteSeq
  <1>2. \A i \in m..n : i \in 1..Len(s)  BY <1>1
  <1>3. \A i \in m..n : s[i] \in Nat  BY <1>1, <1>2, ElementOfSeq
  <1>4. /\ SubSeq(s, m, n) \in Seq(Nat)
        /\ Len(SubSeq(s, m, n)) = IF m <= n THEN n - m + 1 ELSE 0
        /\ \A i \in 1..(n - m + 1) : SubSeq(s, m, n)[i] = s[m + i - 1]
    BY <1>3, SubSeqProperties
  <1>5. (IF m <= n THEN n - m + 1 ELSE 0) = n - m + 1  OBVIOUS
  <1> QED BY <1>4, <1>5 DEF ByteSeq

\* Reading n more bytes of a payload p of which b are held: what is there
\* before, and what becomes of it.
Reading(p, b, n, rest, bytes) ==
  /\ p \in ByteSeq /\ rest \in ByteSeq /\ b \in 0..Len(p) /\ n \in 0..(Len(p) - b)
  /\ bytes = SubSeq(p, b + 1, Len(p)) \o rest
ReadOn(p, b, n, rest, bytes) ==
  /\ SubSeq(p, 1, b) \o SubSeq(bytes, 1, n) = SubSeq(p, 1, b + n)
  /\ SubSeq(bytes, n + 1, Len(bytes)) = SubSeq(p, b + n + 1, Len(p)) \o rest

LEMMA ReadingOn ==
  ASSUME NEW p, NEW b, NEW n, NEW rest, NEW bytes, Reading(p, b, n, rest, bytes)
  PROVE  ReadOn(p, b, n, rest, bytes)
  <1> DEFINE l == SubSeq(p, b + 1, Len(p))
             x == SubSeq(p, b + 1, b + n)
             y == SubSeq(p, b + n + 1, Len(p))
             yr == y \o rest
  <1>1. p \in Seq(Nat) /\ rest \in Seq(Nat) /\ Len(p) \in Nat /\ Len(rest) \in Nat
        /\ n \in Nat /\ b \in Nat /\ b + n <= Len(p)
    <2>1. p \in Seq(Nat) /\ rest \in Seq(Nat) /\ Len(p) \in Nat /\ Len(rest) \in Nat
      BY DEF ByteSeq, Reading
    <2> QED BY <2>1 DEF Reading
  <1>2. b + 1 \in 1..(Len(p) + 1) /\ b + n \in (b + 1 - 1)..Len(p) /\ Len(p) \in (b + n)..Len(p)
        /\ 1 \in 1..(Len(p) + 1) /\ b \in (1 - 1)..Len(p) /\ b + n \in b..Len(p)
    BY <1>1
  <1>3. x \o y = l
    <2> DEFINE m == b + 1
               c == b + n
    <2>1. m \in 1..(Len(p) + 1) /\ c \in (m - 1)..Len(p) /\ Len(p) \in c..Len(p)  BY <1>2
    <2> HIDE DEF m, c
    <2>2. SubSeq(p, m, c) \o SubSeq(p, c + 1, Len(p)) = SubSeq(p, m, Len(p))
      BY <1>1, <2>1, ConcatAdjacentSubSeq
    <2> QED BY <2>2 DEF m, c
  <1>4. SubSeq(p, 1, b) \o x = SubSeq(p, 1, b + n)  BY <1>1, <1>2, ConcatAdjacentSubSeq
  <1>5. x \in Seq(Nat) /\ Len(x) = n
    <2> DEFINE m == b + 1
               c == b + n
    <2>1. p \in ByteSeq /\ m \in Nat \ {0} /\ c \in Nat /\ c <= Len(p) /\ m <= c + 1
          /\ c - m + 1 = n
      BY <1>1 DEF ByteSeq
    <2> HIDE DEF m, c
    <2>2. SubSeq(p, m, c) \in ByteSeq /\ Len(SubSeq(p, m, c)) = c - m + 1  BY <2>1, SubBytes
    <2>3. x = SubSeq(p, m, c)  BY DEF m, c
    <2> HIDE DEF x
    <2> QED BY <2>1, <2>2, <2>3 DEF ByteSeq
  <1>6. y \in Seq(Nat)
    <2>1. \A i \in (b + n + 1)..Len(p) : i \in 1..Len(p)  BY <1>1
    <2>2. \A i \in (b + n + 1)..Len(p) : p[i] \in Nat  BY <1>1, <2>1, ElementOfSeq
    <2> QED BY <1>1, <2>2, SubSeqProperties
  <1>7. yr \in Seq(Nat)  BY <1>1, <1>6, ConcatProperties
  <1> HIDE DEF x, y, l
  <1>8. bytes = x \o yr
    <2>1. (x \o y) \o rest = x \o (y \o rest)  
      <3>1. x \in ByteSeq /\ y \in ByteSeq /\ rest \in ByteSeq  BY <1>1, <1>5, <1>6 DEF ByteSeq
      <3> QED BY <3>1, ByteStrings
    <2>2. bytes = l \o rest  BY DEF l, Reading
    <2> QED BY <1>3, <2>1, <2>2
  <1> HIDE DEF yr
  <1>9. bytes \in Seq(Nat) /\ Len(bytes) = n + Len(yr) /\ Len(yr) \in Nat
        /\ \A i \in 1..(Len(x) + Len(yr)) : bytes[i] = IF i <= Len(x) THEN x[i] ELSE yr[i - Len(x)]
    <2>1. x \o yr \in Seq(Nat) /\ Len(x \o yr) = Len(x) + Len(yr)
          /\ \A i \in 1..(Len(x) + Len(yr)) :
               (x \o yr)[i] = IF i <= Len(x) THEN x[i] ELSE yr[i - Len(x)]
      BY <1>5, <1>7, ConcatProperties, Zenon
    <2>2. Len(yr) \in Nat  BY <1>7
    <2> QED BY <1>5, <1>8, <2>1, <2>2
  <1>10. SubSeq(bytes, 1, n) = x
    <2> DEFINE s == SubSeq(bytes, 1, n)
    <2>1. bytes \in ByteSeq /\ n <= Len(bytes) /\ 1 <= n + 1 /\ 1 \in Nat \ {0} /\ n \in Nat
      BY <1>1, <1>9 DEF ByteSeq
    <2>2. s \in ByteSeq /\ Len(s) = n - 1 + 1 /\ \A i \in 1..(n - 1 + 1) : s[i] = bytes[1 + i - 1]
      BY <2>1, SubBytes, Zenon
    <2> HIDE DEF s
    <2>3. Len(s) = n  BY <1>1, <2>2
    <2>4. ASSUME NEW i \in 1..n PROVE s[i] = x[i]
      <3>1. i \in 1..(n - 1 + 1) /\ 1 + i - 1 = i /\ i \in 1..(Len(x) + Len(yr)) /\ i <= Len(x)
        BY <1>1, <1>5, <1>9
      <3> QED BY <1>9, <2>2, <3>1
    <2>5. s = x  BY <1>5, <2>2, <2>3, <2>4, SeqEqual DEF ByteSeq
    <2> QED BY <2>5 DEF s
  <1>11. SubSeq(bytes, n + 1, Len(bytes)) = yr
    <2> DEFINE s == SubSeq(bytes, n + 1, Len(bytes))
               c == Len(bytes)
               m == n + 1
    <2>1. bytes \in ByteSeq /\ c \in Nat /\ m \in Nat \ {0} /\ c <= Len(bytes) /\ m <= c + 1
      BY <1>1, <1>9 DEF ByteSeq
    <2>2. s \in ByteSeq /\ Len(s) = c - m + 1 /\ \A i \in 1..(c - m + 1) : s[i] = bytes[m + i - 1]
      <3> HIDE DEF c, m
      <3>1. SubSeq(bytes, m, c) \in ByteSeq /\ Len(SubSeq(bytes, m, c)) = c - m + 1
            /\ \A i \in 1..(c - m + 1) : SubSeq(bytes, m, c)[i] = bytes[m + i - 1]
        BY <2>1, SubBytes, Zenon
      <3>2. s = SubSeq(bytes, m, c)  BY DEF c, m
      <3> HIDE DEF s
      <3> QED BY <3>1, <3>2
    <2> HIDE DEF s
    <2>3. Len(s) = Len(yr)  BY <1>1, <1>9, <2>2
    <2>4. ASSUME NEW i \in 1..Len(s) PROVE s[i] = yr[i]
      <3>1. i \in 1..(c - m + 1) /\ m + i - 1 = n + i
            /\ n + i \in 1..(Len(x) + Len(yr)) /\ ~(n + i <= Len(x)) /\ (n + i) - Len(x) = i
        BY <1>1, <1>5, <1>9, <2>3
      <3>2. s[i] = bytes[n + i]  BY <2>2, <3>1
      <3> QED BY <1>9, <3>1, <3>2
    <2>5. s = yr  BY <1>7, <2>2, <2>3, <2>4, SeqEqual DEF ByteSeq
    <2> QED BY <2>5 DEF s
  <1> QED BY <1>4, <1>10, <1>11 DEF yr, y, ReadOn

LEMMA InPayloadFacts ==
  ASSUME FrameInv, reader.at = "Payload"
  PROVE  /\ Len(got) < Len(sent) /\ Due \in PeerFrames /\ RestOf(sent, Len(got) + 1) \in ByteSeq
         /\ InPayload(Due, reader, inbound, RestOf(sent, Len(got) + 1))
         /\ reader \in [at : {"Payload"}, header : Nat, buf : ByteSeq, target : Nat]
         /\ Len(reader.buf) \in Nat /\ reader.target \in Nat /\ Len(reader.buf) <= reader.target
         /\ toRead <= reader.target - Len(reader.buf) /\ toRead \in Nat /\ capacity \in Nat
         /\ capacity <= Len(reader.buf) + GrowthChunk
  <1>1. Len(got) < Len(sent) /\ InPayload(Due, reader, inbound, RestOf(sent, Len(got) + 1))
    BY DEF FrameInv, WhereInv
  <1>2. Due \in SentFrame /\ RestOf(sent, Len(got) + 1) \in ByteSeq  BY <1>1, Due1
  <1>3. Due \in PeerFrames  BY <1>1, <1>2 DEF SentFrame, InPayload
  <1>4. reader \in [at : {"Payload"}, header : Nat, buf : ByteSeq, target : Nat]
        /\ Len(reader.buf) <= reader.target
    BY <1>1 DEF InPayload
  <1>5. Len(reader.buf) \in Nat /\ reader.target \in Nat  BY <1>4 DEF ByteSeq
  <1> QED BY <1>1, <1>2, <1>3, <1>4, <1>5
      DEF FrameInv, FrameTypeOK, RoomInv, AllocationFollowsArrival

LEMMA GrowBufferStep ==
  ASSUME FrameInv, GrowBuffer
  PROVE  FrameInv'
  <1>1. /\ reader.at = "Payload" /\ Len(reader.buf) < reader.target
        /\ toRead' = Grow(Len(reader.buf), reader.target)
        /\ capacity' = (IF capacity < Len(reader.buf) + toRead' THEN Len(reader.buf) + toRead'
                        ELSE capacity)
        /\ UNCHANGED <<sent, inbound, reader, inCall, got>>
    BY DEF GrowBuffer
  <1>2. Len(reader.buf) \in Nat /\ reader.target \in Nat /\ capacity \in Nat
        /\ capacity <= Len(reader.buf) + GrowthChunk /\ GrowthChunk \in Nat
    BY <1>1, InPayloadFacts, FrameAssumption
  <1>3. toRead' \in Nat /\ toRead' <= reader.target - Len(reader.buf) /\ toRead' <= GrowthChunk
    BY <1>1, <1>2 DEF Grow
  <1>4. capacity' \in Nat /\ capacity' <= Len(reader.buf) + GrowthChunk  BY <1>1, <1>2, <1>3
  <1>5. FrameTypeOK'  BY <1>1, <1>3, <1>4 DEF FrameInv, FrameTypeOK
  <1>6. FramesInStep' /\ WhereInv'  BY <1>1 DEF FrameInv, FramesInStep, WhereInv, Due
  <1>7. RoomInv'  BY <1>1, <1>3, <1>4 DEF RoomInv, AllocationFollowsArrival
  <1> QED BY <1>5, <1>6, <1>7 DEF FrameInv

LEMMA ReadPayloadStep ==
  ASSUME FrameInv, NEW n \in 1..Scratch, ReadPayload(n)
  PROVE  FrameInv'
  <1> DEFINE rest == RestOf(sent, Len(got) + 1)
             p == Due.payload
             b == Len(reader.buf)
  <1>1. /\ reader.at = "Payload" /\ n <= toRead
        /\ reader' = [reader EXCEPT !.buf = @ \o SubSeq(inbound, 1, n)]
        /\ inbound' = SubSeq(inbound, n + 1, Len(inbound))
        /\ toRead' = toRead - n /\ UNCHANGED <<sent, capacity, inCall, got>> /\ n \in Nat
    BY FrameAssumption DEF ReadPayload
  <1>2. /\ Due \in PeerFrames /\ rest \in ByteSeq /\ InPayload(Due, reader, inbound, rest)
        /\ reader \in [at : {"Payload"}, header : Nat, buf : ByteSeq, target : Nat]
        /\ b \in Nat /\ reader.target \in Nat /\ b <= reader.target
        /\ toRead <= reader.target - b /\ toRead \in Nat /\ capacity \in Nat
        /\ capacity <= b + GrowthChunk /\ Len(got) < Len(sent)
    BY <1>1, InPayloadFacts
  <1>3. p \in ByteSeq /\ reader.target = Len(p) /\ reader.buf = SubSeq(p, 1, b)
        /\ inbound = SubSeq(p, b + 1, Len(p)) \o rest /\ Due # None /\ reader.header = Due.header
        /\ reader.target <= MaxPayload
    BY <1>2, PeerFrame DEF InPayload
  <1>4. b \in 0..Len(p) /\ n \in 0..(Len(p) - b) /\ b + n <= Len(p) /\ Len(p) \in Nat
        /\ b + n \in Nat
    <2>1. n \in Nat /\ b \in Nat /\ reader.target \in Nat /\ toRead \in Nat
          /\ b <= reader.target /\ toRead <= reader.target - b /\ n <= toRead
      BY <1>1, <1>2
    <2>2. b \in 0..reader.target /\ n \in 0..(reader.target - b) /\ b + n <= reader.target
          /\ b + n \in Nat
      BY <2>1
    <2> QED BY <1>3, <2>1, <2>2
  <1> HIDE DEF rest, p, b
  <1>5. /\ SubSeq(p, 1, b) \o SubSeq(inbound, 1, n) = SubSeq(p, 1, b + n)
        /\ inbound' = SubSeq(p, b + n + 1, Len(p)) \o rest
    <2>1. SubSeq(inbound, n + 1, Len(inbound)) = SubSeq(p, b + n + 1, Len(p)) \o rest
          /\ SubSeq(p, 1, b) \o SubSeq(inbound, 1, n) = SubSeq(p, 1, b + n)
      <3>1. Reading(p, b, n, rest, inbound)  BY <1>2, <1>3, <1>4 DEF Reading
      <3>2. ReadOn(p, b, n, rest, inbound)  BY <3>1, ReadingOn
      <3> QED BY <3>2 DEF ReadOn
    <2> QED BY <1>1, <2>1
  <1>6. SubSeq(p, 1, b + n) \in ByteSeq /\ Len(SubSeq(p, 1, b + n)) = b + n
    <2> DEFINE c == b + n
    <2>1. c \in Nat /\ c <= Len(p) /\ 1 <= c + 1  BY <1>4
    <2> HIDE DEF c
    <2>2. SubSeq(p, 1, c) \in ByteSeq /\ Len(SubSeq(p, 1, c)) = c - 1 + 1
      BY <1>3, <2>1, SubBytes
    <2>3. c - 1 + 1 = c  BY <2>1
    <2> QED BY <2>2, <2>3 DEF c
  <1>7. /\ reader' \in [at : {"Payload"}, header : Nat, buf : ByteSeq, target : Nat]
        /\ reader'.at = "Payload" /\ reader'.buf = SubSeq(p, 1, b + n)
        /\ reader'.header = reader.header /\ reader'.target = reader.target
    <2> DEFINE s == SubSeq(p, 1, b + n)
    <2>1. reader' = [reader EXCEPT !.buf = s]  BY <1>1, <1>3, <1>5
    <2>2. s \in ByteSeq  BY <1>6
    <2> HIDE DEF s
    <2>3. /\ reader' \in [at : {"Payload"}, header : Nat, buf : ByteSeq, target : Nat]
          /\ reader'.at = "Payload" /\ reader'.buf = s
          /\ reader'.header = reader.header /\ reader'.target = reader.target
      BY <1>2, <2>1, <2>2
    <2> QED BY <2>3 DEF s
  <1>8. Len(reader'.buf) = b + n  BY <1>6, <1>7
  <1>9. inbound' \in ByteSeq
    <2>1. p \in Seq(Nat)  BY <1>3 DEF ByteSeq
    <2>2. \A i \in (b + n + 1)..Len(p) : i \in 1..Len(p)  BY <1>4
    <2>3. \A i \in (b + n + 1)..Len(p) : p[i] \in Nat  BY <2>1, <2>2, ElementOfSeq
    <2>4. SubSeq(p, b + n + 1, Len(p)) \in ByteSeq  BY <1>4, <2>3, SubSeqProperties DEF ByteSeq
    <2> QED BY <1>2, <1>5, <2>4, ByteStrings
  <1>10. Due' = Due /\ RestOf(sent', Len(got') + 1) = rest  BY <1>1 DEF Due, rest
  <1>11. InPayload(Due, reader', inbound', rest)
    <2>1. b + n <= reader'.target  BY <1>3, <1>4, <1>7
    <2> QED BY <1>3, <1>5, <1>7, <1>8, <2>1 DEF InPayload, p
  <1>12. FrameTypeOK'
    <2>1. toRead' \in Nat  BY <1>1, <1>2
    <2> QED BY <1>1, <1>7, <1>9, <2>1 DEF FrameInv, FrameTypeOK
  <1>13. FramesInStep'  BY <1>1 DEF FrameInv, FramesInStep
  <1>14. WhereInv'  BY <1>1, <1>2, <1>7, <1>10, <1>11 DEF WhereInv
  <1>15. RoomInv'
    <2>0. n \in Nat /\ b \in Nat /\ toRead \in Nat /\ reader.target \in Nat /\ capacity \in Nat
          /\ GrowthChunk \in Nat
      BY <1>1, <1>2, FrameAssumption
    <2>1. toRead' <= reader'.target - Len(reader'.buf)
      <3>1. toRead - n <= reader.target - (b + n)  BY <1>2, <2>0
      <3> QED BY <1>1, <1>7, <1>8, <3>1
    <2>2. capacity' <= Len(reader'.buf) + GrowthChunk
      <3>1. capacity <= (b + n) + GrowthChunk  BY <1>2, <2>0
      <3> QED BY <1>1, <1>8, <3>1
    <2> QED BY <1>7, <2>1, <2>2 DEF RoomInv, AllocationFollowsArrival
  <1> QED BY <1>12, <1>13, <1>14, <1>15 DEF FrameInv

LEMMA ReturnFrameStep ==
  ASSUME FrameInv, ReturnFrame
  PROVE  FrameInv'
  <1> DEFINE k == Len(got)
             rest == RestOf(sent, k + 1)
             p == Due.payload
  <1>1. /\ reader.at = "Payload" /\ Len(reader.buf) = reader.target
        /\ got' = Append(got, [header |-> reader.header, payload |-> reader.buf])
        /\ reader' = [at |-> "Idle"] /\ capacity' = 0 /\ inCall' = FALSE /\ toRead' = 0
        /\ UNCHANGED <<sent, inbound>>
    BY DEF ReturnFrame
  <1>2. /\ Due \in PeerFrames /\ rest \in ByteSeq /\ InPayload(Due, reader, inbound, rest)
        /\ k < Len(sent)
    BY <1>1, InPayloadFacts
  <1>3. p \in Seq(Nat) /\ Len(p) \in Nat /\ Due = [header |-> Due.header, payload |-> p]
    BY <1>2, PeerFrame DEF ByteSeq
  <1>4. Len(reader.buf) = Len(p) /\ reader.header = Due.header /\ Len(p) <= MaxPayload
        /\ reader.buf = SubSeq(p, 1, Len(p)) /\ inbound = SubSeq(p, Len(p) + 1, Len(p)) \o rest
    BY <1>1, <1>2 DEF InPayload
  <1>5. reader.buf = p  BY <1>3, <1>4, SubSeqFull
  <1>6. inbound = rest
    <2>1. SubSeq(p, Len(p) + 1, Len(p)) = <<>>  BY <1>3, SubSeqEmpty
    <2> HIDE DEF rest
    <2> QED BY <1>2, <1>4, <2>1, ByteStrings
  <1>7. got' = Append(got, Due)  BY <1>1, <1>3, <1>4, <1>5
  <1>8. got \in Seq(PeerFrames) /\ k \in Nat /\ Len(sent) \in Nat /\ sent \in Seq(SentFrame)
    BY DEF FrameInv, FrameTypeOK
  <1>9. got' \in Seq(PeerFrames) /\ Len(got') = k + 1 /\ got'[k + 1] = Due
        /\ \A i \in 1..k : got'[i] = got[i]
    BY <1>2, <1>7, <1>8, AppendProperties
  <1>10. reader'.at = "Idle"  BY <1>1
  <1>11. FrameTypeOK'  BY <1>1, <1>9, <1>10 DEF FrameInv, FrameTypeOK
  <1>12. FramesInStep'
    <2>1. Len(got') <= Len(sent')  BY <1>1, <1>2, <1>8, <1>9
    <2>2. ASSUME NEW i \in 1..Len(got') PROVE got'[i] = sent[i] /\ Acceptable(sent[i])
      <3>1. CASE i = k + 1
        <4>1. Acceptable(Due)  BY <1>4 DEF Acceptable
        <4> QED BY <1>9, <3>1, <4>1 DEF Due
      <3>2. CASE i # k + 1
        <4>1. i \in 1..k /\ i \in DOMAIN got  BY <1>8, <1>9, <3>2
        <4> QED BY <1>9, <4>1 DEF FrameInv, FramesInStep
      <3> QED BY <3>1, <3>2
    <2>3. DOMAIN got' = 1..Len(got')  BY <1>9
    <2> QED BY <1>1, <2>1, <2>2, <2>3 DEF FramesInStep
  <1>13. WhereInv'  BY <1>1, <1>6, <1>9, <1>10 DEF WhereInv
  <1>14. RoomInv'  BY <1>1, <1>10 DEF RoomInv, AllocationFollowsArrival
  <1> QED BY <1>11, <1>12, <1>13, <1>14 DEF FrameInv

\* BeginRead, StopReading and the failing call on a poisoned state.
LEMMA CallStep ==
  ASSUME FrameInv, UNCHANGED <<sent, inbound, reader, capacity, got>>,
         inCall' \in BOOLEAN, toRead' = toRead \/ toRead' = 0
  PROVE  FrameInv'
  <1>1. toRead \in Nat /\ toRead' \in Nat  BY DEF FrameInv, FrameTypeOK
  <1>2. FrameTypeOK'  BY <1>1 DEF FrameInv, FrameTypeOK
  <1>3. FramesInStep' /\ WhereInv'  BY DEF FrameInv, FramesInStep, WhereInv, Due
  <1>4. RoomInv'
    <2>1. reader.at # "Payload" => toRead' = 0  BY DEF FrameInv, RoomInv
    <2>2. ASSUME reader.at = "Payload" PROVE toRead' <= reader.target - Len(reader.buf)
      <3>1. Len(reader.buf) \in Nat /\ reader.target \in Nat /\ Len(reader.buf) <= reader.target
            /\ toRead <= reader.target - Len(reader.buf)
        BY <2>2, InPayloadFacts
      <3> QED BY <3>1
    <2>3. AllocationFollowsArrival'  BY DEF FrameInv, RoomInv, AllocationFollowsArrival
    <2> QED BY <2>1, <2>2, <2>3 DEF RoomInv
  <1> QED BY <1>2, <1>3, <1>4 DEF FrameInv

LEMMA FrameNextInv ==
  ASSUME FrameInv, [FrameNext]_frameVars
  PROVE  FrameInv'
  <1>1. ASSUME NEW f \in PeerFrames, PeerSends(f) PROVE FrameInv'
    <2>1. f \in SentFrame /\ Bytes(f) = EncodeFrame(f)  BY PeerFrame DEF SentFrame, Bytes
    <2> QED BY <1>1, <2>1, SendStep DEF PeerSends
  <1>2. ASSUME PeerSendsMalformed PROVE FrameInv'
    <2>1. None \in SentFrame /\ Bytes(None) = Malformed  BY DEF SentFrame, Bytes
    <2> QED BY <1>2, <2>1, SendStep DEF PeerSendsMalformed
  <1>3. ASSUME BeginRead PROVE FrameInv'  BY <1>3, CallStep DEF BeginRead
  <1>4. ASSUME PoisonedRead \/ UNCHANGED frameVars PROVE FrameInv'
    <2>1. inCall \in BOOLEAN  BY DEF FrameInv, FrameTypeOK
    <2> QED BY <1>4, <2>1, CallStep DEF PoisonedRead, frameVars
  <1>5. ASSUME StopReading PROVE FrameInv'  BY <1>5, CallStep DEF StopReading, KeptState
  <1> QED BY <1>1, <1>2, <1>3, <1>4, <1>5, ReadHeaderStep, ReadLengthStep, GrowBufferStep,
             ReadPayloadStep, ReturnFrameStep DEF FrameNext

\* What the reader holds and what is still inbound is the rest of what was sent.
LEMMA FrameInvReader == FrameInv => ReaderInStep
  <1> SUFFICES ASSUME FrameInv PROVE ReaderInStep  OBVIOUS
  <1>1. FramesInStep /\ AllocationFollowsArrival  BY DEF FrameInv, RoomInv
  <1> DEFINE k == Len(got)
  <1>2. FlattenSeq([i \in 1..(Len(sent) - k) |-> Bytes(sent[k + i])]) = RestOf(sent, k)
    BY Zenon DEF RestOf, BytesOf
  <1>3. inbound \in ByteSeq  BY DEF FrameInv, FrameTypeOK
  <1>4. reader.at = "Idle" => Held \o inbound = RestOf(sent, k)
    BY <1>3, ByteStrings DEF FrameInv, WhereInv, Held
  <1>5. ASSUME reader.at = "Payload" PROVE Held \o inbound = RestOf(sent, k)
    <2> DEFINE rest == RestOf(sent, k + 1)
               p == Due.payload
               h == <<Due.header>>
               e == EncodeLength[Len(p)]
               x == SubSeq(p, 1, Len(reader.buf))
               y == SubSeq(p, Len(reader.buf) + 1, Len(p))
    <2>1. /\ k < Len(sent) /\ Due \in PeerFrames /\ rest \in ByteSeq
          /\ InPayload(Due, reader, inbound, rest)
          /\ Len(reader.buf) \in Nat /\ Len(reader.buf) <= reader.target
      BY <1>5, InPayloadFacts
    <2>2. p \in Seq(Nat) /\ Len(p) \in Nat /\ Due # None /\ Due.header \in Nat
          /\ Bytes(Due) = (h \o e) \o p
      BY <2>1, PeerFrame DEF ByteSeq, Bytes, EncodeFrame
    <2>3. reader.target = Len(p) /\ reader.buf = x /\ reader.header = Due.header
          /\ inbound = y \o rest
      BY <2>1 DEF InPayload
    <2>4. Held = (h \o e) \o x
      <3>1. Held = (<<reader.header>> \o EncodeLength[reader.target]) \o reader.buf
        BY <1>5 DEF Held
      <3> QED BY <2>3, <3>1
    <2>5. x \o y = p
      <3>1. 1 \in 1..(Len(p) + 1) /\ Len(reader.buf) \in (1 - 1)..Len(p)
            /\ Len(p) \in Len(reader.buf)..Len(p)
        BY <2>1, <2>2, <2>3
      <3>2. x \o y = SubSeq(p, 1, Len(p))  BY <2>2, <3>1, ConcatAdjacentSubSeq
      <3> QED BY <2>2, <3>2, SubSeqFull
    <2>6. x \in ByteSeq /\ y \in ByteSeq
      <3>1. x \in ByteSeq  BY <1>5, <2>3, InPayloadFacts
      <3>2. \A i \in (Len(reader.buf) + 1)..Len(p) : i \in 1..Len(p)  BY <2>1, <2>2
      <3>3. \A i \in (Len(reader.buf) + 1)..Len(p) : p[i] \in Nat  BY <2>2, <3>2, ElementOfSeq
      <3>4. y \in ByteSeq  BY <2>1, <2>2, <3>3, SubSeqProperties DEF ByteSeq
      <3> QED BY <3>1, <3>4
    <2>7. h \in ByteSeq /\ e \in ByteSeq
      BY <2>2, ByteStrings, FirstByte, EncodeLengthDef DEF ByteSeq
    <2>8. RestOf(sent, k) = Bytes(Due) \o rest  BY <2>1, Due1
    <2> HIDE DEF rest, p, h, e, x, y
    <2>9. h \o e \in ByteSeq /\ (h \o e) \o x \in ByteSeq  BY <2>6, <2>7, ByteStrings
    <2>10. ((h \o e) \o x) \o (y \o rest) = (((h \o e) \o x) \o y) \o rest
      BY <2>1, <2>6, <2>9, ByteStrings
    <2>11. ((h \o e) \o x) \o y = (h \o e) \o (x \o y)  BY <2>6, <2>9, ByteStrings
    <2> QED BY <2>2, <2>3, <2>4, <2>5, <2>8, <2>10, <2>11
  <1>6. NothingLost  BY <1>2, <1>4, <1>5 DEF NothingLost
  <1> QED BY <1>1, <1>6 DEF ReaderInStep

\* read_exact_packet (mqtt/client/frame.rs:158) delivers the frames that were sent, whole and in
\* order, and loses no byte of the stream, wherever a timeout or a dropped future stops a call,
\* and its buffer grows with the bytes that arrive, for any frames, limits and chunk sizes.
THEOREM ReaderTheorem == FrameSpec => []ReaderInStep
  <1>1. FrameInit => FrameInv  BY FrameInitInv
  <1>2. FrameInv /\ [FrameNext]_frameVars => FrameInv'  BY FrameNextInv
  <1>3. FrameInv => ReaderInStep  BY FrameInvReader
  <1> QED BY <1>1, <1>2, <1>3, PTL DEF FrameSpec
============================================================================

---------------------------- MODULE CameraStream ----------------------------
(***************************************************************************)
(* BinaryCameraStream (src/camera/binary.rs): JPEG frames off one TLS       *)
(* stream, each a header that declares the payload's size and the payload.  *)
(* A read ends at its deadline, at a closed link or because the caller      *)
(* drops it, between any two chunks, and the next one must go on at the     *)
(* byte where it stopped: the stream has no marker to find its way back by. *)
(*                                                                         *)
(* A byte of the stream is its offset.  What a header declares is known to  *)
(* the model when it was read from where a header starts; read from         *)
(* anywhere else it declares any size.                                      *)
(***************************************************************************)
EXTENDS Integers, Sequences

CONSTANTS
  CamHeader,      \* CAMERA_FRAME_HEADER_SIZE
  CamMaxFrame,    \* max_frame_size
  CamJpegMin,     \* JPEG_MIN_LEN
  CamDiscard,     \* CAMERA_DISCARD_CHUNK_SIZE
  CamSizes,       \* payload sizes the printer declares
  CamFrames       \* bound: frames sent

ASSUME CamAssumption ==
  /\ CamHeader \in Nat \ {0} /\ CamSizes \subseteq Nat
  /\ {CamMaxFrame, CamJpegMin, CamDiscard, CamFrames} \subseteq Nat

VARIABLES
  film,     \* the frames sent on the stream: [start, size, markers]
  camera,   \* read_state: [at, from, have, want]
  taken,    \* bytes read off the stream
  inRead,   \* is read_next_frame running?
  verdicts  \* what the calls returned, as [from, as]; from: the header's offset

camVars == <<film, camera, taken, inRead, verdicts>>

Idle == [at |-> "idle", from |-> 0, have |-> 0, want |-> 0]

\* The end of what the printer has sent, where its next frame will start.
StreamEnd ==
  IF film = <<>> THEN 0
  ELSE LET last == film[Len(film)] IN last.start + CamHeader + last.size
FramesFrom(offset) == {i \in DOMAIN film : film[i].start = offset}

CamInit ==
  /\ film = <<>> /\ camera = Idle /\ taken = 0 /\ inRead = FALSE /\ verdicts = <<>>

\* The printer (external) sends a frame, with or without JPEG markers.
PrinterSends(size, markers) ==
  /\ Len(film) < CamFrames
  /\ film' = Append(film, [start |-> StreamEnd, size |-> size, markers |-> markers])
  /\ UNCHANGED <<camera, taken, inRead, verdicts>>

\* read_next_frame[_with_timer]: from Idle a fresh header, otherwise on from
\* where the last call stopped.
ReadNextFrame ==
  /\ ~inRead /\ inRead' = TRUE
  /\ camera' = IF camera.at = "idle"
               THEN [at |-> "header", from |-> taken, have |-> 0, want |-> CamHeader]
               ELSE camera
  /\ UNCHANGED <<film, taken, verdicts>>

\* Is the declared size over the limit?  (Mutant: one byte more is allowed.)
TooLargeMutant(size) == size > CamMaxFrame + 1
TooLarge(size) == size > CamMaxFrame

\* After a header that declares a payload: what is done with it.
AfterHeader(size) ==
  [at |-> IF TooLarge(size) THEN "discard" ELSE "payload",
   from |-> camera.from, have |-> 0, want |-> size]

Returns(as) ==
  /\ inRead' = FALSE /\ camera' = Idle
  /\ verdicts' = Append(verdicts, [from |-> camera.from, as |-> as])

DeclaredSizes ==
  LET here == FramesFrom(camera.from) IN
  IF here = {} THEN CamSizes ELSE {film[i].size : i \in here}

\* The header is whole.
HeaderRead ==
  \E size \in DeclaredSizes :
    IF size = 0 THEN Returns("empty")
    ELSE /\ camera' = AfterHeader(size)
         /\ UNCHANGED <<inRead, verdicts>>

\* The payload is whole: the markers at its ends.
PayloadRead ==
  LET marked == {film[i].markers : i \in FramesFrom(camera.from)} IN
  Returns(IF camera.want >= CamJpegMin /\ marked = {TRUE} THEN "frame" ELSE "markers")

\* One read_chunk of fill, or of the drain: as many bytes as the stream has,
\* up to what is missing.
ReadChunk(n) ==
  /\ inRead /\ camera.have < camera.want
  /\ n <= camera.want - camera.have /\ n <= StreamEnd - taken
  /\ camera.at = "discard" => n <= CamDiscard
  /\ taken' = taken + n
  /\ \/ /\ camera.have + n < camera.want
        /\ camera' = [camera EXCEPT !.have = @ + n]
        /\ UNCHANGED <<inRead, verdicts>>
     \/ /\ camera.have + n = camera.want
        /\ \/ camera.at = "header" /\ HeaderRead
           \/ camera.at = "payload" /\ PayloadRead
           \/ camera.at = "discard" /\ Returns("oversized")
  /\ UNCHANGED film

\* A deadline, a closed link or a drop ends the call; the state is the
\* stream's.  (Mutant: it is the call's.)
ReaderKeptMutant == Idle
ReaderKept == camera

ReadEnds ==
  /\ inRead /\ inRead' = FALSE
  /\ camera' = ReaderKept
  /\ UNCHANGED <<film, taken, verdicts>>

CamNext ==
  \/ ReadNextFrame \/ ReadEnds
  \/ \E n \in 1..(camera.want - camera.have) : ReadChunk(n)
  \/ \E size \in CamSizes, markers \in BOOLEAN : PrinterSends(size, markers)

CamSpec == CamInit /\ [][CamNext]_camVars

(***************************************************************************)
(* Properties.                                                              *)
(***************************************************************************)
\* What each frame deserves.
Deserved(f) ==
  CASE f.size = 0 -> "empty"
    [] f.size > CamMaxFrame -> "oversized"
    [] f.size <= CamMaxFrame /\ f.size > 0 ->
         IF f.markers /\ f.size >= CamJpegMin THEN "frame" ELSE "markers"

\* Every frame the printer sends gets its own verdict, in the order sent, none
\* twice and none skipped, wherever reads were cut off (camera/binary.rs:83:
\* "losing this state would permanently desync the stream").
FramesJudgedInOrder ==
  /\ Len(verdicts) <= Len(film)
  /\ \A i \in DOMAIN verdicts :
       verdicts[i] = [from |-> film[i].start, as |-> Deserved(film[i])]

\* No buffer is allocated above the configured size, whatever a header
\* declares, and a frame of exactly that size is still accepted
\* (with_max_frame_size; on embedded targets the allocation would abort).
FrameBufferBounded ==
  /\ camera.at = "payload" => camera.want <= CamMaxFrame
  /\ camera.at = "discard" => camera.want > CamMaxFrame

\* The camera reader stays in step over timeouts and dropped calls: every frame
\* is judged in the order it was sent and the buffer keeps its bound
\* (camera/binary.rs).
CameraInStep == FramesJudgedInOrder /\ FrameBufferBounded
=============================================================================

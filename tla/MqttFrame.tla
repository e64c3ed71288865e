------------------------------ MODULE MqttFrame ------------------------------
(***************************************************************************)
(* Reading MQTT frames off a byte stream (src/mqtt/client/frame.rs): a      *)
(* fixed header byte, a remaining length of at most four base-LenBase       *)
(* digits, a payload.  One call of read_exact_packet reads until a frame is *)
(* whole, but every read of bytes inside it may time out, and the caller    *)
(* may drop the future at any of them; FrameReadState is what the next call *)
(* resumes from.                                                            *)
(*                                                                         *)
(* A byte is a number below 2 * LenBase, whatever its place, so a reader    *)
(* that loses its place takes a byte of a payload for a header.             *)
(***************************************************************************)
EXTENDS Integers, Sequences, Options, SequencesExt

CONSTANTS
  LenBase,       \* digits of the remaining length; 128 in the code
  MaxPayload,    \* MQTT_MAX_PAYLOAD_BYTES
  GrowthChunk,   \* PAYLOAD_GROWTH_CHUNK
  Scratch,       \* READ_SCRATCH_BYTES
  FrameLengths,  \* payload lengths the peer sends
  MaxFrames      \* bound: frames the peer sends

ASSUME FrameAssumption ==
  /\ LenBase \in Nat /\ LenBase > 1
  /\ MaxPayload \in Nat /\ GrowthChunk \in Nat \ {0} /\ Scratch \in Nat \ {0}
  /\ FrameLengths \subseteq 0..(LenBase * LenBase * LenBase * LenBase - 1) /\ MaxFrames \in Nat

VARIABLES
  sent,       \* the frames the peer sent, in order
  inbound,    \* their bytes the client has not read
  reader,     \* FrameReadState
  capacity,   \* of the payload buffer
  inCall,     \* is a call of read_exact_packet under way?
  toRead,     \* its local `remaining`: bytes still to read of this growth step
  got         \* frames returned to the caller

frameVars == <<sent, inbound, reader, capacity, inCall, toRead, got>>

(***************************************************************************)
(* The peer.  Its frames are encoded as this crate's codec encodes one: a   *)
(* frame with more length digits than four is malformed.                    *)
(***************************************************************************)
\* encode_remaining_length
EncodeLength[n \in Nat] ==
  IF n < LenBase THEN <<n>>
  ELSE <<(n % LenBase) + LenBase>> \o EncodeLength[n \div LenBase]

\* frame
EncodeFrame(f) == <<f.header>> \o EncodeLength[Len(f.payload)] \o f.payload

PayloadOf(n, k) == [i \in 1..n |-> (i + k) % (2 * LenBase)]
PeerFrames == {[header |-> h, payload |-> PayloadOf(n, h)] : h \in {1, 2}, n \in FrameLengths}
\* `sent` records a malformed frame as None, which is no frame.
ASSUME NoneIsNoFrame == None \notin PeerFrames
Malformed == <<1>> \o [i \in 1..4 |-> 2 * LenBase - 1] \o <<0, 1>>

Acceptable(f) == Len(f.payload) <= MaxPayload

FrameInit ==
  /\ sent = <<>> /\ inbound = <<>>
  /\ reader = [at |-> "Idle"] /\ capacity = 0
  /\ inCall = FALSE /\ toRead = 0
  /\ got = <<>>

PeerSends(f) ==
  /\ Len(sent) < MaxFrames
  /\ sent' = Append(sent, f)
  /\ inbound' = inbound \o EncodeFrame(f)
  /\ UNCHANGED <<reader, capacity, inCall, toRead, got>>

PeerSendsMalformed ==
  /\ Len(sent) < MaxFrames
  /\ sent' = Append(sent, None)
  /\ inbound' = inbound \o Malformed
  /\ UNCHANGED <<reader, capacity, inCall, toRead, got>>

(***************************************************************************)
(* read_exact_packet.                                                       *)
(***************************************************************************)
\* A call on a poisoned state fails at once; any other call starts reading.
BeginRead ==
  /\ ~inCall /\ reader.at # "Poisoned"
  /\ inCall' = TRUE /\ toRead' = 0
  /\ UNCHANGED <<sent, inbound, reader, capacity, got>>

\* ... and its failure changes nothing.
PoisonedRead == ~inCall /\ reader.at = "Poisoned" /\ UNCHANGED frameVars

\* Fixed header: read_one_byte reads one byte or none.
ReadHeader ==
  /\ inCall /\ reader.at = "Idle" /\ inbound # <<>>
  /\ reader' = [at |-> "Length", header |-> Head(inbound), value |-> 0, mult |-> 1]
  /\ inbound' = Tail(inbound)
  /\ UNCHANGED <<sent, capacity, inCall, toRead, got>>

\* The state after the next digit of the remaining length.
\* (Mutant: a rejected frame leaves the reader Idle, as it once did.)
LengthStepMutant(r, b) ==
  LET value == r.value + (b % LenBase) * r.mult
      more == b >= LenBase
  IN IF more
     THEN IF r.mult * LenBase > LenBase * LenBase * LenBase THEN [at |-> "Idle"]
          ELSE [r EXCEPT !.value = value, !.mult = @ * LenBase]
     ELSE IF value > MaxPayload THEN [at |-> "Idle"]
     ELSE [at |-> "Payload", header |-> r.header, buf |-> <<>>, target |-> value]
LengthStep(r, b) ==
  LET value == r.value + (b % LenBase) * r.mult
      more == b >= LenBase
  IN IF more
     THEN IF r.mult * LenBase > LenBase * LenBase * LenBase THEN [at |-> "Poisoned"]
          ELSE [r EXCEPT !.value = value, !.mult = @ * LenBase]
     ELSE IF value > MaxPayload THEN [at |-> "Poisoned"]
     ELSE [at |-> "Payload", header |-> r.header, buf |-> <<>>, target |-> value]

ReadLength ==
  /\ inCall /\ reader.at = "Length" /\ inbound # <<>>
  /\ reader' = LengthStep(reader, Head(inbound))
  /\ inbound' = Tail(inbound)
  /\ inCall' = (reader'.at \in {"Length", "Payload"})
  /\ capacity' = IF reader'.at = "Payload" THEN 0 ELSE capacity
  /\ UNCHANGED <<sent, toRead, got>>

\* The outer loop's next growth step: reserve_exact for at most one chunk.
\* (Mutant: the buffer is sized from the declared length.)
GrowMutant(len, target) == target - len
Grow(len, target) == IF target - len < GrowthChunk THEN target - len ELSE GrowthChunk

GrowBuffer ==
  /\ inCall /\ reader.at = "Payload" /\ toRead = 0
  /\ Len(reader.buf) < reader.target
  /\ toRead' = Grow(Len(reader.buf), reader.target)
  /\ capacity' = IF capacity < Len(reader.buf) + toRead' THEN Len(reader.buf) + toRead' ELSE capacity
  /\ UNCHANGED <<sent, inbound, reader, inCall, got>>

\* The inner loop: one read_chunk of at most the scratch buffer, short or not.
ReadPayload(n) ==
  /\ inCall /\ reader.at = "Payload"
  /\ n <= toRead /\ n <= Scratch /\ n <= Len(inbound)
  /\ reader' = [reader EXCEPT !.buf = @ \o SubSeq(inbound, 1, n)]
  /\ inbound' = SubSeq(inbound, n + 1, Len(inbound))
  /\ toRead' = toRead - n
  /\ UNCHANGED <<sent, capacity, inCall, got>>

ReturnFrame ==
  /\ inCall /\ reader.at = "Payload" /\ Len(reader.buf) = reader.target
  /\ got' = Append(got, [header |-> reader.header, payload |-> reader.buf])
  /\ reader' = [at |-> "Idle"] /\ capacity' = 0
  /\ inCall' = FALSE /\ toRead' = 0
  /\ UNCHANGED <<sent, inbound>>

\* What a call that stops short leaves of its progress.
\* (Mutant: a stopped call starts the frame over.)
KeptStateMutant(r) == [at |-> "Idle"]
KeptState(r) == r

\* read_chunk times out, or the future is dropped at one of its awaits: the
\* call's locals are gone, the state stays.
StopReading ==
  /\ inCall
  /\ reader' = KeptState(reader)
  /\ inCall' = FALSE /\ toRead' = 0
  /\ UNCHANGED <<sent, inbound, capacity, got>>

FrameNext ==
  \/ \E f \in PeerFrames : PeerSends(f)
  \/ PeerSendsMalformed
  \/ BeginRead \/ PoisonedRead \/ ReadHeader \/ ReadLength \/ GrowBuffer
  \/ \E n \in 1..Scratch : ReadPayload(n)
  \/ ReturnFrame \/ StopReading

FrameSpec == FrameInit /\ [][FrameNext]_frameVars

(***************************************************************************)
(* Properties.                                                              *)
(***************************************************************************)
\* However the reads are cut up and however often a call is stopped, the
\* caller gets the frames the peer sent, whole and in order, and a frame the
\* client rejects ends the stream: nothing after it is ever returned
\* (read_exact_packet, "never violate this"; FrameReadState::Poisoned).
FramesInStep ==
  /\ Len(got) <= Len(sent)
  /\ \A i \in DOMAIN got : got[i] = sent[i] /\ Acceptable(sent[i])

Held ==
  CASE reader.at = "Idle" -> <<>>
    [] reader.at = "Length" -> <<reader.header>>
    [] reader.at = "Payload" -> <<reader.header>> \o EncodeLength[reader.target] \o reader.buf
    [] OTHER -> <<>>
Bytes(f) == IF f = None THEN Malformed ELSE EncodeFrame(f)

\* A rejected frame poisons the reader by the time its length has been read;
\* until then no byte of the stream is missing: what is held and what is still
\* inbound is the rest of what was sent (frame.rs:101-116).
NothingLost ==
  reader.at \in {"Idle", "Payload"} =>
    Held \o inbound = FlattenSeq([i \in 1..(Len(sent) - Len(got)) |-> Bytes(sent[Len(got) + i])])

\* The buffer is never more than one growth step larger than the bytes that
\* have arrived, whatever length the peer declared (PAYLOAD_GROWTH_CHUNK).
AllocationFollowsArrival ==
  reader.at = "Payload" => capacity <= Len(reader.buf) + GrowthChunk

\* The resumable reader delivers the frames that were sent, in step and with no
\* byte lost over timeouts and dropped polls, and allocates as bytes arrive, not
\* as a length declares (mqtt/client/frame.rs:158).
ReaderInStep == FramesInStep /\ NothingLost /\ AllocationFollowsArrival
=============================================================================

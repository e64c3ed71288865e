---------------------------- MODULE MqttSession ----------------------------
(***************************************************************************)
(* One connected MqttClient (src/mqtt/client/mod.rs and pending.rs) from    *)
(* the end of its handshake on, with the two read loops that drive it:      *)
(* MqttClient::poll_telemetry and PrinterClient::poll_until.                *)
(*                                                                         *)
(* Every operation takes `&mut self`, so one future at most is running; a   *)
(* caller may drop it at any of its await points (`select!`), which the     *)
(* action Cancel does.  The variable fut says where that future stands.     *)
(* The wire is not a variable: the packet a read returns is any packet a    *)
(* broker could have sent by then, and messages are numbered in the order   *)
(* in which they are read.  Whether a keepalive is due is a clock reading   *)
(* and nondeterministic here (MqttKeepalive has the clock); the byte level  *)
(* of a frame read is abstracted to "a packet", "an error that keeps the    *)
(* progress" and "an error that poisons the reader".                        *)
(***************************************************************************)
EXTENDS Integers, Sequences, FiniteSets

CONSTANTS
  Echoes,         \* EchoKeys of the commands in ACK_CORRELATED_COMMANDS
  NoEcho,         \* no EchoKey, or one whose command is not in that list
  Sizes,          \* topic + payload sizes a message can have
  Cap,            \* MQTT_PENDING_BUFFER_MAX_BYTES
  InFlightLimit,  \* MQTT_IN_FLIGHT_LIMIT
  MaxPacketId,    \* u16::MAX
  ZombieTimeout,  \* MQTT_ZOMBIE_TIMEOUT_SECS
  StaleTimeout,   \* MQTT_STALE_CONNECTION_SECS
  InFlightTtl,    \* MQTT_IN_FLIGHT_TTL_SECS
  Elapsed,        \* the elapsed_secs a caller passes to tick_zombie_check
  MaxMessages     \* bound: messages the broker publishes in the session

ASSUME EchoAssumption == NoEcho \notin Echoes
ASSUME SizeAssumption == Sizes \subseteq Nat \ {0}
ASSUME LimitAssumption ==
  /\ Cap \in Nat
  /\ InFlightLimit \in Nat \ {0}
  /\ MaxPacketId \in Nat \ {0}
  /\ MaxMessages \in Nat
ASSUME TimeAssumption ==
  /\ ZombieTimeout \in Nat \ {0}
  /\ StaleTimeout \in Nat \ {0}
  /\ InFlightTtl \in Nat \ {0}
  /\ Elapsed \subseteq Nat \ {0}
\* pending.rs asserts at compile time that one message fits under the cap.
ASSUME OneMessageFits == \A s \in Sizes : s <= Cap

VARIABLES
  next_packet_id,
  in_flight,                 \* packet id -> age in seconds
  pending_messages,
  pending_bytes,
  write_pending_secs,        \* the armed zombie clock, or Unarmed
  write_pending_echo,
  secs_since_last_message,
  read_poisoned,             \* read_state = FrameReadState::Poisoned
  write_poisoned,
  write_in_progress,
  fut,                       \* the running future
  hold,                      \* the message poll_until is about to stash
  unacked,                   \* packet ids the broker may still acknowledge
  sent,                      \* EchoKeys handed to a PUBLISH write
  waiting,                   \* published, echo unread: EchoKey -> seconds
  received,                  \* number of messages read off the wire
  handed,                    \* ids poll_telemetry returned, in order
  matched,                   \* ids poll_until's matcher accepted
  evicted,                   \* ids push_pending dropped
  torn                       \* an outbound frame was cut short

session == <<next_packet_id, in_flight, write_pending_secs,
             write_pending_echo, secs_since_last_message, read_poisoned>>
buffer  == <<pending_messages, pending_bytes>>
writer  == <<write_poisoned, write_in_progress, torn>>
fates   == <<received, handed, matched, evicted, hold>>
broker  == <<unacked, sent, waiting>>
vars    == <<session, buffer, writer, fates, broker, fut>>

PacketIds == 1..MaxPacketId
EchoOrNone == Echoes \cup {NoEcho}
Message == [id : Nat \ {0}, size : Sizes, echo : EchoOrNone]
NoMessage == [id |-> 0, size |-> 0, echo |-> NoEcho]
Unarmed == -1

Writing == {"publish", "ping", "puback"}
Awaiting == Writing \cup {"read"}
\* `want` is the EchoKey a publish carries or a poll_until looks for.
Future == [at   : {"idle", "loop", "push"} \cup Awaiting,
           call : {"none", "publish", "ping", "poll", "until"},
           want : EchoOrNone,
           id   : 0..MaxPacketId]
Idle == [at |-> "idle", call |-> "none", want |-> NoEcho, id |-> 0]
Running(at, call, want) == [at |-> at, call |-> call, want |-> want, id |-> 0]
Goto(at) == [fut EXCEPT !.at = at]

\* Clocks only meet `>= limit`, so they saturate there.
Saturate(n, limit) == IF n >= limit THEN limit ELSE n

Without(f, x) == [y \in DOMAIN f \ {x} |-> f[y]]
With(f, x, v) == [y \in DOMAIN f \cup {x} |-> IF y = x THEN v ELSE f[y]]

\* VecDeque::remove keeps the others in order.  (Mutants: a drain up to the
\* match; a copy of the match.)
RemoveIndexDraining(s, i) == SubSeq(s, i + 1, Len(s))
RemoveIndexCopying(s, i) == s
RemoveIndex(s, i) == SubSeq(s, 1, i - 1) \o SubSeq(s, i + 1, Len(s))

\* Skips 0, which MQTT reserves.  (Mutant: a plain wrapping_add.)
advance_packet_id_to_zero(n) == (n + 1) % (MaxPacketId + 1)
advance_packet_id(n) == IF n = MaxPacketId THEN 1 ELSE n + 1

\* pending_bytes.saturating_sub(size).  (Mutant: a drain that forgets it.)
DebitForgotten(size) == pending_bytes
Debit(size) == IF pending_bytes >= size THEN pending_bytes - size ELSE 0

\* with_stream: the state `connect` ends in.
Init ==
  /\ next_packet_id = advance_packet_id(1)
  /\ in_flight = [i \in {} |-> 0]
  /\ pending_messages = <<>>
  /\ pending_bytes = 0
  /\ write_pending_secs = Unarmed
  /\ write_pending_echo = NoEcho
  /\ secs_since_last_message = 0
  /\ read_poisoned = FALSE
  /\ write_poisoned = FALSE
  /\ write_in_progress = FALSE
  /\ fut = Idle
  /\ hold = NoMessage
  /\ unacked = {}
  /\ sent = {}
  /\ waiting = [e \in {} |-> 0]
  /\ received = 0
  /\ handed = <<>>
  /\ matched = {}
  /\ evicted = {}
  /\ torn = FALSE

----------------------------------------------------------------------------
(* write_frame_guarded, up to its await and from its await on.              *)

\* A flag still set on entry is a write whose future was dropped mid-frame.
\* (Mutant: only failed writes poison.)
WriteRefusedAfterFailure == write_poisoned
WriteRefused == write_in_progress \/ write_poisoned

RefuseWrite ==
  /\ WriteRefused
  /\ write_poisoned' = TRUE
  /\ UNCHANGED <<write_in_progress, torn>>

BeginWrite ==
  /\ ~WriteRefused
  /\ write_in_progress' = TRUE
  /\ UNCHANGED <<write_poisoned, torn>>

\* ok is FALSE for an I/O error and for the write deadline.
EndWrite(ok) ==
  /\ write_in_progress' = FALSE
  /\ write_poisoned' = (write_poisoned \/ ~ok)
  /\ torn' = (torn \/ ~ok)

----------------------------------------------------------------------------
(* publish_keyed                                                            *)

\* A saturated in_flight (Backpressure) and an oversized payload return
\* before any assignment.  The packet id is spent before the write.
Publish(echo) ==
  /\ fut = Idle
  /\ Cardinality(DOMAIN in_flight) < InFlightLimit
  /\ echo \notin sent
  /\ next_packet_id' = advance_packet_id(next_packet_id)
  /\ \/ /\ BeginWrite
        /\ fut' = [at |-> "publish", call |-> "publish", want |-> echo,
                   id |-> next_packet_id]
        /\ unacked' = unacked \cup {next_packet_id}
        /\ sent' = sent \cup ({echo} \ {NoEcho})
     \/ /\ RefuseWrite
        /\ UNCHANGED <<fut, unacked, sent>>
  /\ UNCHANGED <<in_flight, write_pending_secs, write_pending_echo,
                 secs_since_last_message, read_poisoned, buffer, fates, waiting>>

\* Only the first unanswered command arms the zombie clock.  (Mutant: all do.)
EveryPublishArms == TRUE
Arms == write_pending_secs = Unarmed

PublishWritten ==
  /\ fut.at = "publish"
  /\ EndWrite(TRUE)
  /\ in_flight' = With(in_flight, fut.id, 0)
  /\ IF Arms
     THEN write_pending_secs' = 0 /\ write_pending_echo' = fut.want
     ELSE UNCHANGED <<write_pending_secs, write_pending_echo>>
  /\ waiting' = IF fut.want = NoEcho THEN waiting ELSE With(waiting, fut.want, 0)
  /\ fut' = Idle
  /\ UNCHANGED <<next_packet_id, secs_since_last_message, read_poisoned,
                 buffer, fates, unacked, sent>>

----------------------------------------------------------------------------
(* send_ping, and any write that fails other than a PUBACK's                *)

Ping ==
  /\ fut = Idle
  /\ \/ BeginWrite /\ fut' = Running("ping", "ping", NoEcho)
     \/ RefuseWrite /\ UNCHANGED fut
  /\ UNCHANGED <<session, buffer, fates, broker>>

\* A keepalive sent by poll_wire goes on to its read.
PingWritten ==
  /\ fut.at = "ping"
  /\ EndWrite(TRUE)
  /\ fut' = IF fut.call = "ping" THEN Idle ELSE Goto("read")
  /\ UNCHANGED <<session, buffer, fates, broker>>

WriteFailed ==
  /\ fut.at \in {"publish", "ping"}
  /\ EndWrite(FALSE)
  /\ fut' = Idle
  /\ UNCHANGED <<session, buffer, fates, broker>>

----------------------------------------------------------------------------
(* poll_telemetry, poll_until and the poll_wire loop below both             *)

Poll ==
  /\ fut = Idle
  /\ \/ /\ pending_messages # <<>>
        /\ handed' = Append(handed, Head(pending_messages).id)
        /\ pending_messages' = Tail(pending_messages)
        /\ pending_bytes' = Debit(Head(pending_messages).size)
        /\ UNCHANGED fut
     \/ /\ pending_messages = <<>>
        /\ fut' = Running("loop", "poll", NoEcho)
        /\ UNCHANGED <<handed, buffer>>
  /\ UNCHANGED <<session, writer, broker, received, matched, evicted, hold>>

MatchingIndices(want) ==
  {i \in DOMAIN pending_messages : pending_messages[i].echo = want}

\* take_pending_matching, then the wire.
PollUntil(want) ==
  /\ fut = Idle
  /\ \/ \E i \in MatchingIndices(want) :
          /\ \A j \in MatchingIndices(want) : i <= j
          /\ matched' = matched \cup {pending_messages[i].id}
          /\ pending_messages' = RemoveIndex(pending_messages, i)
          /\ pending_bytes' = Debit(pending_messages[i].size)
          /\ UNCHANGED fut
     \/ /\ MatchingIndices(want) = {}
        /\ fut' = Running("loop", "until", want)
        /\ UNCHANGED <<matched, buffer>>
  /\ UNCHANGED <<session, writer, broker, received, handed, evicted, hold>>

\* send_keepalive_if_due at the top of every iteration.
KeepaliveIfDue ==
  /\ fut.at = "loop"
  /\ \/ fut' = Goto("read") /\ UNCHANGED writer
     \/ BeginWrite /\ fut' = Goto("ping")
     \/ RefuseWrite /\ fut' = Idle
  /\ UNCHANGED <<session, buffer, fates, broker>>

\* poll_wire returns m: to poll_telemetry's caller, to the matcher, or to
\* push_pending.
Deliver(m) ==
  \/ /\ fut.call = "poll"
     /\ handed' = Append(handed, m.id)
     /\ fut' = Idle
     /\ UNCHANGED <<matched, hold>>
  \/ /\ fut.call = "until" /\ m.echo = fut.want
     /\ matched' = matched \cup {m.id}
     /\ fut' = Idle
     /\ UNCHANGED <<handed, hold>>
  \/ /\ fut.call = "until" /\ m.echo # fut.want
     /\ hold' = m
     /\ fut' = Goto("push")
     /\ UNCHANGED <<handed, matched>>

\* Clear the zombie clock on the armed command's echo, or on any PUBLISH
\* when the armed command has none.
ClearZombie(echo) ==
  IF \/ write_pending_echo # NoEcho /\ echo = write_pending_echo
     \/ write_pending_echo = NoEcho
  THEN write_pending_secs' = Unarmed /\ write_pending_echo' = NoEcho
  ELSE UNCHANGED <<write_pending_secs, write_pending_echo>>

\* A PUBLISH.  QoS 1 parks the message at the front of the buffer and awaits
\* the PUBACK write; a refused write takes it out again at once.
ReadPublish(qos, size, echo) ==
  LET m == [id |-> received + 1, size |-> size, echo |-> echo] IN
  /\ fut.at = "read" /\ ~read_poisoned
  /\ received < MaxMessages
  /\ received' = received + 1
  /\ secs_since_last_message' = 0
  /\ ClearZombie(echo)
  /\ waiting' = Without(waiting, echo)
  /\ \/ qos # 1 /\ Deliver(m) /\ UNCHANGED <<buffer, writer>>
     \/ qos = 1 /\ RefuseWrite /\ Deliver(m) /\ UNCHANGED buffer
     \/ /\ qos = 1 /\ BeginWrite
        /\ pending_messages' = <<m>> \o pending_messages
        /\ pending_bytes' = pending_bytes + size
        /\ fut' = Goto("puback")
        /\ UNCHANGED <<handed, matched, hold>>
  /\ UNCHANGED <<next_packet_id, in_flight, read_poisoned, unacked, sent, evicted>>

\* The message is delivered whether the acknowledgement went out or not.
PubackWritten(ok) ==
  /\ fut.at = "puback"
  /\ EndWrite(ok)
  /\ pending_messages' = Tail(pending_messages)
  /\ pending_bytes' = Debit(Head(pending_messages).size)
  /\ Deliver(Head(pending_messages))
  /\ UNCHANGED <<session, broker, received, evicted>>

ReadPuback(id) ==
  /\ fut.at = "read" /\ ~read_poisoned
  /\ id \in unacked
  /\ unacked' = unacked \ {id}
  /\ in_flight' = Without(in_flight, id)
  /\ secs_since_last_message' = 0
  /\ fut' = Goto("loop")
  /\ UNCHANGED <<next_packet_id, write_pending_secs, write_pending_echo,
                 read_poisoned, buffer, writer, fates, sent, waiting>>

\* PINGRESP and frames the client ignores loop; a PUBLISH or PUBACK that does
\* not parse is a ProtocolViolation to the caller.
ReadOther(parses) ==
  /\ fut.at = "read" /\ ~read_poisoned
  /\ secs_since_last_message' = 0
  /\ fut' = IF parses THEN Goto("loop") ELSE Idle
  /\ UNCHANGED <<next_packet_id, in_flight, write_pending_secs,
                 write_pending_echo, read_poisoned, buffer, writer, fates, broker>>

\* The deadline or the peer ended the read, or a length prefix was rejected
\* now or earlier.
ReadFailed(rejected) ==
  /\ fut.at = "read"
  /\ read_poisoned' = (read_poisoned \/ rejected)
  /\ fut' = Idle
  /\ UNCHANGED <<next_packet_id, in_flight, write_pending_secs,
                 write_pending_echo, secs_since_last_message, buffer, writer,
                 fates, broker>>

----------------------------------------------------------------------------
(* push_pending, one action per iteration of its eviction loop; no await    *)
(* lies between them.                                                       *)

\* The negation of the loop's condition.  (Mutant: no eviction.)
FitsAlways(size) == TRUE
Fits(size) == pending_messages = <<>> \/ pending_bytes + size <= Cap

EvictOldest ==
  /\ fut.at = "push"
  /\ ~Fits(hold.size)
  /\ evicted' = evicted \cup {Head(pending_messages).id}
  /\ pending_messages' = Tail(pending_messages)
  /\ pending_bytes' = Debit(Head(pending_messages).size)
  /\ UNCHANGED <<session, writer, broker, fut, received, handed, matched, hold>>

\* Then WaitBudget::after_message ends poll_until or lets it loop.
PushPending ==
  /\ fut.at = "push"
  /\ Fits(hold.size)
  /\ pending_messages' = Append(pending_messages, hold)
  /\ pending_bytes' = pending_bytes + hold.size
  /\ hold' = NoMessage
  /\ fut' \in {Idle, Goto("loop")}
  /\ UNCHANGED <<session, writer, broker, received, handed, matched, evicted>>

----------------------------------------------------------------------------
\* in_flight.retain's verdict on an entry.  (Mutant: entries never expire.)
SurvivesForever(id, secs) == TRUE
Survives(id, secs) == in_flight[id] + secs < InFlightTtl

\* tick_zombie_check: a zombie verdict returns before the stale clock moves.
Tick(secs) ==
  LET aged == {i \in DOMAIN in_flight : Survives(i, secs)}
      armed == Saturate(write_pending_secs + secs, ZombieTimeout)
  IN
  /\ fut = Idle
  /\ in_flight' = [i \in aged |-> Saturate(in_flight[i] + secs, InFlightTtl)]
  /\ waiting' = [e \in DOMAIN waiting |-> Saturate(waiting[e] + secs, ZombieTimeout)]
  /\ write_pending_secs' = IF write_pending_secs = Unarmed THEN Unarmed ELSE armed
  /\ secs_since_last_message' =
       IF write_pending_secs # Unarmed /\ armed >= ZombieTimeout
       THEN secs_since_last_message
       ELSE Saturate(secs_since_last_message + secs, StaleTimeout)
  /\ UNCHANGED <<next_packet_id, write_pending_echo, read_poisoned, buffer,
                 writer, fates, fut, unacked, sent>>

\* The caller drops the future at an await point.  A dropped write leaves
\* write_in_progress set and may have sent part of a frame.
Cancel ==
  /\ fut.at \in Awaiting
  /\ fut' = Idle
  /\ torn' = (torn \/ fut.at \in Writing)
  /\ UNCHANGED <<session, buffer, fates, broker, write_poisoned, write_in_progress>>

Next ==
  \/ \E e \in EchoOrNone : Publish(e)
  \/ PublishWritten
  \/ Ping
  \/ PingWritten
  \/ WriteFailed
  \/ Poll
  \/ \E e \in Echoes : PollUntil(e)
  \/ KeepaliveIfDue
  \/ \E q \in 0..2, s \in Sizes, e \in sent \cup {NoEcho} : ReadPublish(q, s, e)
  \/ \E ok \in BOOLEAN : PubackWritten(ok)
  \/ \E i \in unacked : ReadPuback(i)
  \/ \E b \in BOOLEAN : ReadOther(b)
  \/ \E b \in BOOLEAN : ReadFailed(b)
  \/ EvictOldest
  \/ PushPending
  \/ \E s \in Elapsed : Tick(s)
  \/ Cancel

Spec == Init /\ [][Next]_vars

----------------------------------------------------------------------------
(* Properties                                                               *)

Ids(s) == {s[i] : i \in DOMAIN s}
PendingIds == {pending_messages[i].id : i \in DOMAIN pending_messages}
HeldIds == IF fut.at = "push" THEN {hold.id} ELSE {}

\* The variables have their types; in particular packet id 0 is never used.
TypeOK ==
  /\ next_packet_id \in PacketIds
  /\ DOMAIN in_flight \subseteq PacketIds
  /\ in_flight \in [DOMAIN in_flight -> Nat]
  /\ pending_messages \in Seq(Message)
  /\ pending_bytes \in Nat
  /\ write_pending_secs \in Nat \cup {Unarmed}
  /\ write_pending_echo \in EchoOrNone
  /\ secs_since_last_message \in Nat
  /\ read_poisoned \in BOOLEAN
  /\ write_poisoned \in BOOLEAN
  /\ write_in_progress \in BOOLEAN
  /\ fut \in Future
  /\ hold \in Message \cup {NoMessage}
  /\ fut.at = "push" => hold \in Message
  /\ fut.at = "puback" => pending_messages # <<>>
  /\ fut.at = "publish" => fut.id \in PacketIds
  /\ unacked \subseteq PacketIds
  /\ sent \subseteq Echoes
  /\ DOMAIN waiting \subseteq Echoes
  /\ waiting \in [DOMAIN waiting -> Nat]
  /\ received \in Nat
  /\ handed \in Seq(Nat)
  /\ matched \subseteq Nat
  /\ evicted \subseteq Nat
  /\ torn \in BOOLEAN

\* Every message read off the wire has been returned by poll_telemetry, was
\* matched by poll_until, was evicted at the cap, or is still buffered: a
\* future dropped during the PUBACK write, or a failed PUBACK, loses nothing.
NoMessageLost ==
  1..received = Ids(handed) \cup matched \cup evicted \cup PendingIds \cup HeldIds

\* ... and it is in one of those places only, once: parking a message across
\* the PUBACK write never makes a second copy of it.
NoMessageTwice ==
  /\ \A i, j \in DOMAIN handed : handed[i] = handed[j] => i = j
  /\ \A i, j \in DOMAIN pending_messages :
       pending_messages[i].id = pending_messages[j].id => i = j
  /\ PendingIds \cap HeldIds = {}
  /\ (PendingIds \cup HeldIds) \cap (Ids(handed) \cup matched \cup evicted) = {}
  /\ Ids(handed) \cap (matched \cup evicted) = {}
  /\ matched \cap evicted = {}

\* Once an outbound frame was cut short (a failed write or a dropped future)
\* no other frame follows it onto the stream.
NoWriteOnTornStream == [][torn /\ write_in_progress' => write_in_progress]_vars

\* The flags write_frame_guarded reads say what happened to the stream: the
\* reason NoWriteOnTornStream holds.
TornStreamIsKnown ==
  /\ fut.at \in Writing => write_in_progress /\ ~write_poisoned /\ ~torn
  /\ write_in_progress /\ fut.at \notin Writing => torn
  /\ torn => WriteRefused
  /\ write_poisoned => torn

SumSizes ==
  LET sum[i \in 0..Len(pending_messages)] ==
        IF i = 0 THEN 0 ELSE sum[i - 1] + pending_messages[i].size
  IN  sum[Len(pending_messages)]

\* pending_bytes is the total size of what is buffered, through parking,
\* draining, matching out of the middle and eviction.
BytesAccounted == pending_bytes = SumSizes

\* The buffer never grows past its cap by more than the one message parked
\* for its PUBACK.
PendingBounded == \A s \in Sizes : (\A t \in Sizes : t <= s) => pending_bytes <= Cap + s

\* While a correlated command on the zombie clock is unanswered the clock runs
\* with the time since it was published: neither later commands nor background
\* telemetry restart or clear it.  Its answer takes it off the clock.
ZombieClockTracksCommand ==
  [][\A e \in Echoes : write_pending_echo = e =>
       IF e \in DOMAIN waiting'
       THEN /\ write_pending_echo' = e
            /\ write_pending_secs' - write_pending_secs = waiting'[e] - waiting[e]
       ELSE write_pending_echo' # e]_vars

\* tick_zombie_check documents WriteZombie as "a published command has gone
\* MQTT_ZOMBIE_TIMEOUT_SECS with no answer".
ZombieNotMissed ==
  (\E e \in DOMAIN waiting : waiting[e] >= ZombieTimeout)
    => write_pending_secs >= ZombieTimeout

\* At most one message of a session is delivered ahead of older ones: the one
\* parked by a dropped future, since its unfinished PUBACK stops every later
\* write and with it every later park across an await.
OneOvertaker ==
  Cardinality({i \in DOMAIN handed : \E j \in DOMAIN handed :
                 i < j /\ handed[j] < handed[i]}) <= 1

Saturated == Cardinality(DOMAIN in_flight) >= InFlightLimit

\* A caller that keeps calling tick_zombie_check, as keepalive_tick does
\* every 15 seconds, sees a saturated in-flight table drain even when the
\* broker acknowledges nothing, unless one call of its own never returns.
BackpressureClears == []<>(fut = Idle) => (Saturated ~> ~Saturated)

Ticking == \E s \in Elapsed : Tick(s)
FairSpec == Spec /\ SF_vars(Ticking)

\* The pending buffer's books are right: its byte count is what it holds, it is
\* over its cap by at most the message parked for a PUBACK, and at most one
\* message of a session, that one, overtakes older ones (push_pending,
\* take_pending_matching, poll_wire).
BufferKept == BytesAccounted /\ PendingBounded /\ OneOvertaker
============================================================================

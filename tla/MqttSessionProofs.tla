------------------------- MODULE MqttSessionProofs -------------------------
(* Type correctness, the write-side guarantee, the conservation of messages  *)
(* the books and order of the pending buffer, and the zombie clock of        *)
(* MqttSession, for every value of its constants.                            *)
EXTENDS MqttSession, FiniteSetTheorems, SequenceTheorems, WellFoundedInduction, TLAPS

----------------------------------------------------------------------------
(* Facts about the helpers                                                   *)

LEMMA WithoutType ==
  ASSUME NEW S, NEW f, f \in [DOMAIN f -> Nat], DOMAIN f \subseteq S, NEW x
  PROVE  /\ DOMAIN Without(f, x) \subseteq S
         /\ Without(f, x) \in [DOMAIN Without(f, x) -> Nat]
BY DEF Without

LEMMA WithType ==
  ASSUME NEW S, NEW f, f \in [DOMAIN f -> Nat], DOMAIN f \subseteq S,
         NEW x \in S, NEW v \in Nat
  PROVE  /\ DOMAIN With(f, x, v) \subseteq S
         /\ With(f, x, v) \in [DOMAIN With(f, x, v) -> Nat]
BY DEF With

LEMMA RemoveIndexType ==
  ASSUME NEW S, NEW s \in Seq(S), NEW i \in DOMAIN s
  PROVE  RemoveIndex(s, i) \in Seq(S)
<1>1. i \in 1..Len(s)
  OBVIOUS
<1>2. SubSeq(s, 1, i - 1) \in Seq(S)
  BY <1>1
<1>3. SubSeq(s, i + 1, Len(s)) \in Seq(S)
  BY <1>1
<1>4. QED
  BY <1>2, <1>3 DEF RemoveIndex

\* A queued message is a message, and taking the first leaves messages.
LEMMA HeadTail ==
  ASSUME NEW S, NEW s \in Seq(S), s # <<>>
  PROVE  Head(s) \in S /\ Tail(s) \in Seq(S)
OBVIOUS

LEMMA DebitType ==
  ASSUME pending_bytes \in Nat, NEW n \in Nat
  PROVE  Debit(n) \in Nat
BY DEF Debit

LEMMA MessageType ==
  ASSUME NEW m \in Message
  PROVE  m.id \in Nat \ {0} /\ m.size \in Nat /\ m.size \in Sizes /\ m.echo \in EchoOrNone
BY SizeAssumption DEF Message

LEMMA GotoType ==
  ASSUME fut \in Future, NEW a \in {"idle", "loop", "push"} \cup Awaiting
  PROVE  /\ Goto(a) \in Future
         /\ Goto(a).at = a
         /\ Goto(a).call = fut.call
         /\ Goto(a).id = fut.id
BY DEF Goto, Future

LEMMA IdleType == Idle \in Future /\ Idle.at = "idle"
BY LimitAssumption DEF Idle, Future, EchoOrNone

----------------------------------------------------------------------------
(* write_frame_guarded                                                       *)

WriterType == write_poisoned \in BOOLEAN /\ write_in_progress \in BOOLEAN /\ torn \in BOOLEAN

LEMMA WriterTyped ==
  ASSUME WriterType, NEW ok \in BOOLEAN,
         \/ BeginWrite
         \/ RefuseWrite
         \/ EndWrite(ok)
         \/ UNCHANGED writer
  PROVE  WriterType'
<1>1. CASE BeginWrite
  BY <1>1, Zenon DEF BeginWrite, WriterType
<1>2. CASE RefuseWrite
  BY <1>2, Zenon DEF RefuseWrite, WriterType
<1>3. CASE EndWrite(ok)
  BY <1>3, Zenon DEF EndWrite, WriterType
<1>4. CASE UNCHANGED writer
  BY <1>4 DEF writer, WriterType
<1>5. QED
  BY <1>1, <1>2, <1>3, <1>4

----------------------------------------------------------------------------
(* Type correctness                                                          *)

LEMMA InitType == Init => TypeOK
<1> SUFFICES ASSUME Init PROVE TypeOK
  OBVIOUS
<1> USE DEF Init
<1>1. next_packet_id \in PacketIds
  BY LimitAssumption DEF PacketIds, advance_packet_id
<1>2. DOMAIN in_flight \subseteq PacketIds /\ in_flight \in [DOMAIN in_flight -> Nat]
  OBVIOUS
<1>3. DOMAIN waiting \subseteq Echoes /\ waiting \in [DOMAIN waiting -> Nat]
  OBVIOUS
<1>4. fut \in Future /\ fut.at = "idle"
  BY IdleType
<1>5. pending_messages \in Seq(Message) /\ handed \in Seq(Nat)
  OBVIOUS
<1>6. QED
  BY <1>1, <1>2, <1>3, <1>4, <1>5 DEF TypeOK, EchoOrNone

\* Delivering a message keeps the types of what it touches.
LEMMA DeliverType ==
  ASSUME TypeOK, NEW m \in Message, Deliver(m)
  PROVE  /\ handed' \in Seq(Nat)
         /\ matched' \subseteq Nat
         /\ fut' \in Future
         /\ hold' \in Message \cup {NoMessage}
         /\ fut'.at = "push" => hold' \in Message
         /\ fut'.at # "puback" /\ fut'.at # "publish"
<1> USE DEF TypeOK
<1>1. m.id \in Nat
  BY MessageType
<1>2. CASE fut.call = "poll" /\ handed' = Append(handed, m.id) /\ fut' = Idle
           /\ UNCHANGED <<matched, hold>>
  BY <1>1, <1>2, IdleType
<1>3. CASE matched' = matched \cup {m.id} /\ fut' = Idle /\ UNCHANGED <<handed, hold>>
  BY <1>1, <1>3, IdleType
<1>4. CASE hold' = m /\ fut' = Goto("push") /\ UNCHANGED <<handed, matched>>
  BY <1>4, GotoType
<1>5. QED
  BY <1>2, <1>3, <1>4 DEF Deliver

LEMMA StepType == TypeOK /\ [Next]_vars => TypeOK'
<1> SUFFICES ASSUME TypeOK, [Next]_vars PROVE TypeOK'
  OBVIOUS
<1> USE LimitAssumption, TimeAssumption, IdleType
<1> USE DEF TypeOK, session, buffer, fates, broker
<1>w. WriterType
  BY DEF WriterType
<1>1. ASSUME NEW e \in EchoOrNone, Publish(e) PROVE TypeOK'
  <2>1. WriterType'
    BY <1>1, <1>w, WriterTyped DEF Publish
  <2>2. next_packet_id' \in PacketIds
    BY <1>1 DEF Publish, advance_packet_id, PacketIds
  <2>3. CASE fut' = [at |-> "publish", call |-> "publish", want |-> e, id |-> next_packet_id]
             /\ unacked' = unacked \cup {next_packet_id}
             /\ sent' = sent \cup ({e} \ {NoEcho})
    <3>1. fut' \in Future /\ fut'.at = "publish" /\ fut'.id \in PacketIds
      BY <2>3 DEF Future, PacketIds, Awaiting, Writing
    <3>2. unacked' \subseteq PacketIds /\ sent' \subseteq Echoes
      BY <2>3 DEF EchoOrNone
    <3>3. QED
      BY <1>1, <2>1, <2>2, <3>1, <3>2 DEF Publish, WriterType
  <2>4. CASE UNCHANGED <<fut, unacked, sent>>
    BY <1>1, <2>1, <2>2, <2>4 DEF Publish, WriterType
  <2>5. QED
    BY <1>1, <2>3, <2>4 DEF Publish
<1>2. CASE PublishWritten
  <2>1. WriterType'
    BY <1>2, <1>w, WriterTyped DEF PublishWritten
  <2>2. fut.id \in PacketIds /\ fut.want \in EchoOrNone
    BY <1>2 DEF PublishWritten, Future
  <2>3. DOMAIN in_flight' \subseteq PacketIds /\ in_flight' \in [DOMAIN in_flight' -> Nat]
    BY <1>2, <2>2, WithType DEF PublishWritten
  <2>4. DOMAIN waiting' \subseteq Echoes /\ waiting' \in [DOMAIN waiting' -> Nat]
    <3>1. CASE fut.want = NoEcho
      BY <1>2, <3>1 DEF PublishWritten
    <3>2. CASE fut.want # NoEcho
      BY <1>2, <2>2, <3>2, WithType DEF PublishWritten, EchoOrNone
    <3>3. QED
      BY <3>1, <3>2
  <2>5. write_pending_secs' \in Nat \cup {Unarmed} /\ write_pending_echo' \in EchoOrNone
    BY <1>2, <2>2 DEF PublishWritten
  <2>6. QED
    BY <1>2, <2>1, <2>3, <2>4, <2>5 DEF PublishWritten, WriterType
<1>3. CASE Ping
  <2>1. WriterType'
    BY <1>3, <1>w, WriterTyped DEF Ping
  <2>2. fut' \in Future /\ fut'.at \in {"ping", "idle"}
    BY <1>3 DEF Ping, Running, Future, Awaiting, Writing, EchoOrNone
  <2>3. QED
    BY <1>3, <2>1, <2>2 DEF Ping, WriterType
<1>4. CASE PingWritten
  <2>1. WriterType'
    BY <1>4, <1>w, WriterTyped DEF PingWritten
  <2>2. fut' \in Future /\ fut'.at \in {"read", "idle"}
    BY <1>4, GotoType DEF PingWritten, Awaiting
  <2>3. QED
    BY <1>4, <2>1, <2>2 DEF PingWritten, WriterType
<1>5. CASE WriteFailed
  <2>1. WriterType'
    BY <1>5, <1>w, WriterTyped DEF WriteFailed
  <2>2. QED
    BY <1>5, <2>1 DEF WriteFailed, WriterType
<1>6. CASE Poll
  <2>1. CASE pending_messages # <<>>
    <3>1. Head(pending_messages) \in Message /\ Tail(pending_messages) \in Seq(Message)
      BY <2>1, HeadTail
    <3> DEFINE h == Head(pending_messages)
    <3>2. h.id \in Nat /\ h.size \in Nat
      BY <3>1, MessageType
    <3>3. /\ handed' = Append(handed, h.id)
          /\ pending_bytes' = Debit(h.size)
          /\ pending_messages' = Tail(pending_messages)
          /\ UNCHANGED fut
      BY <1>6, <2>1 DEF Poll
    <3>4. pending_bytes' \in Nat
      BY <3>2, <3>3, DebitType
    <3>5. handed' \in Seq(Nat) /\ pending_messages' \in Seq(Message)
      BY <3>1, <3>2, <3>3
    <3>6. fut.at = "idle"
      BY <1>6 DEF Poll
    <3>7. QED
      BY <1>6, <3>3, <3>4, <3>5, <3>6 DEF Poll, writer
  <2>2. CASE pending_messages = <<>>
    <3>1. fut' \in Future /\ fut'.at = "loop"
      BY <1>6, <2>2 DEF Poll, Running, Future, EchoOrNone
    <3>2. QED
      BY <1>6, <2>2, <3>1 DEF Poll, writer
  <2>3. QED
    BY <2>1, <2>2
<1>7. ASSUME NEW e \in Echoes, PollUntil(e) PROVE TypeOK'
  <2>1. ASSUME NEW i \in MatchingIndices(e),
               matched' = matched \cup {pending_messages[i].id},
               pending_messages' = RemoveIndex(pending_messages, i),
               pending_bytes' = Debit(pending_messages[i].size),
               UNCHANGED fut
        PROVE  TypeOK'
    <3>1. i \in DOMAIN pending_messages /\ pending_messages[i] \in Message
      BY DEF MatchingIndices
    <3>2. /\ matched' \subseteq Nat
          /\ pending_bytes' \in Nat
          /\ pending_messages' \in Seq(Message)
      BY <2>1, <3>1, MessageType, DebitType, RemoveIndexType
    <3>3. fut.at # "puback"
      BY <1>7 DEF PollUntil
    <3>4. QED
      BY <1>7, <2>1, <3>2, <3>3 DEF PollUntil, writer
  <2>2. CASE fut' = Running("loop", "until", e) /\ UNCHANGED <<matched, buffer>>
    <3>1. fut' \in Future /\ fut'.at = "loop"
      BY <2>2 DEF Running, Future, EchoOrNone
    <3>2. QED
      BY <1>7, <2>2, <3>1 DEF PollUntil, writer
  <2>3. QED
    BY <1>7, <2>1, <2>2 DEF PollUntil
<1>8. CASE KeepaliveIfDue
  <2>1. WriterType'
    BY <1>8, <1>w, WriterTyped DEF KeepaliveIfDue
  <2>2. fut' \in Future /\ fut'.at \in {"read", "ping", "idle"}
    BY <1>8, GotoType DEF KeepaliveIfDue, Awaiting, Writing
  <2>3. QED
    BY <1>8, <2>1, <2>2 DEF KeepaliveIfDue, WriterType
<1>9. ASSUME NEW q \in 0..2, NEW z \in Sizes, NEW e \in sent \cup {NoEcho}, ReadPublish(q, z, e)
      PROVE  TypeOK'
  <2> DEFINE m == [id |-> received + 1, size |-> z, echo |-> e]
  <2>1. m \in Message /\ e \in EchoOrNone
    BY DEF Message, EchoOrNone
  <2>2. WriterType'
    BY <1>9, <1>w, WriterTyped DEF ReadPublish
  <2>3. write_pending_secs' \in Nat \cup {Unarmed} /\ write_pending_echo' \in EchoOrNone
    BY <1>9 DEF ReadPublish, ClearZombie, EchoOrNone
  <2>4. DOMAIN waiting' \subseteq Echoes /\ waiting' \in [DOMAIN waiting' -> Nat]
    BY <1>9, WithoutType DEF ReadPublish
  <2>5. received' \in Nat /\ secs_since_last_message' \in Nat
    BY <1>9 DEF ReadPublish
  <2>6. CASE Deliver(m) /\ UNCHANGED buffer
    <3>1. /\ handed' \in Seq(Nat)
          /\ matched' \subseteq Nat
          /\ fut' \in Future
          /\ hold' \in Message \cup {NoMessage}
          /\ fut'.at = "push" => hold' \in Message
          /\ fut'.at # "puback" /\ fut'.at # "publish"
      BY <2>1, <2>6, DeliverType
    <3>2. QED
      BY <1>9, <2>2, <2>3, <2>4, <2>5, <2>6, <3>1 DEF ReadPublish, WriterType
  <2>7. CASE /\ pending_messages' = <<m>> \o pending_messages
             /\ pending_bytes' = pending_bytes + z
             /\ fut' = Goto("puback")
             /\ UNCHANGED <<handed, matched, hold>>
    <3>1. fut' \in Future /\ fut'.at = "puback"
      BY <2>7, GotoType DEF Awaiting, Writing
    <3>2. <<m>> \in Seq(Message)
      BY <2>1
    <3>3. pending_messages' \in Seq(Message) /\ pending_messages' # <<>>
      BY <2>7, <3>2
    <3>4. pending_bytes' \in Nat
      BY <2>7, SizeAssumption
    <3>5. QED
      BY <1>9, <2>2, <2>3, <2>4, <2>5, <2>7, <3>1, <3>3, <3>4 DEF ReadPublish, WriterType
  <2>8. QED
    BY <1>9, <2>6, <2>7 DEF ReadPublish
<1>10. ASSUME NEW ok \in BOOLEAN, PubackWritten(ok) PROVE TypeOK'
  <2>1. WriterType'
    BY <1>10, <1>w, WriterTyped DEF PubackWritten
  <2>2. Head(pending_messages) \in Message /\ Tail(pending_messages) \in Seq(Message)
    BY <1>10, HeadTail DEF PubackWritten
  <2>3. pending_bytes' \in Nat /\ pending_messages' \in Seq(Message)
    BY <1>10, <2>2, MessageType, DebitType DEF PubackWritten
  <2>4. /\ handed' \in Seq(Nat)
        /\ matched' \subseteq Nat
        /\ fut' \in Future
        /\ hold' \in Message \cup {NoMessage}
        /\ fut'.at = "push" => hold' \in Message
        /\ fut'.at # "puback" /\ fut'.at # "publish"
    BY <1>10, <2>2, DeliverType DEF PubackWritten
  <2>5. QED
    BY <1>10, <2>1, <2>3, <2>4 DEF PubackWritten, WriterType
<1>11. ASSUME NEW i \in unacked, ReadPuback(i) PROVE TypeOK'
  <2>1. DOMAIN in_flight' \subseteq PacketIds /\ in_flight' \in [DOMAIN in_flight' -> Nat]
    BY <1>11, WithoutType DEF ReadPuback
  <2>2. fut' \in Future /\ fut'.at = "loop"
    BY <1>11, GotoType DEF ReadPuback
  <2>3. QED
    BY <1>11, <2>1, <2>2 DEF ReadPuback, writer
<1>12. ASSUME NEW b \in BOOLEAN, ReadOther(b) PROVE TypeOK'
  <2>1. fut' \in Future /\ fut'.at \in {"loop", "idle"}
    BY <1>12, GotoType DEF ReadOther
  <2>2. QED
    BY <1>12, <2>1 DEF ReadOther, writer
<1>13. ASSUME NEW b \in BOOLEAN, ReadFailed(b) PROVE TypeOK'
  <2>1. read_poisoned' \in BOOLEAN
    BY <1>13, Zenon DEF ReadFailed
  <2>2. QED
    BY <1>13, <2>1 DEF ReadFailed, writer
<1>14. CASE EvictOldest
  <2>1. pending_messages # <<>> /\ fut.at = "push"
    BY <1>14 DEF EvictOldest, Fits
  <2>2. Head(pending_messages) \in Message /\ Tail(pending_messages) \in Seq(Message)
    BY <2>1, HeadTail
  <2>3. evicted' \subseteq Nat /\ pending_bytes' \in Nat /\ pending_messages' \in Seq(Message)
    BY <1>14, <2>2, MessageType, DebitType DEF EvictOldest
  <2>4. QED
    BY <1>14, <2>1, <2>3 DEF EvictOldest, writer
<1>15. CASE PushPending
  <2>1. hold \in Message /\ hold.size \in Nat
    BY <1>15, MessageType DEF PushPending
  <2>2. fut' \in Future /\ fut'.at \in {"idle", "loop"}
    BY <1>15, GotoType DEF PushPending
  <2>3. pending_bytes' \in Nat /\ pending_messages' \in Seq(Message)
    BY <1>15, <2>1 DEF PushPending
  <2>4. QED
    BY <1>15, <2>2, <2>3 DEF PushPending, writer
<1>16. ASSUME NEW n \in Elapsed, Tick(n) PROVE TypeOK'
  <2>1. n \in Nat
    OBVIOUS
  <2>2. DOMAIN in_flight' \subseteq PacketIds /\ in_flight' \in [DOMAIN in_flight' -> Nat]
    BY <1>16, <2>1 DEF Tick, Saturate
  <2>3. DOMAIN waiting' \subseteq Echoes /\ waiting' \in [DOMAIN waiting' -> Nat]
    BY <1>16, <2>1 DEF Tick, Saturate
  <2>4. write_pending_secs' \in Nat \cup {Unarmed} /\ secs_since_last_message' \in Nat
    <3>1. CASE write_pending_secs = Unarmed
      BY <1>16, <2>1, <3>1 DEF Tick, Saturate
    <3>2. CASE write_pending_secs # Unarmed
      <4>1. Saturate(write_pending_secs + n, ZombieTimeout) \in Nat
        BY <2>1, <3>2 DEF Saturate
      <4>2. Saturate(secs_since_last_message + n, StaleTimeout) \in Nat
        BY <2>1 DEF Saturate
      <4>3. QED
        BY <1>16, <3>2, <4>1, <4>2 DEF Tick
    <3>3. QED
      BY <3>1, <3>2
  <2>5. QED
    BY <1>16, <2>2, <2>3, <2>4 DEF Tick, writer
<1>17. CASE Cancel
  <2>1. torn' \in BOOLEAN
    BY <1>17, Zenon DEF Cancel
  <2>2. QED
    BY <1>17, <2>1 DEF Cancel
<1>18. CASE UNCHANGED vars
  BY <1>18 DEF vars, writer
<1>19. QED
  BY <1>1, <1>2, <1>3, <1>4, <1>5, <1>6, <1>7, <1>8, <1>9, <1>10, <1>11, <1>12,
     <1>13, <1>14, <1>15, <1>16, <1>17, <1>18 DEF Next

\* Every reachable state of the session is well typed.
THEOREM TypeCorrect == Spec => []TypeOK
BY InitType, StepType, PTL DEF Spec
----------------------------------------------------------------------------
(* The write side.  A step of the session touches the writer in one of five  *)
(* ways, and each of them keeps TornStreamIsKnown.                           *)

WriterStep ==
  \/ fut.at \notin Writing /\ fut'.at \notin Writing /\ RefuseWrite
  \/ fut.at \notin Writing /\ fut'.at \notin Writing /\ UNCHANGED writer
  \/ fut.at \notin Writing /\ fut'.at \in Writing /\ BeginWrite
  \/ fut.at \in Writing /\ fut'.at \notin Writing /\ \E ok \in BOOLEAN : EndWrite(ok)
  \/ /\ fut.at \in Writing /\ fut'.at \notin Writing /\ torn' = TRUE
     /\ UNCHANGED <<write_poisoned, write_in_progress>>
  \/ UNCHANGED <<fut, writer>>

LEMMA DeliverNotWriting ==
  ASSUME TypeOK, NEW m, Deliver(m)
  PROVE  fut'.at \notin Writing
BY IdleType, GotoType DEF TypeOK, Deliver, Writing

LEMMA StepWriter ==
  ASSUME TypeOK, [Next]_vars
  PROVE  WriterStep
<1> USE IdleType
<1> USE DEF TypeOK, Writing, WriterStep
<1>1. ASSUME NEW e \in EchoOrNone, Publish(e) PROVE WriterStep
  BY <1>1 DEF Publish
<1>2. CASE PublishWritten
  BY <1>2 DEF PublishWritten
<1>3. CASE Ping
  BY <1>3 DEF Ping, Running
<1>4. CASE PingWritten
  BY <1>4, GotoType DEF PingWritten, Awaiting
<1>5. CASE WriteFailed
  BY <1>5 DEF WriteFailed
<1>6. CASE Poll
  BY <1>6 DEF Poll, Running
<1>7. ASSUME NEW e \in Echoes, PollUntil(e) PROVE WriterStep
  BY <1>7 DEF PollUntil, Running
<1>8. CASE KeepaliveIfDue
  BY <1>8, GotoType DEF KeepaliveIfDue, Awaiting
<1>9. ASSUME NEW q \in 0..2, NEW z \in Sizes, NEW e \in sent \cup {NoEcho}, ReadPublish(q, z, e)
      PROVE  WriterStep
  BY <1>9, GotoType, DeliverNotWriting DEF ReadPublish, Awaiting
<1>10. ASSUME NEW ok \in BOOLEAN, PubackWritten(ok) PROVE WriterStep
  BY <1>10, DeliverNotWriting DEF PubackWritten
<1>11. ASSUME NEW i \in unacked, ReadPuback(i) PROVE WriterStep
  BY <1>11, GotoType DEF ReadPuback
<1>12. ASSUME NEW b \in BOOLEAN, ReadOther(b) PROVE WriterStep
  BY <1>12, GotoType DEF ReadOther
<1>13. ASSUME NEW b \in BOOLEAN, ReadFailed(b) PROVE WriterStep
  BY <1>13 DEF ReadFailed
<1>14. CASE EvictOldest
  BY <1>14 DEF EvictOldest
<1>15. CASE PushPending
  BY <1>15, GotoType DEF PushPending
<1>16. ASSUME NEW n \in Elapsed, Tick(n) PROVE WriterStep
  BY <1>16 DEF Tick
<1>17. CASE Cancel
  BY <1>17 DEF Cancel, writer, Awaiting
<1>18. CASE UNCHANGED vars
  BY <1>18 DEF vars
<1>19. QED
  BY <1>1, <1>2, <1>3, <1>4, <1>5, <1>6, <1>7, <1>8, <1>9, <1>10, <1>11, <1>12,
     <1>13, <1>14, <1>15, <1>16, <1>17, <1>18 DEF Next

LEMMA WriterKeepsTorn ==
  ASSUME TypeOK, TypeOK', TornStreamIsKnown, WriterStep
  PROVE  TornStreamIsKnown' /\ (torn /\ write_in_progress' => write_in_progress)
<1> USE DEF TypeOK, TornStreamIsKnown, WriteRefused
<1>1. CASE fut.at \notin Writing /\ fut'.at \notin Writing /\ RefuseWrite
  BY <1>1, Zenon DEF RefuseWrite
<1>2. CASE fut.at \notin Writing /\ fut'.at \notin Writing /\ UNCHANGED writer
  BY <1>2 DEF writer
<1>3. CASE fut.at \notin Writing /\ fut'.at \in Writing /\ BeginWrite
  BY <1>3 DEF BeginWrite
<1>4. CASE fut.at \in Writing /\ fut'.at \notin Writing /\ \E ok \in BOOLEAN : EndWrite(ok)
  BY <1>4, Zenon DEF EndWrite
<1>5. CASE /\ fut.at \in Writing /\ fut'.at \notin Writing /\ torn' = TRUE
           /\ UNCHANGED <<write_poisoned, write_in_progress>>
  BY <1>5
<1>6. CASE UNCHANGED <<fut, writer>>
  BY <1>6 DEF writer
<1>7. QED
  BY <1>1, <1>2, <1>3, <1>4, <1>5, <1>6 DEF WriterStep

LEMMA InitTorn == Init => TornStreamIsKnown
BY IdleType DEF Init, TornStreamIsKnown, Writing

\* write_in_progress and write_poisoned always tell a torn outbound stream
\* from a whole one, whichever writes failed or were dropped.
THEOREM TornStreamTheorem == Spec => []TornStreamIsKnown
<1>1. TypeOK /\ TypeOK' /\ TornStreamIsKnown /\ [Next]_vars => TornStreamIsKnown'
  BY StepWriter, WriterKeepsTorn
<1>2. QED
  BY <1>1, InitTorn, TypeCorrect, PTL DEF Spec

\* No frame is started after one that was cut short.
THEOREM NoWriteOnTornStreamTheorem == Spec => NoWriteOnTornStream
<1>1. TypeOK /\ TypeOK' /\ TornStreamIsKnown /\ [Next]_vars
        => [torn /\ write_in_progress' => write_in_progress]_vars
  BY StepWriter, WriterKeepsTorn
<1>2. QED
  BY <1>1, TornStreamTheorem, TypeCorrect, PTL DEF Spec, NoWriteOnTornStream
----------------------------------------------------------------------------
(* Conservation of messages.  A message that was read sits in one of five    *)
(* places; each step moves it from one to another or leaves it.              *)

MessageIds(s) == {s[i].id : i \in DOMAIN s}

LEMMA HeadTailIds ==
  ASSUME NEW s \in Seq(Message), s # <<>>
  PROVE  MessageIds(s) = {Head(s).id} \cup MessageIds(Tail(s))
<1> DEFINE t == Tail(s)
<1>1. 1 \in DOMAIN s /\ Head(s) = s[1]
  OBVIOUS
<1>2. \A i \in DOMAIN t : i + 1 \in DOMAIN s /\ t[i] = s[i + 1]
  BY HeadTailProperties, LenProperties
<1>3. \A i \in DOMAIN s : i = 1 \/ (i - 1 \in DOMAIN t /\ t[i - 1] = s[i])
  BY HeadTailProperties, LenProperties
<1> HIDE DEF t
<1>4. \A i \in DOMAIN s : s[i].id \in {s[1].id} \cup MessageIds(t)
  BY <1>3, Zenon DEF MessageIds
<1>5. \A i \in DOMAIN t : t[i].id \in MessageIds(s)
  BY <1>2, Zenon DEF MessageIds
<1>6. s[1].id \in MessageIds(s)
  BY <1>1, Zenon DEF MessageIds
<1>7. MessageIds(s) = {s[1].id} \cup MessageIds(t)
  BY <1>4, <1>5, <1>6, Zenon DEF MessageIds
<1>8. QED
  BY <1>1, <1>7 DEF t

LEMMA AppendIds ==
  ASSUME NEW s \in Seq(Message), NEW m \in Message
  PROVE  MessageIds(Append(s, m)) = MessageIds(s) \cup {m.id}
BY DEF MessageIds

LEMMA FrontIds ==
  ASSUME NEW s \in Seq(Message), NEW m \in Message
  PROVE  MessageIds(<<m>> \o s) = MessageIds(s) \cup {m.id}
<1> DEFINE t == <<m>> \o s
<1>1. t \in Seq(Message) /\ t # <<>> /\ Head(t) = m /\ Tail(t) = s
  OBVIOUS
<1> HIDE DEF t
<1>2. MessageIds(t) = {m.id} \cup MessageIds(s)
  BY <1>1, HeadTailIds
<1>3. QED
  BY <1>2 DEF t

\* What is left keeps its order: entries from i on move down by one.
LEMMA RemoveEntries ==
  ASSUME NEW s \in Seq(Message), NEW i \in DOMAIN s
  PROVE  /\ DOMAIN RemoveIndex(s, i) = 1..(Len(s) - 1)
         /\ \A j \in 1..(Len(s) - 1) : RemoveIndex(s, i)[j] = s[IF j < i THEN j ELSE j + 1]
         /\ i \in 1..Len(s) /\ Len(s) \in Nat /\ DOMAIN s = 1..Len(s)
<1> DEFINE u == SubSeq(s, 1, i - 1)
           v == SubSeq(s, i + 1, Len(s))
           t == u \o v
<1>1. i \in 1..Len(s) /\ Len(s) \in Nat /\ DOMAIN s = 1..Len(s)
  OBVIOUS
<1>2. u \in Seq(Message) /\ Len(u) = i - 1 /\ \A j \in 1..(i - 1) : u[j] = s[j]
  BY <1>1
<1>3. v \in Seq(Message) /\ Len(v) = Len(s) - i /\ \A j \in 1..(Len(s) - i) : v[j] = s[j + i]
  BY <1>1
<1>4. t = RemoveIndex(s, i)
  BY DEF RemoveIndex
<1> HIDE DEF u, v
<1>5. /\ t \in Seq(Message)
      /\ Len(t) = Len(u) + Len(v)
      /\ \A j \in 1..(Len(u) + Len(v)) :
           t[j] = IF j <= Len(u) THEN u[j] ELSE v[j - Len(u)]
  BY <1>2, <1>3, ConcatProperties
<1>6. Len(u) + Len(v) = Len(s) - 1
  BY <1>1, <1>2, <1>3
<1>7. DOMAIN t = 1..(Len(s) - 1)
  BY <1>5, <1>6, LenProperties
<1> HIDE DEF t
<1>8. ASSUME NEW j \in 1..(Len(s) - 1)
      PROVE  t[j] = s[IF j < i THEN j ELSE j + 1]
  <2>1. CASE j < i
    BY <1>1, <1>2, <1>5, <1>6, <2>1
  <2>2. CASE ~(j < i)
    <3>1. j - (i - 1) \in 1..(Len(s) - i) /\ j - (i - 1) + i = j + 1 /\ ~(j <= i - 1)
      BY <1>1, <2>2
    <3>2. t[j] = v[j - (i - 1)]
      BY <1>2, <1>5, <1>6, <3>1
    <3>3. QED
      BY <1>3, <2>2, <3>1, <3>2
  <2>3. QED
    BY <2>1, <2>2
<1>9. QED
  BY <1>1, <1>4, <1>7, <1>8

LEMMA RemoveIds ==
  ASSUME NEW s \in Seq(Message), NEW i \in DOMAIN s
  PROVE  MessageIds(s) = {s[i].id} \cup MessageIds(RemoveIndex(s, i))
<1> DEFINE t == RemoveIndex(s, i)
<1>1. /\ DOMAIN t = 1..(Len(s) - 1) /\ i \in 1..Len(s) /\ Len(s) \in Nat /\ DOMAIN s = 1..Len(s)
      /\ \A j \in 1..(Len(s) - 1) : t[j] = s[IF j < i THEN j ELSE j + 1]
  BY RemoveEntries
<1> HIDE DEF t
<1>2. \A j \in DOMAIN t : \E k \in DOMAIN s : t[j] = s[k]
  BY <1>1
<1>3. ASSUME NEW k \in DOMAIN s, k # i PROVE \E j \in DOMAIN t : t[j] = s[k]
  <2>1. CASE k < i
    BY <1>1, <1>3, <2>1
  <2>2. CASE k > i
    <3>1. k - 1 \in 1..(Len(s) - 1) /\ ~(k - 1 < i) /\ k - 1 + 1 = k
      BY <1>1, <2>2
    <3>2. QED
      BY <1>1, <3>1
  <2>3. QED
    BY <1>1, <1>3, <2>1, <2>2
<1>4. \A k \in DOMAIN s : s[k].id \in {s[i].id} \cup MessageIds(t)
  BY <1>3, Zenon DEF MessageIds
<1>5. \A j \in DOMAIN t : t[j].id \in MessageIds(s)
  BY <1>2, Zenon DEF MessageIds
<1>6. s[i].id \in MessageIds(s)
  BY Zenon DEF MessageIds
<1>7. MessageIds(s) = {s[i].id} \cup MessageIds(t)
  BY <1>4, <1>5, <1>6, Zenon DEF MessageIds
<1>8. QED
  BY <1>7 DEF t

LEMMA HandedIds ==
  ASSUME NEW s \in Seq(Nat), NEW n \in Nat
  PROVE  Ids(Append(s, n)) = Ids(s) \cup {n}
<1> DEFINE t == Append(s, n)
<1>1. DOMAIN s = 1..Len(s) /\ Len(s) \in Nat
  OBVIOUS
<1>2. DOMAIN t = DOMAIN s \cup {Len(s) + 1}
  BY <1>1
<1>3. t[Len(s) + 1] = n /\ \A i \in DOMAIN s : t[i] = s[i]
  OBVIOUS
<1> HIDE DEF t
<1>4. Ids(t) = Ids(s) \cup {n}
  BY <1>2, <1>3, Zenon DEF Ids
<1>5. QED
  BY <1>4 DEF t

LEMMA InitLost == Init => NoMessageLost
BY IdleType DEF Init, NoMessageLost, Ids, PendingIds, HeldIds

\* Delivery adds exactly the delivered message.
LEMMA DeliverPlaces ==
  ASSUME TypeOK, NEW m \in Message, Deliver(m)
  PROVE  Ids(handed') \cup matched' \cup HeldIds' = Ids(handed) \cup matched \cup {m.id}
<1> USE DEF TypeOK
<1>1. m.id \in Nat
  BY MessageType
<1>2. CASE handed' = Append(handed, m.id) /\ fut' = Idle /\ UNCHANGED <<matched, hold>>
  BY <1>1, <1>2, IdleType, HandedIds DEF HeldIds
<1>3. CASE matched' = matched \cup {m.id} /\ fut' = Idle /\ UNCHANGED <<handed, hold>>
  BY <1>3, IdleType DEF HeldIds
<1>4. CASE hold' = m /\ fut' = Goto("push") /\ UNCHANGED <<handed, matched>>
  BY <1>4, GotoType DEF HeldIds
<1>5. QED
  BY <1>2, <1>3, <1>4 DEF Deliver

LEMMA StepLost ==
  ASSUME TypeOK, NoMessageLost, [Next]_vars
  PROVE  NoMessageLost'
<1> USE IdleType
<1> USE DEF TypeOK
<1>p. PendingIds = MessageIds(pending_messages) /\ PendingIds' = MessageIds(pending_messages')
  BY DEF PendingIds, MessageIds
\* Steps that move no message.
<1>q. ASSUME UNCHANGED <<received, handed, matched, evicted, hold, pending_messages>>,
             fut.at # "push", fut'.at # "push"
      PROVE  NoMessageLost'
  BY <1>q DEF NoMessageLost, PendingIds, HeldIds
<1> USE DEF fates, buffer
<1>1. ASSUME NEW e \in EchoOrNone, Publish(e) PROVE NoMessageLost'
  BY <1>1, <1>q DEF Publish
<1>2. CASE PublishWritten
  BY <1>2, <1>q DEF PublishWritten
<1>3. CASE Ping
  BY <1>3, <1>q DEF Ping, Running
<1>4. CASE PingWritten
  BY <1>4, <1>q, GotoType DEF PingWritten, Awaiting
<1>5. CASE WriteFailed
  BY <1>5, <1>q DEF WriteFailed
<1>6. CASE Poll
  <2>1. CASE pending_messages # <<>>
    <3> DEFINE h == Head(pending_messages)
    <3>1. h \in Message /\ h.id \in Nat
      BY <2>1, HeadTail, MessageType
    <3>2. handed' = Append(handed, h.id) /\ pending_messages' = Tail(pending_messages)
          /\ UNCHANGED <<fut, received, matched, evicted, hold>>
      BY <1>6, <2>1 DEF Poll
    <3>3. Ids(handed') = Ids(handed) \cup {h.id}
      BY <3>1, <3>2, HandedIds
    <3>4. PendingIds = {h.id} \cup PendingIds'
      BY <1>p, <2>1, <3>2, HeadTailIds
    <3>5. HeldIds' = HeldIds
      BY <3>2 DEF HeldIds
    <3>6. QED
      BY <3>2, <3>3, <3>4, <3>5 DEF NoMessageLost
  <2>2. CASE pending_messages = <<>>
    BY <1>6, <1>q, <2>2 DEF Poll, Running
  <2>3. QED
    BY <2>1, <2>2
<1>7. ASSUME NEW e \in Echoes, PollUntil(e) PROVE NoMessageLost'
  <2>1. ASSUME NEW i \in MatchingIndices(e),
               matched' = matched \cup {pending_messages[i].id},
               pending_messages' = RemoveIndex(pending_messages, i),
               UNCHANGED <<fut, received, handed, evicted, hold>>
        PROVE  NoMessageLost'
    <3>1. i \in DOMAIN pending_messages
      BY DEF MatchingIndices
    <3>2. PendingIds = {pending_messages[i].id} \cup PendingIds'
      BY <1>p, <2>1, <3>1, RemoveIds
    <3>3. HeldIds' = HeldIds
      BY <2>1 DEF HeldIds
    <3>4. QED
      BY <2>1, <3>2, <3>3 DEF NoMessageLost
  <2>2. CASE fut' = Running("loop", "until", e) /\ UNCHANGED <<matched, buffer>>
    BY <1>7, <1>q, <2>2 DEF PollUntil, Running
  <2>3. QED
    BY <1>7, <2>1, <2>2 DEF PollUntil
<1>8. CASE KeepaliveIfDue
  BY <1>8, <1>q, GotoType DEF KeepaliveIfDue, Awaiting, Writing
<1>9. ASSUME NEW q \in 0..2, NEW z \in Sizes, NEW e \in sent \cup {NoEcho}, ReadPublish(q, z, e)
      PROVE  NoMessageLost'
  <2> DEFINE m == [id |-> received + 1, size |-> z, echo |-> e]
  <2>1. m \in Message /\ m.id = received + 1
    BY DEF Message, EchoOrNone
  <2>2. received' = received + 1 /\ evicted' = evicted /\ HeldIds = {}
    BY <1>9 DEF ReadPublish, HeldIds
  <2>3. 1..received' = (1..received) \cup {m.id}
    BY <2>1, <2>2
  <2>4. CASE Deliver(m) /\ UNCHANGED buffer
    <3>1. PendingIds' = PendingIds
      BY <1>p, <2>4
    <3>2. Ids(handed') \cup matched' \cup HeldIds' = Ids(handed) \cup matched \cup {m.id}
      BY <2>1, <2>4, DeliverPlaces
    <3>3. QED
      BY <2>2, <2>3, <3>1, <3>2 DEF NoMessageLost
  <2>5. CASE /\ pending_messages' = <<m>> \o pending_messages
             /\ fut' = Goto("puback")
             /\ UNCHANGED <<handed, matched, hold>>
    <3>1. PendingIds' = PendingIds \cup {m.id}
      BY <1>p, <2>1, <2>5, FrontIds
    <3>2. HeldIds' = {}
      BY <2>5, GotoType DEF HeldIds, Awaiting, Writing
    <3>3. QED
      BY <2>2, <2>3, <2>5, <3>1, <3>2 DEF NoMessageLost
  <2>6. QED
    BY <1>9, <2>4, <2>5 DEF ReadPublish
<1>10. ASSUME NEW ok \in BOOLEAN, PubackWritten(ok) PROVE NoMessageLost'
  <2> DEFINE h == Head(pending_messages)
  <2>1. pending_messages # <<>> /\ HeldIds = {}
    BY <1>10 DEF PubackWritten, HeldIds
  <2>2. h \in Message
    BY <2>1, HeadTail
  <2>3. PendingIds = {h.id} \cup PendingIds'
    BY <1>10, <1>p, <2>1, HeadTailIds DEF PubackWritten
  <2>4. Ids(handed') \cup matched' \cup HeldIds' = Ids(handed) \cup matched \cup {h.id}
    BY <1>10, <2>2, DeliverPlaces DEF PubackWritten
  <2>5. UNCHANGED <<received, evicted>>
    BY <1>10 DEF PubackWritten
  <2>6. QED
    BY <2>1, <2>3, <2>4, <2>5 DEF NoMessageLost
<1>11. ASSUME NEW i \in unacked, ReadPuback(i) PROVE NoMessageLost'
  BY <1>11, <1>q, GotoType DEF ReadPuback
<1>12. ASSUME NEW b \in BOOLEAN, ReadOther(b) PROVE NoMessageLost'
  BY <1>12, <1>q, GotoType DEF ReadOther
<1>13. ASSUME NEW b \in BOOLEAN, ReadFailed(b) PROVE NoMessageLost'
  BY <1>13, <1>q DEF ReadFailed
<1>14. CASE EvictOldest
  <2> DEFINE h == Head(pending_messages)
  <2>1. pending_messages # <<>>
    BY <1>14 DEF EvictOldest, Fits
  <2>2. PendingIds = {h.id} \cup PendingIds'
    BY <1>14, <1>p, <2>1, HeadTailIds DEF EvictOldest
  <2>3. evicted' = evicted \cup {h.id} /\ HeldIds' = HeldIds
        /\ UNCHANGED <<received, handed, matched>>
    BY <1>14 DEF EvictOldest, HeldIds
  <2>4. QED
    BY <2>2, <2>3 DEF NoMessageLost
<1>15. CASE PushPending
  <2>1. HeldIds = {hold.id} /\ hold \in Message
    BY <1>15 DEF PushPending, HeldIds
  <2>2. PendingIds' = PendingIds \cup {hold.id}
    BY <1>15, <1>p, <2>1, AppendIds DEF PushPending
  <2>3. HeldIds' = {}
    BY <1>15, GotoType DEF PushPending, HeldIds
  <2>4. UNCHANGED <<received, handed, matched, evicted>>
    BY <1>15 DEF PushPending
  <2>5. QED
    BY <2>1, <2>2, <2>3, <2>4 DEF NoMessageLost
<1>16. ASSUME NEW n \in Elapsed, Tick(n) PROVE NoMessageLost'
  BY <1>16, <1>q DEF Tick
<1>17. CASE Cancel
  BY <1>17, <1>q DEF Cancel, Awaiting, Writing
<1>18. CASE UNCHANGED vars
  BY <1>18 DEF vars, NoMessageLost, PendingIds, HeldIds
<1>19. QED
  BY <1>1, <1>2, <1>3, <1>4, <1>5, <1>6, <1>7, <1>8, <1>9, <1>10, <1>11, <1>12,
     <1>13, <1>14, <1>15, <1>16, <1>17, <1>18 DEF Next

\* Every message read off the wire is with the caller, matched, evicted at the
\* cap or still buffered, however its PUBACK write ended.
THEOREM NoMessageLostTheorem == Spec => []NoMessageLost
BY InitLost, StepLost, TypeCorrect, PTL DEF Spec
----------------------------------------------------------------------------
(* ... and in one of them only.  The five places are disjoint, and a message *)
(* that moves leaves the one it was in: the buffer's entries are distinct,   *)
(* and the number of the next message is in none of them.                    *)

Distinct(s) == \A i, j \in DOMAIN s : s[i].id = s[j].id => i = j
AllOnce(s) == \A i, j \in DOMAIN s : s[i] = s[j] => i = j

LEMMA TailDistinct ==
  ASSUME NEW s \in Seq(Message), s # <<>>, Distinct(s)
  PROVE  Distinct(Tail(s)) /\ Head(s).id \notin MessageIds(Tail(s))
<1> DEFINE t == Tail(s)
<1>1. 1 \in DOMAIN s /\ Head(s) = s[1]
  OBVIOUS
<1>2. \A i \in DOMAIN t : i + 1 \in DOMAIN s /\ t[i] = s[i + 1] /\ i \in Nat /\ i + 1 # 1
  BY HeadTailProperties, LenProperties
<1>3. \A i, j \in Nat : i + 1 = j + 1 => i = j
  OBVIOUS
<1> HIDE DEF t
<1>4. Distinct(t)
  BY <1>2, <1>3 DEF Distinct
<1>5. \A i \in DOMAIN t : t[i].id # s[1].id
  BY <1>1, <1>2 DEF Distinct
<1>6. s[1].id \notin MessageIds(t)
  BY <1>5, Zenon DEF MessageIds
<1>7. QED
  BY <1>1, <1>4, <1>6 DEF t

LEMMA AppendDistinct ==
  ASSUME NEW s \in Seq(Message), NEW m \in Message, Distinct(s), m.id \notin MessageIds(s)
  PROVE  Distinct(Append(s, m))
<1> DEFINE t == Append(s, m)
<1>1. /\ DOMAIN t = DOMAIN s \cup {Len(s) + 1} /\ t[Len(s) + 1] = m
      /\ \A i \in DOMAIN s : t[i] = s[i]
  BY AppendProperties, LenProperties
<1> HIDE DEF t
<1>2. \A i \in DOMAIN s : s[i].id # m.id
  BY Zenon DEF MessageIds
<1>3. QED
  BY <1>1, <1>2 DEF Distinct, t

LEMMA FrontDistinct ==
  ASSUME NEW s \in Seq(Message), NEW m \in Message, Distinct(s), m.id \notin MessageIds(s)
  PROVE  Distinct(<<m>> \o s)
<1> DEFINE t == <<m>> \o s
<1>1. t \in Seq(Message) /\ t # <<>> /\ Head(t) = m /\ Tail(t) = s
  OBVIOUS
<1> HIDE DEF t
<1>2. /\ 1 \in DOMAIN t /\ t[1] = m
      /\ \A i \in DOMAIN t : i = 1 \/ (i - 1 \in DOMAIN s /\ t[i] = s[i - 1] /\ i \in Int)
  BY <1>1, HeadTailProperties, LenProperties
<1>3. \A i \in DOMAIN s : s[i].id # m.id
  BY Zenon DEF MessageIds
<1>4. \A i, j \in Int : i - 1 = j - 1 => i = j
  OBVIOUS
<1>5. Distinct(t)
  BY <1>2, <1>3, <1>4 DEF Distinct
<1>6. QED
  BY <1>5 DEF t

LEMMA RemoveDistinct ==
  ASSUME NEW s \in Seq(Message), NEW i \in DOMAIN s, Distinct(s)
  PROVE  Distinct(RemoveIndex(s, i)) /\ s[i].id \notin MessageIds(RemoveIndex(s, i))
<1> DEFINE t == RemoveIndex(s, i)
           Old(j) == IF j < i THEN j ELSE j + 1
<1>1. /\ DOMAIN t = 1..(Len(s) - 1) /\ i \in 1..Len(s) /\ Len(s) \in Nat /\ DOMAIN s = 1..Len(s)
      /\ \A j \in 1..(Len(s) - 1) : t[j] = s[Old(j)]
  BY RemoveEntries
<1>2. \A j, k \in DOMAIN t : Old(j) \in DOMAIN s /\ Old(j) # i /\ (Old(j) = Old(k) => j = k)
  BY <1>1
<1> HIDE DEF t, Old
<1>3. \A j \in DOMAIN t : t[j] = s[Old(j)]
  BY <1>1
<1>4. Distinct(t)
  BY <1>2, <1>3 DEF Distinct
<1>5. \A j \in DOMAIN t : t[j].id # s[i].id
  BY <1>2, <1>3 DEF Distinct
<1>6. s[i].id \notin MessageIds(t)
  BY <1>5, Zenon DEF MessageIds
<1>7. QED
  BY <1>4, <1>6 DEF t

LEMMA HandedOnce ==
  ASSUME NEW s \in Seq(Nat), NEW n \in Nat, AllOnce(s), n \notin Ids(s)
  PROVE  AllOnce(Append(s, n))
<1> DEFINE t == Append(s, n)
<1>1. /\ DOMAIN t = DOMAIN s \cup {Len(s) + 1} /\ t[Len(s) + 1] = n
      /\ \A i \in DOMAIN s : t[i] = s[i]
  BY AppendProperties, LenProperties
<1> HIDE DEF t
<1>2. \A i \in DOMAIN s : s[i] # n
  BY Zenon DEF Ids
<1>3. QED
  BY <1>1, <1>2 DEF AllOnce, t

\* NoMessageTwice by its parts.
Disjoint(h, mt, ev, ps, hd) ==
  /\ ps \cap hd = {} /\ (ps \cup hd) \cap (h \cup mt \cup ev) = {}
  /\ h \cap (mt \cup ev) = {} /\ mt \cap ev = {}

LEMMA TwiceParts ==
  NoMessageTwice <=> /\ AllOnce(handed) /\ Distinct(pending_messages)
                     /\ Disjoint(Ids(handed), matched, evicted, PendingIds, HeldIds)
BY DEF NoMessageTwice, AllOnce, Distinct, Disjoint

\* A message in none of the other places is delivered to one of them.
LEMMA DeliverOnce ==
  ASSUME TypeOK, NEW m \in Message, Deliver(m), fut.at # "push", NEW ps,
         AllOnce(handed), Disjoint(Ids(handed), matched, evicted, ps, {}),
         m.id \notin Ids(handed) \cup matched \cup evicted \cup ps, UNCHANGED evicted
  PROVE  AllOnce(handed') /\ Disjoint(Ids(handed'), matched', evicted', ps, HeldIds')
<1> USE DEF TypeOK
<1>1. m.id \in Nat
  BY MessageType
<1>2. CASE handed' = Append(handed, m.id) /\ fut' = Idle /\ UNCHANGED <<matched, hold>>
  <2>1. AllOnce(handed') /\ Ids(handed') = Ids(handed) \cup {m.id} /\ HeldIds' = {}
    BY <1>1, <1>2, IdleType, HandedIds, HandedOnce DEF HeldIds
  <2>2. QED
    BY <1>2, <2>1 DEF Disjoint
<1>3. CASE matched' = matched \cup {m.id} /\ fut' = Idle /\ UNCHANGED <<handed, hold>>
  <2>1. HeldIds' = {}
    BY <1>3, IdleType DEF HeldIds
  <2>2. QED
    BY <1>3, <2>1 DEF Disjoint
<1>4. CASE hold' = m /\ fut' = Goto("push") /\ UNCHANGED <<handed, matched>>
  <2>1. HeldIds' = {m.id}
    BY <1>4, GotoType DEF HeldIds
  <2>2. QED
    BY <1>4, <2>1 DEF Disjoint
<1>5. QED
  BY <1>2, <1>3, <1>4 DEF Deliver

LEMMA InitTwice == Init => NoMessageTwice
BY IdleType DEF Init, NoMessageTwice, Ids, PendingIds, HeldIds

LEMMA StepTwice ==
  ASSUME TypeOK, NoMessageLost, NoMessageTwice, [Next]_vars
  PROVE  NoMessageTwice'
<1> USE IdleType
<1> USE DEF TypeOK
<1>p. PendingIds = MessageIds(pending_messages) /\ PendingIds' = MessageIds(pending_messages')
  BY DEF PendingIds, MessageIds
<1>t. /\ AllOnce(handed) /\ Distinct(pending_messages)
      /\ Disjoint(Ids(handed), matched, evicted, PendingIds, HeldIds)
  BY TwiceParts
<1>s. ASSUME AllOnce(handed'), Distinct(pending_messages'),
             Disjoint(Ids(handed'), matched', evicted', PendingIds', HeldIds')
      PROVE  NoMessageTwice'
  BY <1>s DEF NoMessageTwice, AllOnce, Distinct, Disjoint
\* Steps that move no message.
<1>q. ASSUME UNCHANGED <<handed, matched, evicted, hold, pending_messages>>,
             fut.at # "push", fut'.at # "push"
      PROVE  NoMessageTwice'
  BY <1>q DEF NoMessageTwice, PendingIds, HeldIds
<1> USE DEF fates, buffer
<1>1. ASSUME NEW e \in EchoOrNone, Publish(e) PROVE NoMessageTwice'
  BY <1>1, <1>q DEF Publish
<1>2. CASE PublishWritten
  BY <1>2, <1>q DEF PublishWritten
<1>3. CASE Ping
  BY <1>3, <1>q DEF Ping, Running
<1>4. CASE PingWritten
  BY <1>4, <1>q, GotoType DEF PingWritten, Awaiting
<1>5. CASE WriteFailed
  BY <1>5, <1>q DEF WriteFailed
<1>6. CASE Poll
  <2>1. CASE pending_messages # <<>>
    <3> DEFINE h == Head(pending_messages)
    <3>1. h \in Message /\ h.id \in Nat
      BY <2>1, HeadTail, MessageType
    <3>2. handed' = Append(handed, h.id) /\ pending_messages' = Tail(pending_messages)
          /\ UNCHANGED <<fut, received, matched, evicted, hold>>
      BY <1>6, <2>1 DEF Poll
    <3>3. PendingIds = {h.id} \cup PendingIds' /\ h.id \notin PendingIds' /\ Distinct(pending_messages')
      BY <1>p, <1>t, <2>1, <3>2, HeadTailIds, TailDistinct
    <3>4. h.id \notin Ids(handed)
      BY <1>t, <3>3 DEF Disjoint
    <3>5. AllOnce(handed') /\ Ids(handed') = Ids(handed) \cup {h.id}
      BY <1>t, <3>1, <3>2, <3>4, HandedIds, HandedOnce
    <3>6. HeldIds' = HeldIds
      BY <3>2 DEF HeldIds
    <3> HIDE DEF h
    <3>7. Disjoint(Ids(handed'), matched', evicted', PendingIds', HeldIds')
      BY <1>t, <3>2, <3>3, <3>5, <3>6 DEF Disjoint
    <3>8. QED
      BY <1>s, <3>3, <3>5, <3>7
  <2>2. CASE pending_messages = <<>>
    BY <1>6, <1>q, <2>2 DEF Poll, Running
  <2>3. QED
    BY <2>1, <2>2
<1>7. ASSUME NEW e \in Echoes, PollUntil(e) PROVE NoMessageTwice'
  <2>1. ASSUME NEW i \in MatchingIndices(e),
               matched' = matched \cup {pending_messages[i].id},
               pending_messages' = RemoveIndex(pending_messages, i),
               UNCHANGED <<fut, received, handed, evicted, hold>>
        PROVE  NoMessageTwice'
    <3> DEFINE n == pending_messages[i].id
    <3>1. i \in DOMAIN pending_messages
      BY DEF MatchingIndices
    <3>2. PendingIds = {n} \cup PendingIds' /\ n \notin PendingIds' /\ Distinct(pending_messages')
      BY <1>p, <1>t, <2>1, <3>1, RemoveIds, RemoveDistinct
    <3>3. HeldIds' = HeldIds /\ matched' = matched \cup {n}
      BY <2>1 DEF HeldIds
    <3> HIDE DEF n
    <3>4. Disjoint(Ids(handed'), matched', evicted', PendingIds', HeldIds')
      BY <1>t, <2>1, <3>2, <3>3 DEF Disjoint
    <3>5. QED
      BY <1>s, <1>t, <2>1, <3>2, <3>4
  <2>2. CASE fut' = Running("loop", "until", e) /\ UNCHANGED <<matched, buffer>>
    BY <1>7, <1>q, <2>2 DEF PollUntil, Running
  <2>3. QED
    BY <1>7, <2>1, <2>2 DEF PollUntil
<1>8. CASE KeepaliveIfDue
  BY <1>8, <1>q, GotoType DEF KeepaliveIfDue, Awaiting, Writing
<1>9. ASSUME NEW q \in 0..2, NEW z \in Sizes, NEW e \in sent \cup {NoEcho}, ReadPublish(q, z, e)
      PROVE  NoMessageTwice'
  <2> DEFINE m == [id |-> received + 1, size |-> z, echo |-> e]
  <2>1. m \in Message /\ m.id = received + 1
    BY DEF Message, EchoOrNone
  <2>2. evicted' = evicted /\ HeldIds = {} /\ fut.at # "push"
    BY <1>9 DEF ReadPublish, HeldIds
  <2>3. m.id \notin Ids(handed) \cup matched \cup evicted \cup PendingIds
    <3>1. received + 1 \notin 1..received
      OBVIOUS
    <3>2. QED
      BY <2>1, <2>2, <3>1 DEF NoMessageLost
  <2>4. CASE Deliver(m) /\ UNCHANGED buffer
    <3>1. PendingIds' = PendingIds /\ pending_messages' = pending_messages
      BY <1>p, <2>4
    <3>2. AllOnce(handed') /\ Disjoint(Ids(handed'), matched', evicted', PendingIds, HeldIds')
      BY <1>t, <2>1, <2>2, <2>3, <2>4, DeliverOnce
    <3>3. QED
      BY <1>s, <1>t, <3>1, <3>2
  <2>5. CASE /\ pending_messages' = <<m>> \o pending_messages
             /\ fut' = Goto("puback")
             /\ UNCHANGED <<handed, matched, hold>>
    <3>1. PendingIds' = PendingIds \cup {m.id} /\ Distinct(pending_messages')
      BY <1>p, <1>t, <2>1, <2>3, <2>5, FrontIds, FrontDistinct
    <3>2. HeldIds' = {}
      BY <2>5, GotoType DEF HeldIds, Awaiting, Writing
    <3> HIDE DEF m
    <3>3. Disjoint(Ids(handed'), matched', evicted', PendingIds', HeldIds')
      BY <1>t, <2>2, <2>3, <2>5, <3>1, <3>2 DEF Disjoint
    <3>4. QED
      BY <1>s, <1>t, <2>5, <3>1, <3>3
  <2>6. QED
    BY <1>9, <2>4, <2>5 DEF ReadPublish
<1>10. ASSUME NEW ok \in BOOLEAN, PubackWritten(ok) PROVE NoMessageTwice'
  <2> DEFINE h == Head(pending_messages)
  <2>1. pending_messages # <<>> /\ HeldIds = {} /\ fut.at # "push"
    BY <1>10 DEF PubackWritten, HeldIds
  <2>2. h \in Message /\ Deliver(h) /\ UNCHANGED evicted
    BY <1>10, <2>1, HeadTail DEF PubackWritten
  <2>3. PendingIds = {h.id} \cup PendingIds' /\ h.id \notin PendingIds' /\ Distinct(pending_messages')
    BY <1>10, <1>p, <1>t, <2>1, HeadTailIds, TailDistinct DEF PubackWritten
  <2> HIDE DEF h
  <2>4. /\ Disjoint(Ids(handed), matched, evicted, PendingIds', {})
        /\ h.id \notin Ids(handed) \cup matched \cup evicted \cup PendingIds'
    BY <1>t, <2>1, <2>3 DEF Disjoint
  <2>5. AllOnce(handed') /\ Disjoint(Ids(handed'), matched', evicted', PendingIds', HeldIds')
    BY <1>t, <2>1, <2>2, <2>4, DeliverOnce
  <2>6. QED
    BY <1>s, <2>3, <2>5
<1>11. ASSUME NEW i \in unacked, ReadPuback(i) PROVE NoMessageTwice'
  BY <1>11, <1>q, GotoType DEF ReadPuback
<1>12. ASSUME NEW b \in BOOLEAN, ReadOther(b) PROVE NoMessageTwice'
  BY <1>12, <1>q, GotoType DEF ReadOther
<1>13. ASSUME NEW b \in BOOLEAN, ReadFailed(b) PROVE NoMessageTwice'
  BY <1>13, <1>q DEF ReadFailed
<1>14. CASE EvictOldest
  <2> DEFINE h == Head(pending_messages)
  <2>1. pending_messages # <<>>
    BY <1>14 DEF EvictOldest, Fits
  <2>2. PendingIds = {h.id} \cup PendingIds' /\ h.id \notin PendingIds' /\ Distinct(pending_messages')
    BY <1>14, <1>p, <1>t, <2>1, HeadTailIds, TailDistinct DEF EvictOldest
  <2>3. evicted' = evicted \cup {h.id} /\ HeldIds' = HeldIds
        /\ UNCHANGED <<received, handed, matched>>
    BY <1>14 DEF EvictOldest, HeldIds
  <2> HIDE DEF h
  <2>4. Disjoint(Ids(handed'), matched', evicted', PendingIds', HeldIds')
    BY <1>t, <2>2, <2>3 DEF Disjoint
  <2>5. QED
    BY <1>s, <1>t, <2>2, <2>3, <2>4
<1>15. CASE PushPending
  <2>1. HeldIds = {hold.id} /\ hold \in Message
    BY <1>15 DEF PushPending, HeldIds
  <2>2. hold.id \notin PendingIds
    BY <1>t, <2>1 DEF Disjoint
  <2>3. PendingIds' = PendingIds \cup {hold.id} /\ Distinct(pending_messages')
    BY <1>15, <1>p, <1>t, <2>1, <2>2, AppendIds, AppendDistinct DEF PushPending
  <2>4. HeldIds' = {}
    BY <1>15, GotoType DEF PushPending, HeldIds
  <2>5. UNCHANGED <<received, handed, matched, evicted>>
    BY <1>15 DEF PushPending
  <2>6. Disjoint(Ids(handed'), matched', evicted', PendingIds', HeldIds')
    BY <1>t, <2>1, <2>3, <2>4, <2>5 DEF Disjoint
  <2>7. QED
    BY <1>s, <1>t, <2>3, <2>5, <2>6
<1>16. ASSUME NEW n \in Elapsed, Tick(n) PROVE NoMessageTwice'
  BY <1>16, <1>q DEF Tick
<1>17. CASE Cancel
  BY <1>17, <1>q DEF Cancel, Awaiting, Writing
<1>18. CASE UNCHANGED vars
  BY <1>18 DEF vars, NoMessageTwice, PendingIds, HeldIds
<1>19. QED
  BY <1>1, <1>2, <1>3, <1>4, <1>5, <1>6, <1>7, <1>8, <1>9, <1>10, <1>11, <1>12,
     <1>13, <1>14, <1>15, <1>16, <1>17, <1>18 DEF Next

\* A message read off the wire is never with two of them, nor twice in the
\* buffer or with the caller: poll_wire takes what it parked for the PUBACK
\* out again before it delivers it, and a dropped write leaves it parked once.
THEOREM NoMessageTwiceTheorem == Spec => []NoMessageTwice
BY InitTwice, StepTwice, NoMessageLostTheorem, TypeCorrect, PTL DEF Spec
----------------------------------------------------------------------------
(* The buffer's books.  The byte count is a sum over the buffer, which is a  *)
(* recursive function; its equation determines it by induction over the      *)
(* numbers, stated here for sets.                                            *)

LEMMA NumbersIn ==
  ASSUME NEW S, 0 \in S, \A n \in Nat : n \in S => n + 1 \in S
  PROVE  Nat \subseteq S
<1> DEFINE T == Nat \ S
           R == {ss \in Nat \X Nat : ss[1] < ss[2]}
<1> SUFFICES ASSUME T # {} PROVE FALSE
  OBVIOUS
<1>1. IsWellFoundedOn(R, Nat)
  BY NatLessThanWellFounded DEF OpToRel
<1>2. PICK x \in T : \A y \in T : ~(<<y, x>> \in R)
  <2> HIDE DEF R
  <2> QED
    BY <1>1, WFMin
<1>3. x # 0 /\ x - 1 \in Nat
  OBVIOUS
<1>4. <<x - 1, x>> \in R
  BY <1>3
<1>5. x - 1 \notin T
  BY <1>2, <1>4
<1>6. QED
  BY <1>3, <1>5

\* g[i] is the size of the first i entries of s.
Adds(s, g) ==
  /\ g \in [0..Len(s) -> Nat]
  /\ \A i \in 0..Len(s) : g[i] = IF i = 0 THEN 0 ELSE g[i - 1] + s[i].size
Totals(s, n) == \E g : Adds(s, g) /\ g[Len(s)] = n

LEMMA EntryType ==
  ASSUME NEW s \in Seq(Message)
  PROVE  /\ Len(s) \in Nat /\ DOMAIN s = 1..Len(s)
         /\ \A i \in 1..Len(s) : s[i] \in Message /\ s[i].size \in Nat /\ s[i].id \in Nat \ {0}
<1>1. Len(s) \in Nat /\ DOMAIN s = 1..Len(s) /\ \A i \in 1..Len(s) : s[i] \in Message
  OBVIOUS
<1>2. QED
  BY <1>1, MessageType

LEMMA AddsGrows ==
  ASSUME NEW s \in Seq(Message), NEW g, Adds(s, g), NEW i \in 0..Len(s), NEW j \in i..Len(s)
  PROVE  g[i] <= g[j]
<1> DEFINE S == {k \in Nat : i + k <= Len(s) => g[i] <= g[i + k]}
<1>1. Len(s) \in Nat /\ \A k \in 0..Len(s) : g[k] \in Nat
  BY DEF Adds
<1>2. 0 \in S
  BY <1>1
<1>3. ASSUME NEW k \in Nat, k \in S PROVE k + 1 \in S
  <2> SUFFICES ASSUME i + (k + 1) <= Len(s) PROVE g[i] <= g[i + (k + 1)]
    OBVIOUS
  <2> DEFINE x == i + (k + 1)
  <2>1. x \in 1..Len(s) /\ x \in 0..Len(s) /\ x # 0 /\ x - 1 = i + k /\ i + k \in 0..Len(s)
    BY <1>1
  <2> HIDE DEF x
  <2>2. g[x] = g[x - 1] + s[x].size
    BY <2>1 DEF Adds
  <2>3. s[x].size \in Nat
    BY <2>1, EntryType
  <2>4. g[i] <= g[i + k] /\ g[i] \in Nat /\ g[i + k] \in Nat
    BY <1>1, <1>3, <2>1
  <2>5. g[i] <= g[x]
    BY <2>1, <2>2, <2>3, <2>4
  <2>6. QED
    BY <2>5 DEF x
<1>4. Nat \subseteq S
  <2> HIDE DEF S
  <2> QED
    BY <1>2, <1>3, NumbersIn
<1>5. j - i \in Nat /\ i + (j - i) = j /\ j <= Len(s)
  BY <1>1
<1>6. j - i \in S
  <2> HIDE DEF S
  <2> QED
    BY <1>4, <1>5
<1>7. QED
  BY <1>5, <1>6

\* SumSizes is the function that the equation determines.
LEMMA SumIsTotal ==
  ASSUME pending_messages \in Seq(Message), NEW n, Totals(pending_messages, n)
  PROVE  SumSizes = n
<1> DEFINE s == pending_messages
           F(g) == [i \in 0..Len(s) |-> IF i = 0 THEN 0 ELSE g[i - 1] + s[i].size]
           c == CHOOSE g : g = F(g)
<1>1. PICK g : Adds(s, g) /\ g[Len(s)] = n
  BY DEF Totals
<1>2. g = F(g)
  BY <1>1 DEF Adds
<1>3. c = F(c)
  <2> HIDE DEF F
  <2> QED
    BY <1>2
<1> HIDE DEF c
<1>4. Len(s) \in Nat
  BY EntryType
<1>5. \A i \in 0..Len(s) : c[i] = IF i = 0 THEN 0 ELSE c[i - 1] + s[i].size
  BY <1>3
<1> DEFINE S == {k \in Nat : k <= Len(s) => c[k] = g[k]}
<1>6. 0 \in S
  BY <1>1, <1>4, <1>5 DEF Adds
<1>7. ASSUME NEW k \in Nat, k \in S PROVE k + 1 \in S
  <2> SUFFICES ASSUME k + 1 <= Len(s) PROVE c[k + 1] = g[k + 1]
    OBVIOUS
  <2>1. k + 1 \in 0..Len(s) /\ k + 1 # 0 /\ k + 1 - 1 = k /\ k <= Len(s)
    BY <1>4
  <2>2. c[k + 1] = c[k] + s[k + 1].size /\ g[k + 1] = g[k] + s[k + 1].size
    BY <1>1, <1>5, <2>1 DEF Adds
  <2>3. QED
    BY <1>7, <2>1, <2>2
<1>8. Nat \subseteq S
  <2> HIDE DEF S
  <2> QED
    BY <1>6, <1>7, NumbersIn
<1>9. c[Len(s)] = n
  BY <1>1, <1>4, <1>8
<1>10. SumSizes = c[Len(s)]
  BY DEF SumSizes, c
<1>11. QED
  BY <1>9, <1>10

LEMMA TotalNone ==
  /\ Totals(<<>>, 0)
  /\ \A n : Totals(<<>>, n) => n = 0
<1>1. Adds(<<>>, [i \in 0..0 |-> 0])
  BY DEF Adds
<1>2. Len(<<>>) = 0 /\ [i \in 0..0 |-> 0][0] = 0
  OBVIOUS
<1>3. \A g : Adds(<<>>, g) => g[0] = 0
  BY <1>2 DEF Adds
<1>4. QED
  BY <1>1, <1>2, <1>3, Zenon DEF Totals

LEMMA TotalAppend ==
  ASSUME NEW s \in Seq(Message), NEW m \in Message, NEW n, Totals(s, n)
  PROVE  Totals(Append(s, m), n + m.size)
<1> DEFINE t == Append(s, m)
<1>1. PICK g : Adds(s, g) /\ g[Len(s)] = n
  BY DEF Totals
<1> DEFINE h == [i \in 0..(Len(s) + 1) |-> IF i <= Len(s) THEN g[i] ELSE n + m.size]
<1>2. /\ Len(t) = Len(s) + 1 /\ Len(s) \in Nat /\ m.size \in Nat
      /\ t[Len(s) + 1] = m /\ \A i \in 1..Len(s) : t[i] = s[i]
  BY AppendProperties, MessageType
<1>3. n \in Nat /\ \A i \in 0..Len(s) : g[i] \in Nat
  BY <1>1, <1>2 DEF Adds
<1>4. h \in [0..Len(t) -> Nat]
  BY <1>2, <1>3
<1> HIDE DEF t
<1>5. ASSUME NEW i \in 0..Len(t) PROVE h[i] = IF i = 0 THEN 0 ELSE h[i - 1] + t[i].size
  <2>1. CASE i = 0
    BY <1>1, <1>2, <2>1 DEF Adds
  <2>2. CASE i \in 1..Len(s)
    <3>1. h[i] = g[i] /\ h[i - 1] = g[i - 1] /\ t[i] = s[i] /\ i \in 0..Len(s) /\ i # 0
      BY <1>2, <2>2
    <3>2. g[i] = g[i - 1] + s[i].size
      BY <1>1, <3>1 DEF Adds
    <3>3. QED
      BY <3>1, <3>2
  <2>3. CASE i = Len(s) + 1
    BY <1>1, <1>2, <2>3
  <2>4. QED
    BY <1>2, <2>1, <2>2, <2>3
<1>6. h[Len(t)] = n + m.size
  BY <1>2
<1> HIDE DEF h
<1>7. Adds(t, h)
  BY <1>4, <1>5 DEF Adds
<1>8. QED
  BY <1>6, <1>7 DEF Totals, t

\* Taking an entry out, whichever it is, takes its size off.
LEMMA TotalRemove ==
  ASSUME NEW s \in Seq(Message), NEW p \in DOMAIN s, NEW n, Totals(s, n)
  PROVE  n \in Nat /\ s[p].size <= n /\ Totals(RemoveIndex(s, p), n - s[p].size)
<1> DEFINE t == RemoveIndex(s, p)
           z == s[p].size
<1>1. PICK g : Adds(s, g) /\ g[Len(s)] = n
  BY DEF Totals
<1> DEFINE h == [i \in 0..(Len(s) - 1) |-> IF i < p THEN g[i] ELSE g[i + 1] - z]
<1>2. /\ t \in Seq(Message) /\ p \in 1..Len(s) /\ Len(s) \in Nat
      /\ DOMAIN t = 1..(Len(s) - 1)
      /\ \A j \in 1..(Len(s) - 1) : t[j] = s[IF j < p THEN j ELSE j + 1]
  BY RemoveEntries, RemoveIndexType
<1>3. Len(t) = Len(s) - 1
  BY <1>2, LenProperties
<1>4. z \in Nat /\ \A i \in 1..Len(s) : s[i].size \in Nat
  BY <1>2, EntryType
<1>5. \A i \in 0..Len(s) : g[i] \in Nat
  BY <1>1, <1>2 DEF Adds
<1>6. g[p] = g[p - 1] + z /\ p - 1 \in 0..Len(s)
  BY <1>1, <1>2 DEF Adds
<1>7. \A i \in p..Len(s) : g[p] <= g[i]
  BY <1>1, <1>2, AddsGrows
<1>8. \A i \in p..Len(s) : g[i] - z \in Nat
  <2> SUFFICES ASSUME NEW i \in p..Len(s) PROVE g[i] - z \in Nat
    OBVIOUS
  <2>1. i \in 0..Len(s) /\ p \in 0..Len(s)
    BY <1>2
  <2>2. g[i] \in Nat /\ g[p] \in Nat /\ g[p - 1] \in Nat /\ g[p] <= g[i]
    BY <1>5, <1>6, <1>7, <2>1
  <2> HIDE DEF z
  <2>3. QED
    BY <1>4, <1>6, <2>2
<1> HIDE DEF z, t
<1>9. h \in [0..Len(t) -> Nat]
  <2>1. ASSUME NEW i \in 0..(Len(s) - 1)
        PROVE  (IF i < p THEN g[i] ELSE g[i + 1] - z) \in Nat
    <3>1. i \in 0..Len(s) /\ (~(i < p) => i + 1 \in p..Len(s))
      BY <1>2
    <3>2. QED
      BY <1>5, <1>8, <3>1
  <2>2. QED
    BY <1>3, <2>1
<1>10. ASSUME NEW i \in 0..Len(t) PROVE h[i] = IF i = 0 THEN 0 ELSE h[i - 1] + t[i].size
  <2>1. CASE i = 0
    BY <1>1, <1>2, <1>3, <2>1 DEF Adds
  <2>2. CASE i # 0 /\ i < p
    <3>1. h[i] = g[i] /\ h[i - 1] = g[i - 1] /\ t[i] = s[i] /\ i \in 0..Len(s)
      BY <1>2, <1>3, <2>2
    <3>2. g[i] = g[i - 1] + s[i].size
      BY <1>1, <2>2, <3>1 DEF Adds
    <3>3. QED
      BY <2>2, <3>1, <3>2
  <2>3. CASE i = p
    <3>1. h[i] = g[p + 1] - z /\ h[i - 1] = g[p - 1] /\ t[i] = s[p + 1] /\ p + 1 \in 1..Len(s)
      BY <1>2, <1>3, <2>3
    <3>2. g[p + 1] = g[p] + s[p + 1].size
      BY <1>1, <1>2, <3>1 DEF Adds
    <3>3. g[p - 1] \in Nat /\ s[p + 1].size \in Nat
      BY <1>4, <1>5, <1>6, <3>1
    <3>4. QED
      BY <1>2, <1>4, <1>6, <2>3, <3>1, <3>2, <3>3
  <2>4. CASE i > p
    <3>1. h[i] = g[i + 1] - z /\ h[i - 1] = g[i] - z /\ t[i] = s[i + 1] /\ i + 1 \in 1..Len(s)
      BY <1>2, <1>3, <2>4
    <3>2. g[i + 1] = g[i] + s[i + 1].size
      BY <1>1, <3>1 DEF Adds
    <3>3. i \in 0..Len(s) /\ i # 0 /\ g[i] \in Nat /\ s[i + 1].size \in Nat
      BY <1>2, <1>3, <1>4, <1>5, <2>4, <3>1
    <3>4. QED
      BY <1>4, <3>1, <3>2, <3>3
  <2>5. QED
    BY <1>2, <2>1, <2>2, <2>3, <2>4
<1>11. h[Len(t)] = n - z /\ z <= n /\ n \in Nat
  <2>1. Len(s) \in p..Len(s)
    BY <1>2
  <2>2. z <= n /\ n \in Nat
    BY <1>1, <1>2, <1>4, <1>5, <1>8, <2>1
  <2>3. CASE p = Len(s)
    BY <1>1, <1>2, <1>3, <1>4, <1>5, <1>6, <2>2, <2>3
  <2>4. CASE p # Len(s)
    BY <1>1, <1>2, <1>3, <2>2, <2>4
  <2>5. QED
    BY <2>2, <2>3, <2>4
<1> HIDE DEF h
<1>12. Adds(t, h)
  BY <1>9, <1>10 DEF Adds
<1>13. QED
  BY <1>11, <1>12 DEF Totals, t, z

LEMMA TailIsRemove ==
  ASSUME NEW s \in Seq(Message), s # <<>>
  PROVE  1 \in DOMAIN s /\ Head(s) = s[1] /\ Tail(s) = RemoveIndex(s, 1)
<1>1. SubSeq(s, 1, 0) = <<>> /\ SubSeq(s, 2, Len(s)) = Tail(s) /\ Tail(s) \in Seq(Message)
  OBVIOUS
<1>2. 1 \in DOMAIN s /\ Head(s) = s[1]
  OBVIOUS
<1>3. RemoveIndex(s, 1) = <<>> \o Tail(s)
  BY <1>1 DEF RemoveIndex
<1>4. QED
  BY <1>1, <1>2, <1>3

\* Putting one at the front adds its size: what is taken out again was added.
LEMMA TotalFront ==
  ASSUME NEW s \in Seq(Message), NEW m \in Message, NEW n, Totals(s, n)
  PROVE  Totals(<<m>> \o s, n + m.size)
<1> DEFINE t == <<m>> \o s
<1>1. PICK g : Adds(s, g) /\ g[Len(s)] = n
  BY DEF Totals
<1> DEFINE h == [i \in 0..(Len(s) + 1) |-> IF i = 0 THEN 0 ELSE m.size + g[i - 1]]
<1>2. /\ t \in Seq(Message) /\ Len(t) = Len(s) + 1 /\ Len(s) \in Nat
      /\ t[1] = m /\ \A i \in 2..(Len(s) + 1) : t[i] = s[i - 1]
  OBVIOUS
<1>3. m.size \in Nat /\ n \in Nat /\ \A i \in 0..Len(s) : g[i] \in Nat
  BY <1>1, <1>2, MessageType DEF Adds
<1>4. h \in [0..Len(t) -> Nat]
  BY <1>2, <1>3
<1> HIDE DEF t
<1>5. ASSUME NEW i \in 0..Len(t) PROVE h[i] = IF i = 0 THEN 0 ELSE h[i - 1] + t[i].size
  <2>1. CASE i = 0
    BY <1>2, <2>1
  <2>2. CASE i = 1
    <3>1. g[0] = 0
      BY <1>1, <1>2 DEF Adds
    <3>2. QED
      BY <1>2, <1>3, <2>2, <3>1
  <2>3. CASE i > 1
    <3>1. i - 1 \in 1..Len(s) /\ i \in 2..(Len(s) + 1) /\ s[i - 1].size \in Nat
      BY <1>2, <2>3, EntryType
    <3>2. h[i] = m.size + g[i - 1] /\ h[i - 1] = m.size + g[i - 2] /\ t[i] = s[i - 1]
      BY <1>2, <3>1
    <3>3. g[i - 1] = g[i - 2] + s[i - 1].size /\ i - 2 \in 0..Len(s)
      BY <1>1, <1>2, <3>1 DEF Adds
    <3>4. g[i - 2] \in Nat /\ i # 0
      BY <1>3, <2>3, <3>3
    <3>5. QED
      BY <1>3, <3>1, <3>2, <3>3, <3>4
  <2>4. QED
    BY <1>2, <2>1, <2>2, <2>3
<1>6. h[Len(t)] = n + m.size
  BY <1>1, <1>2, <1>3
<1> HIDE DEF h
<1>7. Adds(t, h)
  BY <1>4, <1>5 DEF Adds
<1>8. QED
  BY <1>6, <1>7 DEF Totals, t
----------------------------------------------------------------------------
(* What a step does to the buffer: nothing, one entry out, a message past    *)
(* it, a message parked at its front, the parked one out, one at its back.   *)

Settled(f) == f.at \notin {"push", "puback"}

KeepStep ==
  /\ UNCHANGED <<pending_messages, pending_bytes, handed, received>>
  /\ torn => torn'
  /\ \/ /\ Settled(fut) /\ Settled(fut')
        /\ fut'.call = "poll" => fut.call = "poll" \/ pending_messages = <<>>
     \/ fut.at = "puback" /\ torn' /\ fut' = Idle
     \/ UNCHANGED <<fut, hold, torn>>

RemoveStep(i) ==
  /\ i \in DOMAIN pending_messages /\ fut.at # "puback"
  /\ pending_messages' = RemoveIndex(pending_messages, i)
  /\ pending_bytes' = Debit(pending_messages[i].size)
  /\ handed' = handed \/ (i = 1 /\ handed' = Append(handed, pending_messages[1].id))
  /\ UNCHANGED <<fut, hold, received, torn>>

ArriveStep ==
  /\ Settled(fut) /\ fut'.at # "puback" /\ fut'.call # "poll"
  /\ UNCHANGED <<pending_messages, pending_bytes, torn>>
  /\ received' = received + 1
  /\ handed' = handed \/ (fut.call = "poll" /\ handed' = Append(handed, received + 1))
  /\ fut'.at = "push" => hold'.id = received + 1

ParkStep(m) ==
  /\ m \in Message /\ m.id = received + 1
  /\ Settled(fut) /\ fut'.at = "puback" /\ fut'.call = fut.call
  /\ ~WriteRefused
  /\ pending_messages' = <<m>> \o pending_messages
  /\ pending_bytes' = pending_bytes + m.size
  /\ received' = received + 1
  /\ UNCHANGED <<handed, torn>>

UnparkStep ==
  /\ fut.at = "puback" /\ fut'.at # "puback" /\ fut'.call # "poll"
  /\ pending_messages' = Tail(pending_messages)
  /\ pending_bytes' = Debit(Head(pending_messages).size)
  /\ \/ handed' = handed
     \/ fut.call = "poll" /\ handed' = Append(handed, Head(pending_messages).id)
  /\ fut'.at = "push" => hold' = Head(pending_messages)
  /\ UNCHANGED received

PushStep ==
  /\ fut.at = "push" /\ Fits(hold.size)
  /\ Settled(fut') /\ fut'.call \in {"none", fut.call}
  /\ pending_messages' = Append(pending_messages, hold)
  /\ pending_bytes' = pending_bytes + hold.size
  /\ UNCHANGED <<handed, received, torn>>

BufferStep ==
  \/ KeepStep
  \/ \E i \in DOMAIN pending_messages : RemoveStep(i)
  \/ ArriveStep
  \/ \E m \in Message : ParkStep(m)
  \/ UnparkStep
  \/ PushStep

LEMMA DeliverHands ==
  ASSUME TypeOK, NEW m, Deliver(m)
  PROVE  /\ handed' = handed \/ (fut.call = "poll" /\ handed' = Append(handed, m.id))
         /\ fut'.at # "puback" /\ fut'.call # "poll"
         /\ fut'.at = "push" => hold' = m
<1> USE DEF TypeOK
<1>1. Idle.call = "none"
  BY DEF Idle
<1>2. QED
  BY <1>1, IdleType, GotoType DEF Deliver

\* Every action is one of the six.
LEMMA StepBuffer ==
  ASSUME TypeOK, [Next]_vars
  PROVE  BufferStep
<1> USE IdleType
<1> USE DEF TypeOK, Settled, session, buffer, fates, broker, writer
<1>i. Idle.call = "none"
  BY DEF Idle
<1>k. KeepStep => BufferStep
  BY DEF BufferStep
<1>1. ASSUME NEW e \in EchoOrNone, Publish(e) PROVE BufferStep
  <2>1. torn' = torn /\ UNCHANGED <<pending_messages, pending_bytes, handed, received>> /\ fut = Idle
    BY <1>1 DEF Publish, BeginWrite, RefuseWrite
  <2>2. fut' = fut \/ (fut'.at = "publish" /\ fut'.call = "publish")
    BY <1>1 DEF Publish
  <2>3. QED
    BY <1>i, <1>k, <2>1, <2>2 DEF KeepStep
<1>2. CASE PublishWritten
  <2>1. UNCHANGED <<pending_messages, pending_bytes, handed, received>>
        /\ fut.at = "publish" /\ fut' = Idle
    BY <1>2 DEF PublishWritten
  <2>2. torn => torn'
    BY <1>2, Zenon DEF PublishWritten, EndWrite
  <2>3. QED
    BY <1>i, <1>k, <2>1, <2>2 DEF KeepStep
<1>3. CASE Ping
  <2>1. torn' = torn /\ UNCHANGED <<pending_messages, pending_bytes, handed, received>> /\ fut = Idle
    BY <1>3 DEF Ping, BeginWrite, RefuseWrite
  <2>2. fut' = fut \/ (fut'.at = "ping" /\ fut'.call = "ping")
    BY <1>3 DEF Ping, Running
  <2>3. QED
    BY <1>i, <1>k, <2>1, <2>2 DEF KeepStep
<1>4. CASE PingWritten
  <2>1. UNCHANGED <<pending_messages, pending_bytes, handed, received>> /\ fut.at = "ping"
    BY <1>4 DEF PingWritten
  <2>2. fut' = Idle \/ (fut'.at = "read" /\ fut'.call = fut.call)
    BY <1>4, GotoType DEF PingWritten, Awaiting
  <2>3. torn => torn'
    BY <1>4, Zenon DEF PingWritten, EndWrite
  <2>4. QED
    BY <1>i, <1>k, <2>1, <2>2, <2>3 DEF KeepStep
<1>5. CASE WriteFailed
  <2>1. UNCHANGED <<pending_messages, pending_bytes, handed, received>>
        /\ fut.at \in {"publish", "ping"} /\ fut' = Idle
    BY <1>5 DEF WriteFailed
  <2>2. torn => torn'
    BY <1>5, Zenon DEF WriteFailed, EndWrite
  <2>3. QED
    BY <1>i, <1>k, <2>1, <2>2 DEF KeepStep
<1>6. CASE Poll
  <2>1. CASE pending_messages # <<>>
    <3>1. 1 \in DOMAIN pending_messages /\ Head(pending_messages) = pending_messages[1]
          /\ Tail(pending_messages) = RemoveIndex(pending_messages, 1)
      BY <2>1, TailIsRemove
    <3>2. RemoveStep(1)
      BY <1>6, <2>1, <3>1 DEF Poll, RemoveStep
    <3>3. QED
      BY <3>1, <3>2 DEF BufferStep
  <2>2. CASE pending_messages = <<>>
    <3>1. KeepStep
      BY <1>6, <2>2 DEF Poll, Running, KeepStep
    <3>2. QED
      BY <1>k, <3>1
  <2>3. QED
    BY <2>1, <2>2
<1>7. ASSUME NEW e \in Echoes, PollUntil(e) PROVE BufferStep
  <2>1. ASSUME NEW i \in MatchingIndices(e),
               pending_messages' = RemoveIndex(pending_messages, i),
               pending_bytes' = Debit(pending_messages[i].size),
               UNCHANGED fut
        PROVE  BufferStep
    <3>1. i \in DOMAIN pending_messages
      BY DEF MatchingIndices
    <3>2. RemoveStep(i)
      BY <1>7, <2>1, <3>1 DEF PollUntil, RemoveStep
    <3>3. QED
      BY <3>1, <3>2 DEF BufferStep
  <2>2. CASE fut' = Running("loop", "until", e) /\ UNCHANGED <<matched, buffer>>
    BY <1>7, <1>k, <2>2 DEF PollUntil, Running, KeepStep
  <2>3. QED
    BY <1>7, <2>1, <2>2 DEF PollUntil
<1>8. CASE KeepaliveIfDue
  <2>1. torn' = torn /\ UNCHANGED <<pending_messages, pending_bytes, handed, received>>
        /\ fut.at = "loop"
    BY <1>8 DEF KeepaliveIfDue, BeginWrite, RefuseWrite
  <2>2. fut' = Idle \/ (fut'.at \in {"read", "ping"} /\ fut'.call = fut.call)
    BY <1>8, GotoType DEF KeepaliveIfDue, Awaiting, Writing
  <2>3. QED
    BY <1>i, <1>k, <2>1, <2>2 DEF KeepStep
<1>9. ASSUME NEW q \in 0..2, NEW z \in Sizes, NEW e \in sent \cup {NoEcho}, ReadPublish(q, z, e)
      PROVE  BufferStep
  <2> DEFINE m == [id |-> received + 1, size |-> z, echo |-> e]
  <2>1. m \in Message /\ m.id = received + 1 /\ m.size = z
    BY DEF Message, EchoOrNone
  <2>2. fut.at = "read" /\ received' = received + 1
    BY <1>9 DEF ReadPublish
  <2>3. CASE Deliver(m) /\ UNCHANGED buffer /\ (RefuseWrite \/ UNCHANGED writer)
    <3>1. torn' = torn
      BY <2>3 DEF RefuseWrite
    <3>2. ArriveStep
      BY <2>1, <2>2, <2>3, <3>1, DeliverHands DEF ArriveStep
    <3>3. QED
      BY <3>2 DEF BufferStep
  <2>4. CASE /\ BeginWrite
             /\ pending_messages' = <<m>> \o pending_messages
             /\ pending_bytes' = pending_bytes + z
             /\ fut' = Goto("puback")
             /\ UNCHANGED <<handed, matched, hold>>
    <3>1. ParkStep(m)
      BY <2>1, <2>2, <2>4, GotoType DEF ParkStep, BeginWrite, Awaiting, Writing
    <3> HIDE DEF m
    <3>2. QED
      BY <2>1, <3>1 DEF BufferStep
  <2>5. QED
    BY <1>9, <2>3, <2>4 DEF ReadPublish
<1>10. ASSUME NEW ok \in BOOLEAN, PubackWritten(ok) PROVE BufferStep
  <2> DEFINE h == Head(pending_messages)
  <2>1. Deliver(h) /\ fut.at = "puback" /\ pending_messages' = Tail(pending_messages)
        /\ pending_bytes' = Debit(h.size) /\ UNCHANGED received
    BY <1>10 DEF PubackWritten
  <2>2. UnparkStep
    BY <2>1, DeliverHands DEF UnparkStep
  <2>3. QED
    BY <2>2 DEF BufferStep
<1>11. ASSUME NEW i \in unacked, ReadPuback(i) PROVE BufferStep
  BY <1>11, <1>k, GotoType DEF ReadPuback, KeepStep
<1>12. ASSUME NEW b \in BOOLEAN, ReadOther(b) PROVE BufferStep
  BY <1>12, <1>i, <1>k, GotoType DEF ReadOther, KeepStep
<1>13. ASSUME NEW b \in BOOLEAN, ReadFailed(b) PROVE BufferStep
  BY <1>13, <1>i, <1>k DEF ReadFailed, KeepStep
<1>14. CASE EvictOldest
  <2>1. pending_messages # <<>>
    BY <1>14 DEF EvictOldest, Fits
  <2>2. 1 \in DOMAIN pending_messages /\ Head(pending_messages) = pending_messages[1]
        /\ Tail(pending_messages) = RemoveIndex(pending_messages, 1)
    BY <2>1, TailIsRemove
  <2>3. RemoveStep(1)
    BY <1>14, <2>2 DEF EvictOldest, RemoveStep
  <2>4. QED
    BY <2>2, <2>3 DEF BufferStep
<1>15. CASE PushPending
  <2>1. fut' = Idle \/ (fut'.at = "loop" /\ fut'.call = fut.call)
    BY <1>15, GotoType DEF PushPending
  <2>2. PushStep
    BY <1>15, <1>i, <2>1 DEF PushPending, PushStep
  <2>3. QED
    BY <2>2 DEF BufferStep
<1>16. ASSUME NEW n \in Elapsed, Tick(n) PROVE BufferStep
  BY <1>16, <1>k DEF Tick, KeepStep
<1>17. CASE Cancel
  <2>1. UNCHANGED <<pending_messages, pending_bytes, handed, received>>
        /\ fut.at \in Awaiting /\ fut' = Idle
    BY <1>17 DEF Cancel
  <2>2. torn => torn'
    BY <1>17, Zenon DEF Cancel
  <2>3. fut.at = "puback" => torn'
    BY <1>17 DEF Cancel, Writing
  <2>4. QED
    BY <1>i, <1>k, <2>1, <2>2, <2>3 DEF KeepStep, Awaiting, Writing
<1>18. CASE UNCHANGED vars
  BY <1>18, <1>k DEF vars, KeepStep
<1>19. QED
  BY <1>1, <1>2, <1>3, <1>4, <1>5, <1>6, <1>7, <1>8, <1>9, <1>10, <1>11, <1>12,
     <1>13, <1>14, <1>15, <1>16, <1>17, <1>18 DEF Next
----------------------------------------------------------------------------
(* The byte count is the total                                               *)

Accounted == Totals(pending_messages, pending_bytes)

LEMMA InitAccounted == Init => Accounted
BY TotalNone DEF Init, Accounted

\* Taking out what was counted never saturates.
LEMMA DebitExact ==
  ASSUME TypeOK, Accounted, NEW i \in DOMAIN pending_messages
  PROVE  /\ Debit(pending_messages[i].size) = pending_bytes - pending_messages[i].size
         /\ pending_bytes - pending_messages[i].size \in Nat
         /\ pending_messages[i].size \in Nat
         /\ Totals(RemoveIndex(pending_messages, i), Debit(pending_messages[i].size))
<1>1. pending_messages \in Seq(Message) /\ pending_bytes \in Nat
  BY DEF TypeOK
<1>2. /\ pending_messages[i].size <= pending_bytes
      /\ Totals(RemoveIndex(pending_messages, i), pending_bytes - pending_messages[i].size)
  BY <1>1, TotalRemove DEF Accounted
<1>3. pending_messages[i].size \in Nat
  BY <1>1, EntryType
<1>4. Debit(pending_messages[i].size) = pending_bytes - pending_messages[i].size
  BY <1>1, <1>2, <1>3 DEF Debit
<1>5. QED
  BY <1>1, <1>2, <1>3, <1>4

LEMMA StepAccounted ==
  ASSUME TypeOK, Accounted, BufferStep
  PROVE  Accounted'
<1> DEFINE s == pending_messages
<1>1. s \in Seq(Message)
  BY DEF TypeOK
<1>2. CASE KeepStep \/ ArriveStep
  BY <1>2 DEF KeepStep, ArriveStep, Accounted
<1>3. ASSUME NEW i \in DOMAIN s, RemoveStep(i) PROVE Accounted'
  BY <1>3, DebitExact DEF RemoveStep, Accounted
<1>4. ASSUME NEW m \in Message, ParkStep(m) PROVE Accounted'
  BY <1>1, <1>4, TotalFront DEF ParkStep, Accounted
<1>5. CASE UnparkStep
  <2>1. 1 \in DOMAIN s /\ Head(s) = s[1] /\ Tail(s) = RemoveIndex(s, 1)
    BY <1>1, <1>5, TailIsRemove DEF TypeOK, UnparkStep
  <2>2. QED
    BY <1>5, <2>1, DebitExact DEF UnparkStep, Accounted
<1>6. CASE PushStep
  BY <1>1, <1>6, TotalAppend DEF PushStep, Accounted, TypeOK
<1>7. QED
  BY <1>2, <1>3, <1>4, <1>5, <1>6 DEF BufferStep

----------------------------------------------------------------------------
(* One parked message overtakes, and it alone is over the cap.  While a      *)
(* PUBACK is being written the parked message is the head of the buffer.     *)
(* If that future is dropped it stays there, and since no later write is     *)
(* started on the torn stream it is the last one ever parked.                *)

\* Ids only go up, in what was handed out and then in the buffer, but for x.
InOrder(h, s, x) ==
  /\ \A i, j \in DOMAIN h : i < j => h[i] < h[j] \/ h[i] = x
  /\ \A i, j \in DOMAIN s : i < j => s[i].id < s[j].id \/ s[i].id = x
  /\ \A i \in DOMAIN h, j \in DOMAIN s : h[i] < s[j].id \/ h[i] = x

Parked(p) ==
  /\ fut.at = "puback" => p = Head(pending_messages)
  /\ fut.at # "puback" /\ ~torn => p = NoMessage
  /\ pending_bytes <= Cap + p.size
  /\ InOrder(handed, pending_messages, p.id)

\* poll_telemetry reads with an empty buffer; what is parked or about to be
\* stashed is the message read last.
CallInv ==
  /\ fut.at = "puback" => Head(pending_messages).id = received
  /\ fut.call = "poll" /\ fut.at # "puback" => pending_messages = <<>>
  /\ fut.call = "poll" /\ fut.at = "puback" => Tail(pending_messages) = <<>>
  /\ fut.at = "push" => fut.call # "poll" /\ hold.id = received

SomeParked == \E p \in Message \cup {NoMessage} : Parked(p)
BufferInv == CallInv /\ SomeParked

LEMMA ParkedType ==
  ASSUME NEW p \in Message \cup {NoMessage}
  PROVE  p.id \in Nat /\ p.size \in Nat
BY MessageType DEF NoMessage

LEMMA InitBufferInv == Init => BufferInv
<1> SUFFICES ASSUME Init PROVE BufferInv
  OBVIOUS
<1>1. fut = Idle /\ Idle.at = "idle" /\ Idle.call = "none" /\ ~torn
  BY IdleType DEF Init, Idle
<1>2. pending_messages = <<>> /\ handed = <<>> /\ pending_bytes = 0
  BY DEF Init
<1>3. CallInv
  BY <1>1 DEF CallInv
<1>4. InOrder(<<>>, <<>>, 0)
  BY DEF InOrder
<1>5. NoMessage.id = 0 /\ NoMessage.size = 0
  BY DEF NoMessage
<1>6. Parked(NoMessage)
  BY <1>1, <1>2, <1>4, <1>5, LimitAssumption DEF Parked
<1>7. QED
  BY <1>3, <1>6 DEF BufferInv, SomeParked

LEMMA StepCall ==
  ASSUME TypeOK, CallInv, BufferStep
  PROVE  CallInv'
<1> DEFINE s == pending_messages
<1>1. s \in Seq(Message) /\ received \in Nat
  BY DEF TypeOK
<1>i. Idle.at = "idle" /\ Idle.call = "none"
  BY DEF Idle
<1>2. CASE KeepStep
  BY <1>2, <1>i DEF KeepStep, CallInv, Settled
<1>3. ASSUME NEW i \in DOMAIN s, RemoveStep(i) PROVE CallInv'
  <2>1. s # <<>>
    BY <1>1
  <2>2. fut.call # "poll" /\ fut.at # "puback"
    BY <1>3, <2>1 DEF CallInv, RemoveStep
  <2>3. UNCHANGED <<fut, hold, received>>
    BY <1>3 DEF RemoveStep
  <2>4. QED
    BY <2>2, <2>3 DEF CallInv
<1>4. CASE ArriveStep
  BY <1>4 DEF ArriveStep, CallInv
<1>5. ASSUME NEW m \in Message, ParkStep(m) PROVE CallInv'
  <2>1. fut.at # "puback" /\ fut'.at = "puback" /\ fut'.call = fut.call
    BY <1>5 DEF ParkStep, Settled
  <2>h. Head(pending_messages').id = received'
    BY <1>1, <1>5 DEF ParkStep
  <2>2. CASE fut.call # "poll"
    BY <2>1, <2>2, <2>h DEF CallInv
  <2>3. CASE fut.call = "poll"
    <3>1. pending_messages = <<>>
      BY <2>1, <2>3 DEF CallInv
    <3>2. Tail(<<m>> \o <<>>) = <<>>
      OBVIOUS
    <3>3. Tail(pending_messages') = <<>>
      BY <1>5, <3>1, <3>2 DEF ParkStep
    <3>4. QED
      BY <2>1, <2>h, <3>3 DEF CallInv
  <2>4. QED
    BY <2>2, <2>3
<1>6. CASE UnparkStep
  <2>1. fut'.at = "push" => hold'.id = received
    BY <1>6 DEF UnparkStep, CallInv
  <2>2. QED
    BY <1>6, <2>1 DEF UnparkStep, CallInv
<1>7. CASE PushStep
  BY <1>7 DEF PushStep, CallInv, Settled
<1>8. QED
  BY <1>2, <1>3, <1>4, <1>5, <1>6, <1>7 DEF BufferStep
----------------------------------------------------------------------------
(* Order through the six kinds of step                                       *)

LEMMA OrderRemove ==
  ASSUME NEW h \in Seq(Nat), NEW s \in Seq(Message), NEW i \in DOMAIN s, NEW x, InOrder(h, s, x)
  PROVE  InOrder(h, RemoveIndex(s, i), x)
<1> DEFINE t == RemoveIndex(s, i)
           Old(j) == IF j < i THEN j ELSE j + 1
<1>1. /\ DOMAIN t = 1..(Len(s) - 1) /\ i \in 1..Len(s) /\ Len(s) \in Nat /\ DOMAIN s = 1..Len(s)
      /\ \A j \in 1..(Len(s) - 1) : t[j] = s[Old(j)]
  BY RemoveEntries
<1>2. \A j, k \in DOMAIN t : Old(j) \in DOMAIN s /\ (j < k => Old(j) < Old(k))
  BY <1>1
<1>3. \A j \in DOMAIN t : t[j] = s[Old(j)]
  BY <1>1
<1> HIDE DEF t, Old
<1>4. QED
  BY <1>2, <1>3 DEF InOrder, t

\* The head of the buffer handed out is in order there as it was here.
LEMMA OrderHand ==
  ASSUME NEW h \in Seq(Nat), NEW s \in Seq(Message), 1 \in DOMAIN s, NEW x, InOrder(h, s, x)
  PROVE  InOrder(Append(h, s[1].id), RemoveIndex(s, 1), x)
<1> DEFINE t == RemoveIndex(s, 1)
           g == Append(h, s[1].id)
<1>1. /\ DOMAIN t = 1..(Len(s) - 1) /\ Len(s) \in Nat /\ DOMAIN s = 1..Len(s)
      /\ \A j \in 1..(Len(s) - 1) : t[j] = s[j + 1]
  BY RemoveEntries
<1>2. s[1].id \in Nat
  BY <1>1, EntryType
<1>3. /\ DOMAIN g = DOMAIN h \cup {Len(h) + 1} /\ g[Len(h) + 1] = s[1].id
      /\ DOMAIN h = 1..Len(h) /\ Len(h) \in Nat
      /\ \A i \in DOMAIN h : g[i] = h[i]
  BY <1>2, AppendProperties, LenProperties
<1>4. InOrder(h, t, x)
  BY OrderRemove
<1>5. \A j \in DOMAIN t : s[1].id < t[j].id \/ s[1].id = x
  <2> SUFFICES ASSUME NEW j \in DOMAIN t PROVE s[1].id < t[j].id \/ s[1].id = x
    OBVIOUS
  <2>1. j + 1 \in DOMAIN s /\ 1 < j + 1 /\ t[j] = s[j + 1]
    BY <1>1
  <2>2. QED
    BY <2>1 DEF InOrder
<1>6. \A i \in DOMAIN h : h[i] < s[1].id \/ h[i] = x
  BY DEF InOrder
<1> HIDE DEF g, t
<1>7. \A i, j \in DOMAIN g : i < j => g[i] < g[j] \/ g[i] = x
  <2> SUFFICES ASSUME NEW i \in DOMAIN g, NEW j \in DOMAIN g, i < j
               PROVE  g[i] < g[j] \/ g[i] = x
    OBVIOUS
  <2>1. i \in DOMAIN h
    BY <1>3
  <2>2. CASE j \in DOMAIN h
    BY <1>3, <2>1, <2>2 DEF InOrder
  <2>3. CASE j = Len(h) + 1
    BY <1>3, <1>6, <2>1, <2>3
  <2>4. QED
    BY <1>3, <2>2, <2>3
<1>8. \A i \in DOMAIN g, j \in DOMAIN t : g[i] < t[j].id \/ g[i] = x
  BY <1>3, <1>4, <1>5 DEF InOrder
<1>9. InOrder(g, t, x)
  BY <1>4, <1>7, <1>8 DEF InOrder
<1>10. QED
  BY <1>9 DEF g, t

\* So is a new message handed out past an empty buffer.
LEMMA OrderPast ==
  ASSUME NEW h \in Seq(Nat), NEW n \in Nat, NEW x, InOrder(h, <<>>, x),
         \A i \in DOMAIN h : h[i] < n
  PROVE  InOrder(Append(h, n), <<>>, x)
<1> DEFINE g == Append(h, n)
<1>1. /\ DOMAIN g = DOMAIN h \cup {Len(h) + 1} /\ g[Len(h) + 1] = n
      /\ DOMAIN h = 1..Len(h) /\ Len(h) \in Nat
      /\ \A i \in DOMAIN h : g[i] = h[i]
  BY AppendProperties, LenProperties
<1>2. DOMAIN <<>> = {}
  OBVIOUS
<1> HIDE DEF g
<1>3. \A i, j \in DOMAIN g : i < j => g[i] < g[j] \/ g[i] = x
  <2> SUFFICES ASSUME NEW i \in DOMAIN g, NEW j \in DOMAIN g, i < j
               PROVE  g[i] < g[j] \/ g[i] = x
    OBVIOUS
  <2>1. i \in DOMAIN h
    BY <1>1
  <2>2. CASE j \in DOMAIN h
    BY <1>1, <2>1, <2>2 DEF InOrder
  <2>3. CASE j = Len(h) + 1
    BY <1>1, <2>1, <2>3
  <2>4. QED
    BY <1>1, <2>2, <2>3
<1>4. InOrder(g, <<>>, x)
  BY <1>2, <1>3 DEF InOrder
<1>5. QED
  BY <1>4 DEF g

\* One new message put at the front is the one exception.
LEMMA OrderFront ==
  ASSUME NEW h \in Seq(Nat), NEW s \in Seq(Message), NEW m \in Message, InOrder(h, s, 0),
         \A i \in DOMAIN h : h[i] # 0 /\ h[i] < m.id
  PROVE  InOrder(h, <<m>> \o s, m.id)
<1> DEFINE t == <<m>> \o s
<1>1. t \in Seq(Message) /\ t # <<>> /\ Head(t) = m /\ Tail(t) = s
  OBVIOUS
<1> HIDE DEF t
<1>2. /\ 1 \in DOMAIN t /\ t[1] = m /\ DOMAIN t = 1..Len(t) /\ Len(t) \in Nat
      /\ \A i \in DOMAIN t : i = 1 \/ (i - 1 \in DOMAIN s /\ t[i] = s[i - 1] /\ i \in Int)
  BY <1>1, HeadTailProperties, LenProperties
<1>3. \A i \in DOMAIN s : s[i].id # 0
  BY EntryType
<1>4. \A i, j \in DOMAIN t : i < j => t[i].id < t[j].id \/ t[i].id = m.id
  <2> SUFFICES ASSUME NEW i \in DOMAIN t, NEW j \in DOMAIN t, i < j, i # 1
               PROVE  t[i].id < t[j].id
    BY <1>2
  <2>1. /\ i - 1 \in DOMAIN s /\ j - 1 \in DOMAIN s /\ i - 1 < j - 1
        /\ t[i] = s[i - 1] /\ t[j] = s[j - 1]
    BY <1>2
  <2>2. QED
    BY <1>3, <2>1 DEF InOrder
<1>5. \A i \in DOMAIN h, j \in DOMAIN t : h[i] < t[j].id
  BY <1>2 DEF InOrder
<1>6. \A i, j \in DOMAIN h : i < j => h[i] < h[j]
  BY DEF InOrder
<1>7. InOrder(h, t, m.id)
  BY <1>4, <1>5, <1>6 DEF InOrder
<1>8. QED
  BY <1>7 DEF t

\* One put at the back that is newer than all is in order.
LEMMA OrderBack ==
  ASSUME NEW h \in Seq(Nat), NEW s \in Seq(Message), NEW m \in Message, NEW x, InOrder(h, s, x),
         \A i \in DOMAIN h : h[i] < m.id,
         \A i \in DOMAIN s : s[i].id < m.id
  PROVE  InOrder(h, Append(s, m), x)
<1> DEFINE t == Append(s, m)
<1>1. /\ DOMAIN t = DOMAIN s \cup {Len(s) + 1} /\ t[Len(s) + 1] = m
      /\ DOMAIN s = 1..Len(s) /\ Len(s) \in Nat
      /\ \A i \in DOMAIN s : t[i] = s[i]
  BY AppendProperties, LenProperties
<1> HIDE DEF t
<1>2. \A i, j \in DOMAIN t : i < j => t[i].id < t[j].id \/ t[i].id = x
  <2> SUFFICES ASSUME NEW i \in DOMAIN t, NEW j \in DOMAIN t, i < j
               PROVE  t[i].id < t[j].id \/ t[i].id = x
    OBVIOUS
  <2>1. i \in DOMAIN s
    BY <1>1
  <2>2. CASE j \in DOMAIN s
    BY <1>1, <2>1, <2>2 DEF InOrder
  <2>3. CASE j = Len(s) + 1
    BY <1>1, <2>1, <2>3
  <2>4. QED
    BY <1>1, <2>2, <2>3
<1>3. \A i \in DOMAIN h, j \in DOMAIN t : h[i] < t[j].id \/ h[i] = x
  BY <1>1 DEF InOrder
<1>4. InOrder(h, t, x)
  BY <1>2, <1>3 DEF InOrder
<1>5. QED
  BY <1>4 DEF t

\* An exception that is in neither is none.
LEMMA OrderSettled ==
  ASSUME NEW h, NEW s, NEW x, InOrder(h, s, x),
         \A i \in DOMAIN h : h[i] # x,
         \A i \in DOMAIN s : s[i].id # x
  PROVE  InOrder(h, s, 0)
BY DEF InOrder

\* Numbers, and who has which, from the conservation of messages.
LEMMA PlacesKnown ==
  ASSUME TypeOK, NoMessageLost, NoMessageTwice
  PROVE  /\ \A i \in DOMAIN handed : handed[i] \in 1..received
         /\ \A i \in DOMAIN pending_messages : pending_messages[i].id \in 1..received
         /\ \A i \in DOMAIN handed, j \in DOMAIN pending_messages :
              handed[i] # pending_messages[j].id
         /\ fut.at = "push" =>
              /\ \A i \in DOMAIN handed : handed[i] # hold.id
              /\ \A i \in DOMAIN pending_messages : pending_messages[i].id # hold.id
<1>1. \A i \in DOMAIN handed : handed[i] \in Ids(handed)
  BY Zenon DEF Ids
<1>2. \A i \in DOMAIN pending_messages : pending_messages[i].id \in PendingIds
  BY Zenon DEF PendingIds
<1>3. fut.at = "push" => hold.id \in HeldIds
  BY DEF HeldIds
<1>4. Ids(handed) \subseteq 1..received /\ PendingIds \subseteq 1..received
  BY DEF NoMessageLost
<1>5. PendingIds \cap HeldIds = {} /\ (PendingIds \cup HeldIds) \cap Ids(handed) = {}
  BY DEF NoMessageTwice
<1>6. QED
  BY <1>1, <1>2, <1>3, <1>4, <1>5
LEMMA StepParked ==
  ASSUME TypeOK, NoMessageLost, NoMessageTwice, TornStreamIsKnown, Accounted,
         CallInv, SomeParked, BufferStep
  PROVE  SomeParked'
<1> DEFINE s == pending_messages
           h == handed
<1>1. s \in Seq(Message) /\ h \in Seq(Nat) /\ received \in Nat /\ pending_bytes \in Nat /\ Cap \in Nat
  BY LimitAssumption DEF TypeOK
<1>2. PICK p \in Message \cup {NoMessage} : Parked(p)
  BY DEF SomeParked
<1>3. p.id \in Nat /\ p.size \in Nat
  BY ParkedType
<1>n. NoMessage.id = 0 /\ NoMessage.size = 0
  BY DEF NoMessage
<1>b. pending_bytes <= Cap + p.size /\ InOrder(h, s, p.id)
  BY <1>2 DEF Parked
<1>4. /\ \A i \in DOMAIN h : h[i] \in 1..received
      /\ \A i \in DOMAIN s : s[i].id \in 1..received
  BY PlacesKnown
<1>5. CASE KeepStep
  <2>1. UNCHANGED <<pending_messages, pending_bytes, handed>>
    BY <1>5 DEF KeepStep
  <2>2. fut'.at = "puback" => fut.at = "puback"
    BY <1>5, IdleType DEF KeepStep, Settled
  <2>3. fut'.at # "puback" /\ ~torn' => fut.at # "puback" /\ ~torn
    BY <1>5 DEF KeepStep, Settled
  <2>4. Parked(p)'
    BY <1>2, <2>1, <2>2, <2>3 DEF Parked
  <2>5. QED
    BY <2>4 DEF SomeParked
<1>6. ASSUME NEW i \in DOMAIN s, RemoveStep(i) PROVE SomeParked'
  <2>1. pending_bytes' \in Nat /\ pending_bytes' <= pending_bytes
    BY <1>1, <1>6, DebitExact DEF RemoveStep
  <2>2. InOrder(h', s', p.id)
    <3>1. CASE h' = h
      BY <1>1, <1>6, <1>b, <3>1, OrderRemove DEF RemoveStep
    <3>2. CASE i = 1 /\ h' = Append(h, s[1].id)
      BY <1>1, <1>6, <1>b, <3>2, OrderHand DEF RemoveStep
    <3>3. QED
      BY <1>6, <3>1, <3>2 DEF RemoveStep
  <2>3. UNCHANGED <<fut, torn>> /\ fut.at # "puback"
    BY <1>6 DEF RemoveStep
  <2>4. pending_bytes' <= Cap + p.size
    BY <1>1, <1>3, <1>b, <2>1
  <2>5. Parked(p)'
    BY <1>2, <2>2, <2>3, <2>4 DEF Parked
  <2>6. QED
    BY <2>5 DEF SomeParked
<1>7. CASE ArriveStep
  <2>1. InOrder(h', s', p.id)
    <3>1. CASE h' = h
      BY <1>7, <1>b, <3>1 DEF ArriveStep
    <3>2. CASE fut.call = "poll" /\ h' = Append(h, received + 1)
      <4>1. s = <<>>
        BY <1>7, <3>2 DEF ArriveStep, Settled, CallInv
      <4>2. \A i \in DOMAIN h : h[i] < received + 1
        BY <1>1, <1>4
      <4>3. InOrder(h', <<>>, p.id)
        BY <1>1, <1>b, <3>2, <4>1, <4>2, OrderPast
      <4>4. QED
        BY <1>7, <4>1, <4>3 DEF ArriveStep
    <3>3. QED
      BY <1>7, <3>1, <3>2 DEF ArriveStep
  <2>2. fut.at # "puback" /\ fut'.at # "puback" /\ UNCHANGED <<torn, pending_bytes>>
    BY <1>7 DEF ArriveStep, Settled
  <2>3. Parked(p)'
    BY <1>2, <2>1, <2>2 DEF Parked
  <2>4. QED
    BY <2>3 DEF SomeParked
\* Before a message is parked none is.
<1>8. ASSUME NEW m \in Message, ParkStep(m) PROVE SomeParked'
  <2>1. ~torn /\ fut.at # "puback" /\ fut'.at = "puback"
    BY <1>8 DEF ParkStep, Settled, TornStreamIsKnown
  <2>2. p = NoMessage
    BY <1>2, <2>1 DEF Parked
  <2>3. pending_bytes <= Cap /\ InOrder(h, s, 0)
    BY <1>1, <1>b, <1>n, <2>2
  <2>4. m.size \in Nat /\ m.id = received + 1
    BY <1>8, MessageType DEF ParkStep
  <2>5. pending_bytes' <= Cap + m.size
    BY <1>1, <1>8, <2>3, <2>4 DEF ParkStep
  <2>6. \A i \in DOMAIN h : h[i] # 0 /\ h[i] < m.id
    BY <1>1, <1>4, <2>4
  <2>7. InOrder(h', s', m.id)
    BY <1>1, <1>8, <2>3, <2>6, OrderFront DEF ParkStep
  <2>8. m = Head(s')
    BY <1>1, <1>8 DEF ParkStep
  <2>9. Parked(m)'
    BY <2>1, <2>5, <2>7, <2>8 DEF Parked
  <2>10. QED
    BY <2>9 DEF SomeParked
\* When it is taken out again none is.
<1>9. CASE UnparkStep
  <2>1. 1 \in DOMAIN s /\ Head(s) = s[1] /\ Tail(s) = RemoveIndex(s, 1)
    BY <1>1, <1>9, TailIsRemove DEF TypeOK, UnparkStep
  <2>2. p = s[1] /\ s[1].id = received
    BY <1>2, <1>9, <2>1 DEF UnparkStep, Parked, CallInv
  <2>3. pending_bytes' \in Nat /\ pending_bytes' = pending_bytes - p.size
    BY <1>9, <2>1, <2>2, DebitExact DEF UnparkStep
  <2>4. pending_bytes' <= Cap
    BY <1>1, <1>3, <1>b, <2>3
  <2>5. s' = RemoveIndex(s, 1)
    BY <1>9, <2>1 DEF UnparkStep
  <2>6. \A i \in DOMAIN h : h[i] # p.id
    BY <2>1, <2>2, PlacesKnown
  <2>7. \A i \in DOMAIN s' : s'[i].id # p.id
    <3>1. Distinct(s)
      BY DEF NoMessageTwice, Distinct
    <3>2. p.id \notin MessageIds(s')
      BY <1>1, <2>1, <2>2, <2>5, <3>1, RemoveDistinct
    <3>3. QED
      BY <3>2, Zenon DEF MessageIds
  <2>8. InOrder(h, s', 0)
    BY <1>1, <1>b, <2>1, <2>5, <2>6, <2>7, OrderRemove, OrderSettled
  <2>9. InOrder(h', s', 0)
    <3>1. CASE h' = h
      BY <2>8, <3>1
    <3>2. CASE fut.call = "poll" /\ h' = Append(h, Head(s).id)
      <4>1. s' = <<>>
        BY <1>9, <3>2 DEF UnparkStep, CallInv
      <4>2. h' = Append(h, received)
        BY <2>1, <2>2, <3>2
      <4>3. \A i \in DOMAIN h : h[i] < received
        BY <1>1, <1>4, <2>2, <2>6
      <4>4. InOrder(Append(h, received), <<>>, 0)
        BY <1>1, <2>8, <4>1, <4>3, OrderPast
      <4>5. QED
        BY <4>1, <4>2, <4>4
    <3>3. QED
      BY <1>9, <3>1, <3>2 DEF UnparkStep
  <2>10. fut'.at # "puback"
    BY <1>9 DEF UnparkStep
  <2>11. pending_bytes' <= Cap + NoMessage.size
    BY <1>1, <1>n, <2>3, <2>4
  <2>12. Parked(NoMessage)'
    BY <1>n, <2>9, <2>10, <2>11 DEF Parked, NoMessage
  <2>13. QED
    BY <2>12 DEF SomeParked, NoMessage
\* push_pending has made room up to the cap.
<1>10. CASE PushStep
  <2>1. hold \in Message /\ hold.id = received
    BY <1>10 DEF PushStep, TypeOK, CallInv
  <2>2. hold.size \in Nat /\ hold.size <= Cap
    BY <1>1, <2>1, MessageType, OneMessageFits
  <2>3. pending_bytes + hold.size <= Cap
    <3>1. CASE s = <<>>
      <4>1. pending_bytes = 0
        BY <3>1, TotalNone DEF Accounted
      <4>2. QED
        BY <2>2, <4>1
    <3>2. CASE s # <<>>
      BY <1>10, <3>2 DEF PushStep, Fits
    <3>3. QED
      BY <3>1, <3>2
  <2>4. pending_bytes' <= Cap + p.size
    BY <1>1, <1>3, <1>10, <2>2, <2>3 DEF PushStep
  <2>5. \A i \in DOMAIN h : h[i] < hold.id
    BY <1>1, <1>4, <1>10, <2>1, PlacesKnown DEF PushStep
  <2>6. \A i \in DOMAIN s : s[i].id < hold.id
    BY <1>1, <1>4, <1>10, <2>1, PlacesKnown DEF PushStep
  <2>7. InOrder(h', s', p.id)
    BY <1>1, <1>10, <1>b, <2>1, <2>5, <2>6, OrderBack DEF PushStep
  <2>8. fut.at # "puback" /\ fut'.at # "puback" /\ torn' = torn
    BY <1>10 DEF PushStep, Settled
  <2>9. Parked(p)'
    BY <1>2, <2>4, <2>7, <2>8 DEF Parked
  <2>10. QED
    BY <2>9 DEF SomeParked
<1>11. QED
  BY <1>5, <1>6, <1>7, <1>8, <1>9, <1>10 DEF BufferStep

\* The three parts of BufferKept are read off the invariant.
LEMMA KeptByParked ==
  ASSUME TypeOK, NoMessageTwice, Accounted, SomeParked
  PROVE  BufferKept
<1>1. PICK p \in Message \cup {NoMessage} : Parked(p)
  BY DEF SomeParked
<1>2. p.id \in Nat /\ p.size \in Nat /\ Cap \in Nat /\ pending_bytes \in Nat
      /\ pending_messages \in Seq(Message) /\ handed \in Seq(Nat)
  BY ParkedType, LimitAssumption DEF TypeOK
<1>3. BytesAccounted
  BY <1>2, SumIsTotal DEF Accounted, BytesAccounted
<1>4. PendingBounded
  <2> SUFFICES ASSUME NEW z \in Sizes, \A t \in Sizes : t <= z
               PROVE  pending_bytes <= Cap + z
    BY DEF PendingBounded
  <2>1. z \in Nat
    BY SizeAssumption
  <2>2. p.size <= z
    <3>1. CASE p \in Message
      BY <3>1, MessageType
    <3>2. CASE p = NoMessage
      BY <2>1, <3>2 DEF NoMessage
    <3>3. QED
      BY <3>1, <3>2
  <2>3. QED
    BY <1>1, <1>2, <2>1, <2>2 DEF Parked
<1>5. OneOvertaker
  <2> DEFINE S == {i \in DOMAIN handed : \E j \in DOMAIN handed : i < j /\ handed[j] < handed[i]}
  <2>1. \A i \in S : handed[i] = p.id
    <3> SUFFICES ASSUME NEW i \in DOMAIN handed, NEW j \in DOMAIN handed, i < j,
                        handed[j] < handed[i]
                 PROVE  handed[i] = p.id
      OBVIOUS
    <3>1. handed[i] < handed[j] \/ handed[i] = p.id
      BY <1>1 DEF Parked, InOrder
    <3>2. handed[i] \in Nat /\ handed[j] \in Nat
      BY <1>2
    <3>3. QED
      BY <3>1, <3>2
  <2>2. \A i, j \in S : i = j
    BY <2>1 DEF NoMessageTwice
  <2> HIDE DEF S
  <2>3. S = {} => Cardinality(S) <= 1
    BY FS_EmptySet
  <2>4. ASSUME S # {} PROVE Cardinality(S) <= 1
    <3>1. PICK i \in S : S = {i}
      BY <2>2, <2>4
    <3>2. Cardinality(S) = 1
      BY <3>1, FS_Singleton
    <3>3. QED
      BY <3>2
  <2>5. Cardinality(S) <= 1
    BY <2>3, <2>4
  <2>6. QED
    BY <2>5 DEF OneOvertaker, S
<1>6. QED
  BY <1>3, <1>4, <1>5 DEF BufferKept

\* The pending buffer's books are right and its order is kept: push_pending,
\* take_pending_matching and the park across the PUBACK write leave the byte
\* count exact, at most one message over the cap, and at most one message of a
\* session, the one a dropped PUBACK leaves parked, ahead of older ones.
THEOREM BufferKeptTheorem == Spec => []BufferKept
<1> DEFINE Known == TypeOK /\ NoMessageLost /\ NoMessageTwice /\ TornStreamIsKnown
           Inv == Accounted /\ BufferInv
<1>1. Init => Inv
  BY InitAccounted, InitBufferInv
<1>2. Known /\ Inv /\ [Next]_vars => Inv'
  BY StepBuffer, StepAccounted, StepCall, StepParked DEF BufferInv
<1>3. Known /\ Inv => BufferKept
  BY KeptByParked DEF BufferInv
<1>4. Spec => []Known
  BY TypeCorrect, NoMessageLostTheorem, NoMessageTwiceTheorem, TornStreamTheorem, PTL
<1> HIDE DEF Known, Inv
<1>5. QED
  BY <1>1, <1>2, <1>3, <1>4, PTL DEF Spec
----------------------------------------------------------------------------
(* The zombie clock.  An armed command is one that waits for its answer, and *)
(* the clock shows how long it has; only one command has a given echo.       *)

ClockInv ==
  /\ DOMAIN waiting \subseteq sent
  /\ fut.at = "publish" => fut.want \notin DOMAIN waiting /\ fut.want \in sent \cup {NoEcho}
  /\ write_pending_echo # NoEcho =>
       /\ write_pending_echo \in DOMAIN waiting
       /\ write_pending_secs = waiting[write_pending_echo]

\* A step arms a command, ages the clocks, hears of one, or leaves them alone.
HearStep(e) ==
  /\ ClearZombie(e) /\ waiting' = Without(waiting, e)
  /\ fut'.at # "publish" /\ UNCHANGED sent
AgeStep(n) ==
  /\ waiting' = [e \in DOMAIN waiting |-> Saturate(waiting[e] + n, ZombieTimeout)]
  /\ write_pending_secs' =
       IF write_pending_secs = Unarmed THEN Unarmed ELSE Saturate(write_pending_secs + n, ZombieTimeout)
  /\ UNCHANGED <<write_pending_echo, sent, fut>>
OtherStep ==
  /\ UNCHANGED <<write_pending_secs, write_pending_echo, waiting>>
  /\ sent \subseteq sent'
  /\ fut'.at # "publish" \/ UNCHANGED fut
       \/ (fut'.want \notin sent /\ fut'.want \in sent' \cup {NoEcho})
ClockStep ==
  \/ PublishWritten
  \/ \E e \in EchoOrNone : HearStep(e)
  \/ \E n \in Elapsed : AgeStep(n)
  \/ OtherStep

LEMMA StepClock ==
  ASSUME TypeOK, [Next]_vars
  PROVE  ClockStep
<1> USE IdleType
<1> USE DEF TypeOK, session, buffer, fates, broker, writer
<1>o. OtherStep => ClockStep
  BY DEF ClockStep
<1>1. ASSUME NEW e \in EchoOrNone, Publish(e) PROVE ClockStep
  <2>1. UNCHANGED <<write_pending_secs, write_pending_echo, waiting>> /\ e \notin sent
    BY <1>1 DEF Publish
  <2>2. CASE /\ fut' = [at |-> "publish", call |-> "publish", want |-> e, id |-> next_packet_id]
             /\ sent' = sent \cup ({e} \ {NoEcho})
    BY <1>o, <2>1, <2>2 DEF OtherStep
  <2>3. CASE UNCHANGED <<fut, sent>>
    BY <1>o, <2>1, <2>3 DEF OtherStep
  <2>4. QED
    BY <1>1, <2>2, <2>3 DEF Publish
<1>2. CASE PublishWritten
  BY <1>2 DEF ClockStep
<1>3. CASE Ping
  BY <1>3, <1>o DEF Ping, Running, OtherStep
<1>4. CASE PingWritten
  BY <1>4, <1>o, GotoType DEF PingWritten, Awaiting, OtherStep
<1>5. CASE WriteFailed
  BY <1>5, <1>o DEF WriteFailed, OtherStep
<1>6. CASE Poll
  BY <1>6, <1>o DEF Poll, Running, OtherStep
<1>7. ASSUME NEW e \in Echoes, PollUntil(e) PROVE ClockStep
  BY <1>7, <1>o DEF PollUntil, Running, OtherStep
<1>8. CASE KeepaliveIfDue
  BY <1>8, <1>o, GotoType DEF KeepaliveIfDue, Awaiting, Writing, OtherStep
<1>9. ASSUME NEW q \in 0..2, NEW z \in Sizes, NEW e \in sent \cup {NoEcho}, ReadPublish(q, z, e)
      PROVE  ClockStep
  <2>1. e \in EchoOrNone
    BY DEF EchoOrNone
  <2>2. ClearZombie(e) /\ waiting' = Without(waiting, e) /\ UNCHANGED sent
    BY <1>9 DEF ReadPublish
  <2> DEFINE m == [id |-> received + 1, size |-> z, echo |-> e]
  <2>3. fut'.at # "publish"
    <3>1. CASE Deliver(m)
      BY <3>1, DeliverNotWriting DEF Writing
    <3>2. CASE fut' = Goto("puback")
      BY <3>2, GotoType DEF Awaiting, Writing
    <3>3. QED
      BY <1>9, <3>1, <3>2 DEF ReadPublish
  <2>4. HearStep(e)
    BY <2>2, <2>3 DEF HearStep
  <2>5. QED
    BY <2>1, <2>4 DEF ClockStep
<1>10. ASSUME NEW ok \in BOOLEAN, PubackWritten(ok) PROVE ClockStep
  <2>1. fut'.at # "publish"
    BY <1>10, DeliverNotWriting DEF PubackWritten, Writing
  <2>2. QED
    BY <1>10, <1>o, <2>1 DEF PubackWritten, OtherStep
<1>11. ASSUME NEW i \in unacked, ReadPuback(i) PROVE ClockStep
  BY <1>11, <1>o, GotoType DEF ReadPuback, OtherStep
<1>12. ASSUME NEW b \in BOOLEAN, ReadOther(b) PROVE ClockStep
  BY <1>12, <1>o, GotoType DEF ReadOther, OtherStep
<1>13. ASSUME NEW b \in BOOLEAN, ReadFailed(b) PROVE ClockStep
  BY <1>13, <1>o DEF ReadFailed, OtherStep
<1>14. CASE EvictOldest
  BY <1>14, <1>o DEF EvictOldest, OtherStep
<1>15. CASE PushPending
  BY <1>15, <1>o, GotoType DEF PushPending, OtherStep
<1>16. ASSUME NEW n \in Elapsed, Tick(n) PROVE ClockStep
  <2>1. AgeStep(n)
    BY <1>16 DEF Tick, AgeStep
  <2>2. QED
    BY <2>1 DEF ClockStep
<1>17. CASE Cancel
  BY <1>17, <1>o DEF Cancel, OtherStep
<1>18. CASE UNCHANGED vars
  BY <1>18, <1>o DEF vars, OtherStep
<1>19. QED
  BY <1>1, <1>2, <1>3, <1>4, <1>5, <1>6, <1>7, <1>8, <1>9, <1>10, <1>11, <1>12,
     <1>13, <1>14, <1>15, <1>16, <1>17, <1>18 DEF Next

\* The armed command stays armed until it is answered, and its clock and its
\* waiting time move together.
ArmedStays == write_pending_echo \in DOMAIN waiting' => write_pending_echo' = write_pending_echo

LEMMA ClockKept ==
  ASSUME TypeOK, ClockInv, ClockStep
  PROVE  ClockInv' /\ (write_pending_echo # NoEcho => ArmedStays)
<1> USE EchoAssumption
<1>t. /\ DOMAIN waiting \subseteq Echoes /\ waiting \in [DOMAIN waiting -> Nat]
      /\ sent \subseteq Echoes /\ write_pending_echo \in EchoOrNone /\ NoEcho \notin DOMAIN waiting
  BY DEF TypeOK
<1>1. CASE PublishWritten
  <2> DEFINE w == fut.want
  <2>1. w \notin DOMAIN waiting /\ w \in sent \cup {NoEcho}
    BY <1>1 DEF PublishWritten, ClockInv
  <2>2. waiting' = (IF w = NoEcho THEN waiting ELSE With(waiting, w, 0))
        /\ fut' = Idle /\ UNCHANGED sent
    BY <1>1 DEF PublishWritten
  <2>3. DOMAIN waiting' \subseteq sent
    BY <2>1, <2>2 DEF With, ClockInv
  <2>4. CASE write_pending_secs = Unarmed
    <3>1. write_pending_echo = NoEcho
      BY <1>t, <2>4 DEF ClockInv, Unarmed
    <3>2. write_pending_secs' = 0 /\ write_pending_echo' = w
      BY <1>1, <2>4 DEF PublishWritten, Arms
    <3>3. w # NoEcho => w \in DOMAIN waiting' /\ waiting'[w] = 0
      BY <2>2 DEF With
    <3>4. QED
      BY <2>2, <2>3, <3>1, <3>2, <3>3, IdleType DEF ClockInv
  <2>5. CASE write_pending_secs # Unarmed
    <3>1. UNCHANGED <<write_pending_secs, write_pending_echo>>
      BY <1>1, <2>5 DEF PublishWritten, Arms
    <3>2. \A e \in DOMAIN waiting : e \in DOMAIN waiting' /\ waiting'[e] = waiting[e]
      BY <2>1, <2>2 DEF With
    <3>3. QED
      BY <2>2, <2>3, <3>1, <3>2, IdleType DEF ClockInv, ArmedStays
  <2>6. QED
    BY <2>4, <2>5
<1>2. ASSUME NEW e \in EchoOrNone, HearStep(e)
      PROVE  ClockInv' /\ (write_pending_echo # NoEcho => ArmedStays)
  <2>1. /\ DOMAIN waiting' = DOMAIN waiting \ {e}
        /\ \A x \in DOMAIN waiting' : waiting'[x] = waiting[x]
        /\ fut'.at # "publish" /\ sent' = sent
    BY <1>2 DEF HearStep, Without
  <2>2. CASE write_pending_echo' = NoEcho /\ (write_pending_echo = NoEcho \/ write_pending_echo = e)
    BY <2>1, <2>2 DEF ClockInv, ArmedStays
  <2>3. CASE UNCHANGED <<write_pending_secs, write_pending_echo>> /\ write_pending_echo # e
             /\ write_pending_echo # NoEcho
    BY <2>1, <2>3 DEF ClockInv, ArmedStays
  <2>4. QED
    BY <1>2, <2>2, <2>3 DEF HearStep, ClearZombie
<1>3. ASSUME NEW n \in Elapsed, AgeStep(n)
      PROVE  ClockInv' /\ (write_pending_echo # NoEcho => ArmedStays)
  <2>1. DOMAIN waiting' = DOMAIN waiting /\ UNCHANGED <<write_pending_echo, sent, fut>>
    BY <1>3 DEF AgeStep
  <2>2. ASSUME write_pending_echo # NoEcho
        PROVE  write_pending_secs' = waiting'[write_pending_echo]
    <3>1. write_pending_echo \in DOMAIN waiting /\ write_pending_secs = waiting[write_pending_echo]
      BY <2>2 DEF ClockInv
    <3>2. write_pending_secs # Unarmed
      BY <1>t, <3>1 DEF Unarmed
    <3>3. QED
      BY <1>3, <3>1, <3>2 DEF AgeStep
  <2>3. QED
    BY <2>1, <2>2 DEF ClockInv, ArmedStays
<1>4. CASE OtherStep
  BY <1>4 DEF OtherStep, ClockInv, ArmedStays
<1>5. QED
  BY <1>1, <1>2, <1>3, <1>4 DEF ClockStep

LEMMA InitClock == Init => ClockInv
BY IdleType DEF Init, ClockInv

LEMMA ClockTracks ==
  ASSUME TypeOK, ClockInv, ClockInv', ArmedStays \/ write_pending_echo = NoEcho
  PROVE  \A e \in Echoes : write_pending_echo = e =>
           IF e \in DOMAIN waiting'
           THEN /\ write_pending_echo' = e
                /\ write_pending_secs' - write_pending_secs = waiting'[e] - waiting[e]
           ELSE write_pending_echo' # e
BY EchoAssumption DEF ClockInv, ArmedStays

\* While a command on the zombie clock is unanswered, publish_keyed, the read
\* loop and tick_zombie_check leave it there and advance its clock by what has
\* passed; its answer takes it off.
THEOREM ZombieClockTheorem == Spec => ZombieClockTracksCommand
<1>1. TypeOK /\ ClockInv /\ [Next]_vars => ClockInv'
  BY StepClock, ClockKept
<1>2. Spec => []ClockInv
  BY <1>1, InitClock, TypeCorrect, PTL DEF Spec
<1>3. TypeOK /\ ClockInv /\ ClockInv' /\ [Next]_vars
        => [\A e \in Echoes : write_pending_echo = e =>
              IF e \in DOMAIN waiting'
              THEN /\ write_pending_echo' = e
                   /\ write_pending_secs' - write_pending_secs = waiting'[e] - waiting[e]
              ELSE write_pending_echo' # e]_vars
  BY StepClock, ClockKept, ClockTracks
<1>4. QED
  BY <1>2, <1>3, TypeCorrect, PTL DEF Spec, ZombieClockTracksCommand
============================================================================

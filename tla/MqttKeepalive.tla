--------------------------- MODULE MqttKeepalive ---------------------------
(***************************************************************************)
(* The clock side of MqttClient::poll_wire (src/mqtt/client/mod.rs): when a *)
(* keepalive PINGREQ goes out, and how long the broker can be left without  *)
(* a packet by a caller that keeps polling with a real clock.               *)
(*                                                                         *)
(* Time advances by whole seconds while the caller holds the client between *)
(* two calls (at most CallerGap) or a call waits in a read (at most         *)
(* ReadTimeout, where the read's deadline ends it).  Writes take no time    *)
(* and succeed, which is the best case for the deadline.                    *)
(***************************************************************************)
EXTENDS Integers

CONSTANTS
  PingInterval,    \* MQTT_PING_INTERVAL_SECS
  ReadTimeout,     \* MQTT_READ_TIMEOUT_SECS
  BrokerDeadline,  \* 1.5 * MQTT_KEEP_ALIVE_SECS
  CallerGap        \* bound: seconds the caller spends between two calls

ASSUME ConstantsAssumption ==
  /\ PingInterval \in Nat \ {0}
  /\ ReadTimeout \in Nat
  /\ BrokerDeadline \in Nat
  /\ CallerGap \in Nat

VARIABLES
  at,       \* "idle", "loop" (top of poll_wire's loop) or "read"
  stamp,    \* seconds since last_outbound_ms, or Unstamped
  silence,  \* seconds since the broker received a packet
  spent     \* seconds spent in the current gap or read

vars == <<at, stamp, silence, spent>>

Unstamped == -1

\* SUBSCRIBE was the last packet out; the handshake does not stamp.
Init == at = "idle" /\ stamp = Unstamped /\ silence = 0 /\ spent = 0

\* write_frame_guarded on success.
Outbound == stamp' = 0 /\ silence' = 0

Second ==
  /\ \/ at = "idle" /\ spent < CallerGap
     \/ at = "read" /\ spent < ReadTimeout
  /\ spent' = spent + 1
  /\ silence' = silence + 1
  /\ stamp' = IF stamp = Unstamped THEN Unstamped ELSE stamp + 1
  /\ UNCHANGED at

Publish ==
  /\ at = "idle"
  /\ Outbound
  /\ UNCHANGED <<at, spent>>

PollWire ==
  /\ at = "idle"
  /\ at' = "loop"
  /\ UNCHANGED <<stamp, silence, spent>>

\* send_keepalive_if_due's test.  (Mutant: due one read too late.)
DueAfterRead == stamp >= PingInterval + ReadTimeout
Due == stamp >= PingInterval

\* The first call stamps the clock, later ones ping when one is due.
KeepaliveIfDue ==
  /\ at = "loop"
  /\ \/ stamp = Unstamped /\ stamp' = 0 /\ UNCHANGED silence
     \/ stamp # Unstamped /\ ~Due /\ UNCHANGED <<stamp, silence>>
     \/ stamp # Unstamped /\ Due /\ Outbound
  /\ at' = "read"
  /\ spent' = 0

\* PUBACK, PINGRESP and ignored frames go round the loop.
ReadControl ==
  /\ at = "read"
  /\ at' = "loop"
  /\ UNCHANGED <<stamp, silence, spent>>

\* A message returns to the caller; QoS 1 writes a PUBACK first.
ReadPublish(qos) ==
  /\ at = "read"
  /\ IF qos = 1 THEN Outbound ELSE UNCHANGED <<stamp, silence>>
  /\ at' = "idle"
  /\ spent' = 0

ReadTimedOut ==
  /\ at = "read"
  /\ spent = ReadTimeout
  /\ at' = "idle"
  /\ spent' = 0
  /\ UNCHANGED <<stamp, silence>>

Next ==
  \/ Second
  \/ Publish
  \/ PollWire
  \/ KeepaliveIfDue
  \/ ReadControl
  \/ \E qos \in 0..1 : ReadPublish(qos)
  \/ ReadTimedOut

Spec == Init /\ [][Next]_vars

----------------------------------------------------------------------------
\* The variables have their types.
TypeOK ==
  /\ at \in {"idle", "loop", "read"}
  /\ stamp \in Nat \cup {Unstamped}
  /\ silence \in Nat
  /\ spent \in Nat

\* A polling caller leaves the broker without a packet for less than a ping
\* interval, a read and two gaps of its own: a ping falls due between any two
\* consecutive reads.
SilenceBounded == silence < PingInterval + ReadTimeout + 2 * CallerGap

Slack == IF stamp = Unstamped THEN silence ELSE silence - stamp

\* Why SilenceBounded holds: what may already have elapsed at each point.
SilenceInv ==
  /\ TypeOK
  /\ Slack \in 0..CallerGap
  /\ at = "idle" => spent <= CallerGap
  /\ at = "read" => spent <= ReadTimeout
  /\ stamp = Unstamped => at # "read"
  /\ stamp = Unstamped /\ at = "idle" => silence = spent
  /\ at = "idle" /\ stamp # Unstamped => stamp < PingInterval + ReadTimeout + spent
  /\ at = "loop" /\ stamp # Unstamped => stamp < PingInterval + ReadTimeout + CallerGap
  /\ at = "read" => stamp < PingInterval + spent

\* poll_wire documents that, thanks to the keepalive, "a long wait on a printer
\* sending no QoS1 traffic ... is not dropped mid-read": the broker, which drops
\* after 1.5 keepalive intervals, always hears from the client before.
NotDropped == silence < BrokerDeadline
============================================================================

------------------------ MODULE MqttKeepaliveProofs ------------------------
(* SilenceBounded for every ping interval, read timeout and caller gap.      *)
EXTENDS MqttKeepalive, TLAPS

LEMMA InitSilence == Init => SilenceInv
BY ConstantsAssumption DEF Init, SilenceInv, TypeOK, Slack, Unstamped

LEMMA StepSilence == SilenceInv /\ [Next]_vars => SilenceInv'
<1> SUFFICES ASSUME SilenceInv, [Next]_vars PROVE SilenceInv'
  OBVIOUS
<1> USE ConstantsAssumption DEF SilenceInv, TypeOK, Slack, Unstamped
<1>1. CASE Second
  BY <1>1 DEF Second
<1>2. CASE Publish
  BY <1>2 DEF Publish, Outbound
<1>3. CASE PollWire
  BY <1>3 DEF PollWire
<1>4. CASE KeepaliveIfDue
  BY <1>4 DEF KeepaliveIfDue, Due, Outbound
<1>5. CASE ReadControl
  BY <1>5 DEF ReadControl
<1>6. ASSUME NEW qos \in 0..1, ReadPublish(qos) PROVE SilenceInv'
  BY <1>6 DEF ReadPublish, Outbound
<1>7. CASE ReadTimedOut
  BY <1>7 DEF ReadTimedOut
<1>8. CASE UNCHANGED vars
  BY <1>8 DEF vars
<1>9. QED
  BY <1>1, <1>2, <1>3, <1>4, <1>5, <1>6, <1>7, <1>8 DEF Next

\* A caller that polls with a real clock leaves the broker without a packet for
\* less than PingInterval + ReadTimeout + 2 * CallerGap seconds, whatever the
\* constants: what send_keepalive_if_due guarantees, and all it guarantees.
THEOREM SilenceTheorem == Spec => []SilenceBounded
<1>1. SilenceInv => SilenceBounded
  BY ConstantsAssumption DEF SilenceInv, TypeOK, Slack, SilenceBounded, Unstamped
<1>2. QED
  BY <1>1, InitSilence, StepSilence, PTL DEF Spec
============================================================================

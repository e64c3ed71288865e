-------------------------- MODULE CommandOutcomes --------------------------
(***************************************************************************)
(* How a published command comes to its one outcome: CommandTracker         *)
(* (src/client/command.rs), dispatch and poll_until (src/client/mod.rs),    *)
(* poll_telemetry, await_ack and poll_raw (src/client/telemetry.rs) and the *)
(* session changes of src/client/connect.rs, which end every pending        *)
(* command.                                                                 *)
(*                                                                         *)
(* A handle is a number, minted in order.  Of the messages only the echoes  *)
(* of commands matter; the printer's verdict is decoded by a pure function  *)
(* and abstracted to "Answered".  MqttClient is reduced to the echoes in    *)
(* its pending_messages and those the printer still owes this session (see  *)
(* MqttSession for the rest).  One future runs at a time; Cancel drops it.  *)
(***************************************************************************)
EXTENDS Integers, Sequences, FiniteSets, SequencesExt

CONSTANTS
  MaxHandles,     \* bound: echoing commands dispatched
  PendingLimit,   \* PENDING_COMMAND_LIMIT
  ResolvedLimit,  \* RESOLVED_OUTCOME_LIMIT
  CancelClose     \* may a caller drop disconnect_mqtt or attach_mqtt mid-close?

ASSUME LimitAssumption ==
  /\ MaxHandles \in Nat
  /\ PendingLimit \in Nat \ {0}
  /\ ResolvedLimit \in Nat \ {0}
  /\ CancelClose \in BOOLEAN

VARIABLES
  mqtt,      \* is self.mqtt Some?
  pending,   \* handles awaiting an echo, in publish order
  ready,     \* resolutions no message carries, undelivered
  resolved,  \* the last resolutions delivered as events
  buffered,  \* echoes in the session's pending_messages
  owed,      \* echoes the printer may still send on this session
  expired,   \* handles past their deadline_ms
  fut,       \* the running future
  minted,    \* number of handles minted
  tracked,   \* handles dispatch returned to the caller
  told       \* handle -> the outcomes the caller was given, in order

tracker == <<pending, ready, resolved>>
wire    == <<mqtt, buffered, owed>>
vars    == <<tracker, wire, expired, fut, minted, tracked, told>>

Handles == 1..MaxHandles
NoHandle == 0
Outcome == {"Answered", "TimedOut", "ConnectionLost"}
Resolution == [handle : Handles, outcome : Outcome]

\* "go" is the code after ensure_mqtt; "close" is the TLS close, "dial" the
\* connection attempt, "pushall" the publish inside install_mqtt.
Awaiting == {"dial", "pushall", "publish", "read", "wait"}
Future == [at : {"idle", "go", "close", "closed"} \cup Awaiting,
           op : {"none", "dispatch", "poll", "raw", "ack", "request",
                 "disconnect", "attach"},
           h  : Handles \cup {NoHandle}]
Idle == [at |-> "idle", op |-> "none", h |-> NoHandle]

\* position, then remove.  A handle is pending once, so the retain of forget
\* takes out the same entry.
Without(s, x) ==
  IF x \in Range(s) THEN RemoveAt(s, CHOOSE i \in DOMAIN s : s[i] = x) ELSE s
Resolve(h, outcome) == [handle |-> h, outcome |-> outcome]

Tell(h, outcome) == told' = [told EXCEPT ![h] = Append(@, outcome)]

\* remember: the oldest entry makes room.
Remember(r) ==
  resolved' = Append(IF Len(resolved) >= ResolvedLimit THEN Tail(resolved) ELSE resolved, r)

Init ==
  /\ mqtt = FALSE
  /\ pending = <<>>
  /\ ready = <<>>
  /\ resolved = <<>>
  /\ buffered = <<>>
  /\ owed = {}
  /\ expired = {}
  /\ fut = Idle
  /\ minted = 0
  /\ tracked = {}
  /\ told = [h \in Handles |-> <<>>]

----------------------------------------------------------------------------
(* ensure_mqtt and install_mqtt                                             *)

Ensured(op, h) == [at |-> IF mqtt THEN "go" ELSE "dial", op |-> op, h |-> h]

\* CommandTracker::connection_ended.  (Mutant: it drops the commands
\* of the old session without an outcome.)
LostNothing == <<>>
Lost == [i \in DOMAIN pending |-> Resolve(pending[i], "ConnectionLost")]

BeginConnection ==
  /\ ready' = ready \o Lost
  /\ pending' = <<>>
  /\ UNCHANGED resolved

\* A fresh session owes no echo and has an empty buffer.
InstallMqtt ==
  /\ mqtt' = TRUE
  /\ buffered' = <<>>
  /\ owed' = {}
  /\ BeginConnection
  /\ fut' = [fut EXCEPT !.at = "pushall"]
  /\ UNCHANGED <<expired, minted, tracked, told>>

Dialled == fut.at = "dial" /\ InstallMqtt

\* Every error of a dial, a publish or a read returns to the caller.
Fails ==
  /\ fut.at \in {"dial", "publish", "read", "wait"}
  /\ fut' = Idle
  /\ owed' \in {owed} \cup (IF fut.at = "publish" THEN {owed \cup {fut.h}} ELSE {})
  /\ UNCHANGED <<tracker, mqtt, buffered, expired, minted, tracked, told>>

\* The pushall may fail; connecting goes on either way.
PushallDone ==
  /\ fut.at = "pushall"
  /\ fut' = IF fut.op = "attach" THEN Idle ELSE [fut EXCEPT !.at = "go"]
  /\ UNCHANGED <<tracker, wire, expired, minted, tracked, told>>

----------------------------------------------------------------------------
(* dispatch                                                                 *)

Dispatch ==
  /\ fut = Idle
  /\ minted < MaxHandles
  /\ fut' = Ensured("dispatch", NoHandle)
  /\ UNCHANGED <<tracker, wire, expired, minted, tracked, told>>

Mint ==
  /\ fut.at = "go" /\ fut.op = "dispatch"
  /\ minted' = minted + 1
  /\ fut' = [at |-> "publish", op |-> "dispatch", h |-> minted + 1]
  /\ UNCHANGED <<tracker, wire, expired, tracked, told>>

\* CommandTracker::track: at the limit the oldest command times out.
\* (Mutant: one too many.)
FullOffByOne == Len(pending) > PendingLimit
Full == Len(pending) >= PendingLimit

Published ==
  /\ fut.at = "publish"
  /\ owed' = owed \cup {fut.h}
  /\ tracked' = tracked \cup {fut.h}
  /\ pending' = Append(IF Full THEN Tail(pending) ELSE pending, fut.h)
  /\ ready' = IF Full THEN Append(ready, Resolve(Head(pending), "TimedOut")) ELSE ready
  /\ fut' = Idle
  /\ UNCHANGED <<resolved, mqtt, buffered, expired, minted, told>>

----------------------------------------------------------------------------
(* poll_telemetry                                                           *)

\* classify_message on the echo of h.
Classify(h) ==
  /\ UNCHANGED ready
  /\ IF h \in Range(pending)
     THEN /\ pending' = Without(pending, h)
          /\ Remember(Resolve(h, "Answered"))
          /\ Tell(h, "Answered")
     ELSE UNCHANGED <<pending, resolved, told>>

\* (Mutant: nothing looks at the deadlines.)
NeverOverdue == {}
Overdue == {i \in DOMAIN pending : pending[i] \in expired}

\* next_unanswered_outcome returns a resolution: a queued one, else the oldest
\* pending command past its deadline.
NextUnanswered ==
  /\ \/ /\ ready # <<>>
        /\ ready' = Tail(ready)
        /\ Remember(Head(ready))
        /\ Tell(Head(ready).handle, Head(ready).outcome)
        /\ UNCHANGED pending
     \/ /\ ready = <<>>
        /\ \E i \in Overdue :
             /\ \A j \in Overdue : i <= j
             /\ pending' = RemoveAt(pending, i)
             /\ Remember(Resolve(pending[i], "TimedOut"))
             /\ Tell(pending[i], "TimedOut")
        /\ UNCHANGED ready

NothingUnanswered == ready = <<>> /\ Overdue = {}

\* A buffered message comes before any timeout.  (Mutant: timeouts first.)
NeverBufferFirst == FALSE
BufferFirst == mqtt /\ buffered # <<>>

Poll ==
  /\ fut = Idle
  /\ \/ /\ BufferFirst
        /\ buffered' = Tail(buffered)
        /\ Classify(Head(buffered))
        /\ UNCHANGED <<fut, mqtt, owed>>
     \/ /\ ~BufferFirst
        /\ NextUnanswered
        /\ UNCHANGED <<fut, wire>>
     \/ /\ ~BufferFirst /\ NothingUnanswered
        /\ fut' = Ensured("poll", NoHandle)
        /\ UNCHANGED <<tracker, wire, told>>
  /\ UNCHANGED <<expired, minted, tracked>>

\* After ensure_mqtt: a reconnect has just resolved every pending command.
PollConnected ==
  /\ fut.at = "go" /\ fut.op = "poll"
  /\ \/ NextUnanswered /\ fut' = Idle
     \/ NothingUnanswered /\ fut' = [fut EXCEPT !.at = "read"] /\ UNCHANGED <<tracker, told>>
  /\ UNCHANGED <<wire, expired, minted, tracked>>

PollReads(h) ==
  /\ fut.at = "read" /\ fut.op = "poll"
  /\ h \in owed
  /\ owed' = owed \ {h}
  /\ Classify(h)
  /\ fut' = Idle
  /\ UNCHANGED <<mqtt, buffered, expired, minted, tracked>>

\* poll_raw: the caller gets the message, the tracker does not.
Raw ==
  /\ fut = Idle
  /\ fut' = Ensured("raw", NoHandle)
  /\ UNCHANGED <<tracker, wire, expired, minted, tracked, told>>

RawConnected ==
  /\ fut.at = "go" /\ fut.op = "raw"
  /\ \/ buffered # <<>> /\ buffered' = Tail(buffered) /\ fut' = Idle
     \/ buffered = <<>> /\ fut' = [fut EXCEPT !.at = "read"] /\ UNCHANGED buffered
  /\ UNCHANGED <<tracker, mqtt, owed, expired, minted, tracked, told>>

RawReads(h) ==
  /\ fut.at = "read" /\ fut.op = "raw"
  /\ h \in owed
  /\ owed' = owed \ {h}
  /\ fut' = Idle
  /\ UNCHANGED <<tracker, mqtt, buffered, expired, minted, tracked, told>>

\* A message that is no echo of ours ends poll_telemetry and poll_raw.
ReadsTelemetry ==
  /\ fut.at = "read"
  /\ fut' = Idle
  /\ UNCHANGED <<tracker, wire, expired, minted, tracked, told>>

----------------------------------------------------------------------------
(* await_ack, and the request methods that wait for a reply of their own    *)

ReadyIndices(h) == {i \in DOMAIN ready : ready[i].handle = h}

\* take_known answers from ready (which delivers the outcome) or again from
\* resolved; a handle that is neither known nor pending is InvalidArgument.
AwaitAck(h) ==
  /\ fut = Idle
  /\ h \in tracked
  /\ \/ \E i \in ReadyIndices(h) :
          /\ \A j \in ReadyIndices(h) : i <= j
          /\ ready' = RemoveAt(ready, i)
          /\ Tell(h, ready[i].outcome)
          /\ UNCHANGED fut
     \/ /\ ReadyIndices(h) = {}
        /\ \A i \in DOMAIN resolved : resolved[i].handle # h
        /\ h \in Range(pending)
        /\ fut' = Ensured("ack", h)
        /\ UNCHANGED <<ready, told>>
  /\ UNCHANGED <<pending, resolved, wire, expired, minted, tracked>>

\* get_version, get_k_profiles and the like publish an untracked command.
Request ==
  /\ fut = Idle
  /\ fut' = Ensured("request", NoHandle)
  /\ UNCHANGED <<tracker, wire, expired, minted, tracked, told>>

\* forget takes a command out of pending only.  (Mutant: await_ack returns
\* without it.)
ForgetNothing(h) == UNCHANGED pending
Forget(h) == pending' = Without(pending, h)

\* poll_until: the buffer first, then the wire.
WaitStarts ==
  /\ fut.at = "go" /\ fut.op \in {"ack", "request"}
  /\ IF fut.h \in Range(buffered)
     THEN /\ buffered' = Without(buffered, fut.h)
          /\ Forget(fut.h)
          /\ Tell(fut.h, "Answered")
          /\ fut' = Idle
     ELSE /\ fut' = [fut EXCEPT !.at = "wait"]
          /\ UNCHANGED <<buffered, pending, told>>
  /\ UNCHANGED <<ready, resolved, mqtt, owed, expired, minted, tracked>>

WaitReads(h) ==
  /\ fut.at = "wait"
  /\ h \in owed
  /\ owed' = owed \ {h}
  /\ IF h = fut.h
     THEN /\ Forget(h)
          /\ Tell(h, "Answered")
          /\ fut' = Idle
          /\ UNCHANGED buffered
     ELSE /\ buffered' = Append(buffered, h)
          /\ UNCHANGED <<pending, told, fut>>
  /\ UNCHANGED <<ready, resolved, mqtt, expired, minted, tracked>>

\* Telemetry stashed by a wait may push the oldest buffered echo past the cap.
WaitEvicts ==
  /\ fut.at = "wait"
  /\ buffered # <<>>
  /\ buffered' = Tail(buffered)
  /\ UNCHANGED <<tracker, mqtt, owed, expired, fut, minted, tracked, told>>

\* The wait budget is spent, or a request got its reply.
WaitEnds ==
  /\ fut.at = "wait"
  /\ fut' = Idle
  /\ IF fut.op = "ack"
     THEN Forget(fut.h) /\ Tell(fut.h, "TimedOut")
     ELSE UNCHANGED <<pending, told>>
  /\ UNCHANGED <<ready, resolved, wire, expired, minted, tracked>>

----------------------------------------------------------------------------
(* disconnect_mqtt and attach_mqtt                                          *)

\* close_mqtt_session takes the session out of its slot, then awaits the TLS
\* close; without a session there is nothing to await.
Close(op) ==
  /\ fut = Idle
  /\ mqtt' = FALSE
  /\ buffered' = <<>>
  /\ owed' = {}
  /\ fut' = [at |-> IF mqtt THEN "close" ELSE "closed", op |-> op, h |-> NoHandle]
  /\ UNCHANGED <<tracker, expired, minted, tracked, told>>

\* disconnect_mqtt marks the boundary only once the close has returned.
Disconnected ==
  /\ fut.at \in {"close", "closed"} /\ fut.op = "disconnect"
  /\ BeginConnection
  /\ fut' = Idle
  /\ UNCHANGED <<wire, expired, minted, tracked, told>>

Attached == fut.at \in {"close", "closed"} /\ fut.op = "attach" /\ InstallMqtt

----------------------------------------------------------------------------
\* A deadline passes on the client's clock.
Expire(h) ==
  /\ h \in tracked \ expired
  /\ expired' = expired \cup {h}
  /\ UNCHANGED <<tracker, wire, fut, minted, tracked, told>>

\* A dropped publish may have been sent all the same.
Cancel ==
  /\ \/ fut.at \in Awaiting
     \/ fut.at = "close" /\ CancelClose
  /\ fut' = Idle
  /\ owed' \in {owed} \cup (IF fut.at = "publish" THEN {owed \cup {fut.h}} ELSE {})
  /\ UNCHANGED <<tracker, mqtt, buffered, expired, minted, tracked, told>>

Next ==
  \/ Dispatch \/ Mint \/ Published
  \/ Dialled \/ PushallDone \/ Fails
  \/ Poll \/ PollConnected \/ ReadsTelemetry
  \/ Raw \/ RawConnected
  \/ \E h \in Handles : PollReads(h) \/ RawReads(h) \/ WaitReads(h)
  \/ \E h \in Handles : AwaitAck(h) \/ Expire(h)
  \/ Request \/ WaitStarts \/ WaitEvicts \/ WaitEnds
  \/ \E op \in {"disconnect", "attach"} : Close(op)
  \/ Disconnected \/ Attached
  \/ Cancel

Spec == Init /\ [][Next]_vars

\* A caller that keeps calling poll_telemetry, a clock that moves, and calls
\* that return: dials, reads, writes and waits all race a deadline.  Nothing is
\* assumed of the network: dials, reads and publishes may fail for ever.
Returns ==
  \/ Mint \/ Published \/ Dialled \/ PushallDone \/ Fails
  \/ PollConnected \/ ReadsTelemetry \/ RawConnected
  \/ WaitStarts \/ WaitEnds \/ Disconnected \/ Attached

FairSpec ==
  /\ Spec
  /\ WF_vars(Returns)
  /\ SF_vars(Poll)
  /\ \A h \in Handles : WF_vars(Expire(h))

----------------------------------------------------------------------------
(* Properties                                                               *)

Copies(s, h) == Cardinality({i \in DOMAIN s : s[i] = h})
ReadyCopies(h) == Cardinality(ReadyIndices(h))

\* The variables have their types.
TypeOK ==
  /\ mqtt \in BOOLEAN
  /\ pending \in Seq(Handles)
  /\ Len(pending) <= PendingLimit
  /\ ready \in Seq(Resolution)
  /\ resolved \in Seq(Resolution)
  /\ Len(resolved) <= ResolvedLimit
  /\ buffered \in Seq(Handles)
  /\ owed \subseteq Handles
  /\ expired \subseteq tracked
  /\ fut \in Future
  /\ minted \in 0..MaxHandles
  /\ tracked \subseteq 1..minted
  /\ told \in [Handles -> Seq(Outcome)]

\* The bookkeeping "gives every echoing command exactly one CommandOutcome": a
\* command dispatch returned is pending, or queued in ready, or its caller has
\* been given one outcome, and never two of these, whatever the interleaving
\* of polls, waits, timeouts, evictions, reconnects and dropped futures.
OnePlace ==
  \A h \in tracked : Copies(pending, h) + ReadyCopies(h) + Len(told[h]) = 1

\* No caller is given two outcomes for one command.
OneOutcome == \A h \in Handles : Len(told[h]) <= 1

LedgerState(h) ==
  IF Len(told[h]) = 0 THEN (IF h \in tracked THEN "open" ELSE "unsent")
  ELSE IF Len(told[h]) = 1 THEN told[h][1] ELSE "contradicted"
Ledger == INSTANCE CommandLedger WITH
            Commands <- Handles,
            Outcomes <- Outcome,
            ledger <- [h \in Handles |-> LedgerState(h)]

\* The tracker implements the ledger of CommandLedger, in which a command is
\* opened once, settled at most once and never revised.  A second outcome has
\* no counterpart there.
ImplementsLedger == Ledger!Spec

\* What await_ack answers a second time from `resolved` is what the caller was
\* given the first time.
ResolvedAgrees ==
  \A i \in DOMAIN resolved : told[resolved[i].handle] = <<resolved[i].outcome>>

\* A pending command whose echo has been read and is still buffered is never
\* reported as timed out: the buffer is drained first.
NotTimedOutWhileBuffered ==
  [][\A h \in Range(pending) :
       told'[h] # told[h] /\ h \in Range(buffered) => told'[h] = <<"Answered">>]_vars

\* A caller that keeps polling gets an outcome for every command, with the
\* printer silent, the link down or the session replaced.
EveryCommandResolved == \A h \in Handles : h \in tracked ~> told[h] # <<>>

\* The tracker's books are right: every command dispatch returned is in exactly
\* one place, its tables are within their limits, and the outcome await_ack
\* gives again is the one it gave first (CommandTracker).
TrackerKept == TypeOK /\ OnePlace /\ ResolvedAgrees
============================================================================

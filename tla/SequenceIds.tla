----------------------------- MODULE SequenceIds -----------------------------
(***************************************************************************)
(* The sequence ids PrinterClient gives its commands (src/client/mod.rs,    *)
(* dispatch and next_sequence_id) and the echoes they are matched by        *)
(* (src/client/command.rs, CommandTracker).  Every client of the printer    *)
(* sees every client's echoes on the one report topic, so an id must not be *)
(* one another party uses, nor one of a command still awaiting its echo:    *)
(* the counter wraps, and a connect reseeds it from a clock that may stand  *)
(* anywhere.                                                                *)
(***************************************************************************)
EXTENDS Integers, Sequences, FiniteSets, SequencesExt

CONSTANTS
  IdFloor,       \* SEQUENCE_ID_FLOOR: other parties use ids below it
  IdMax,         \* TASK_ID_MAX: firmware parses ids below it
  PendingLimit,  \* PENDING_COMMAND_LIMIT
  MaxIssued,     \* bound: commands issued
  MaxEchoes      \* bound: echoes on their way

\* The mintable range holds every id that can be waiting for an echo (2^31 ids
\* and 64 commands in the code).
ASSUME IdAssumption ==
  /\ IdFloor \in Nat \ {0} /\ IdMax \in Nat
  /\ PendingLimit \in Nat \ {0} /\ MaxIssued \in Nat /\ MaxEchoes \in Nat
  /\ PendingLimit + MaxEchoes < IdMax - IdFloor

VARIABLES
  sequenceCounter,
  idLive,      \* is there a session?
  realClock,   \* Timer::has_real_clock
  issued,      \* number of commands published
  awaiting,    \* CommandTracker.pending: [id, nr] in order
  echoes,      \* echoes on their way: [id, nr], nr = 0 for another client's
  settled      \* history: (nr of the echo, nr of the command it resolved)

idVars == <<sequenceCounter, idLive, realClock, issued, awaiting, echoes, settled>>

IdRange == IdFloor..(IdMax - 1)

IdInit ==
  /\ sequenceCounter = IdFloor /\ idLive = FALSE /\ realClock \in BOOLEAN
  /\ issued = 0 /\ awaiting = <<>> /\ echoes = {} /\ settled = {}

\* next_sequence_id
\* (Mutant: the counter wraps to zero.)
NextSequenceIdMutant(c) == IF c + 1 >= IdMax THEN 0 ELSE c + 1
NextSequenceId(c) == IF c + 1 >= IdMax THEN IdFloor ELSE c + 1

\* sequence_id_from_seed
SequenceIdFromSeed(seed) == IdFloor + (seed % (IdMax - IdFloor))

\* begin_connection: connection_ended resolves what was pending as lost.
\* (Mutant: the commands of the old session stay pending.)
PendingAfterConnectMutant == awaiting
PendingAfterConnect == <<>>

\* ensure_mqtt: begin_connection, then reseed_sequence_counter.
ConnectAndReseed ==
  /\ ~idLive /\ idLive' = TRUE
  /\ awaiting' = PendingAfterConnect
  /\ echoes' = {}
  /\ IF realClock
     THEN \E seed \in 0..(IdMax - IdFloor - 1) : sequenceCounter' = SequenceIdFromSeed(seed)
     ELSE UNCHANGED sequenceCounter
  /\ UNCHANGED <<realClock, issued, settled>>

\* A session that is lost is noticed at the next use, and until then its
\* commands stay pending.
SessionLost ==
  /\ idLive /\ idLive' = FALSE
  /\ UNCHANGED <<sequenceCounter, realClock, issued, awaiting, echoes, settled>>

\* with_timer, on a client from_mqtt built: the builder runs before the first
\* command.
WithTimer ==
  /\ idLive /\ ~realClock /\ issued = 0
  /\ realClock' = TRUE
  /\ \E seed \in 0..(IdMax - IdFloor - 1) : sequenceCounter' = SequenceIdFromSeed(seed)
  /\ UNCHANGED <<idLive, issued, awaiting, echoes, settled>>

\* CommandTracker::track, at its limit.
Tracked(q, c) == Append(IF Len(q) >= PendingLimit THEN Tail(q) ELSE q, c)

\* dispatch: mint, publish, track.  A command that is not published has used
\* its id up.
DispatchCommand(published) ==
  /\ idLive /\ issued < MaxIssued /\ Cardinality(echoes) < MaxEchoes
  /\ issued' = issued + 1
  /\ sequenceCounter' = NextSequenceId(sequenceCounter)
  /\ LET c == [id |-> sequenceCounter', nr |-> issued'] IN
       /\ awaiting' = IF published THEN Tracked(awaiting, c) ELSE awaiting
       /\ echoes' = IF published THEN echoes \cup {c} ELSE echoes
  /\ UNCHANGED <<idLive, realClock, settled>>

\* Another client's command is echoed on the report topic.
ForeignEcho(id) ==
  /\ idLive /\ Cardinality(echoes) < MaxEchoes
  /\ echoes' = echoes \cup {[id |-> id, nr |-> 0]}
  /\ UNCHANGED <<sequenceCounter, idLive, realClock, issued, awaiting, settled>>

\* is_answered_by (the commands of the model all have the same name)
AnsweredBy(p, e) == p.id = e.id

\* take_answered: the first pending command the echo answers.
ReadEcho(e) ==
  /\ idLive
  /\ echoes' = echoes \ {e}
  /\ LET hits == {i \in DOMAIN awaiting : AnsweredBy(awaiting[i], e)} IN
       IF hits = {} THEN UNCHANGED <<awaiting, settled>>
       ELSE LET i == Min(hits) IN
            /\ awaiting' = RemoveAt(awaiting, i)
            /\ settled' = settled \cup {<<e.nr, awaiting[i].nr>>}
  /\ UNCHANGED <<sequenceCounter, idLive, realClock, issued>>

\* next_unanswered past a deadline, or forget: the command's echo may follow.
GiveUp(i) ==
  /\ awaiting' = RemoveAt(awaiting, i)
  /\ UNCHANGED <<sequenceCounter, idLive, realClock, issued, echoes, settled>>

IdNext ==
  \/ ConnectAndReseed \/ SessionLost \/ WithTimer
  \/ \E p \in BOOLEAN : DispatchCommand(p)
  \/ \E id \in 0..(IdFloor - 1) : ForeignEcho(id)
  \/ \E e \in echoes : ReadEcho(e)
  \/ \E i \in DOMAIN awaiting : GiveUp(i)

IdSpec == IdInit /\ [][IdNext]_idVars

(***************************************************************************)
(* Properties.                                                              *)
(***************************************************************************)
\* An echo resolves the command it echoes and no other: not another client's
\* command (SEQUENCE_ID_FLOOR), not one whose id was minted again after a wrap
\* or a reseed (client/mod.rs:469).
EchoResolvesItsCommand == \A s \in settled : s[1] = s[2]

\* No two commands await an echo under one id, and none under an id the
\* firmware or another client has a claim to.
PendingIdsDistinct ==
  /\ \A i \in DOMAIN awaiting : awaiting[i].id \in IdRange
  /\ \A i, j \in DOMAIN awaiting : awaiting[i].id = awaiting[j].id => i = j

\* Sequence ids tell commands apart over wraps, reseeds and other clients: an
\* echo resolves the command it echoes, and no two await one under the same id
\* (client/mod.rs:469).
IdsTellApart == EchoResolvesItsCommand /\ PendingIdsDistinct
=============================================================================

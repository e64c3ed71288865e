------------------------------ MODULE Discovery ------------------------------
(***************************************************************************)
(* The SSDP sweep, discover_devices_with (src/discovery/mod.rs): bind both  *)
(* ports, send a burst of searches, then poll each port in turn until the   *)
(* window has passed, searching again at an interval.  A bind, a send, a    *)
(* receive and the timer's sleep can each fail; a receive may return at     *)
(* once or wait, and a printer is heard any number of times on either port. *)
(***************************************************************************)
EXTENDS Integers, Sequences, FiniteSets, SequencesExt

CONSTANTS
  Window,        \* the caller's timeout
  SearchEvery,   \* SSDP_REBROADCAST_INTERVAL_MS
  Backoff,       \* SSDP_POLL_BACKOFF_MS and SSDP_INTER_BURST_DELAY_MS
  Bursts,        \* SSDP_INITIAL_BURST_COUNT
  Printers,      \* serials on the network
  ReceiveMax,    \* bound: the longest a socket's receive waits (external)
  SendMax,       \* bound: the longest a round of searches takes
  SleepFailures  \* bound: times the timer's sleep fails

ASSUME SweepAssumption ==
  /\ {Window, SearchEvery, Backoff, ReceiveMax, SendMax, SleepFailures} \subseteq Nat
  /\ Backoff > 0 /\ SearchEvery > 0

Ports == <<2021, 1990>>

VARIABLES
  sweep,       \* "bind", "burst", "test", "poll", "done" or "failed"
  turn,        \* the port being bound, or the burst round, or the engine polled
  engines,     \* the ports bound, in order
  clock,       \* Timer::now_millis
  sweepStart, lastSearch, passStart,   \* instants
  seenSerials, \* BTreeSet of serials
  found,       \* devices: [serial, port]
  reported,    \* what on_device was called with
  sleepsFailed,\* history: sleeps that failed
  rested       \* history: is there a pass, and did all its sleeps work?

sweepVars == <<sweep, turn, engines, clock, sweepStart, lastSearch, passStart,
               seenSerials, found, reported, sleepsFailed, rested>>

SweepInit ==
  /\ sweep = "bind" /\ turn = 1 /\ engines = <<>> /\ clock = 0
  /\ sweepStart = 0 /\ lastSearch = 0 /\ passStart = 0
  /\ seenSerials = {} /\ found = <<>> /\ reported = <<>>
  /\ sleepsFailed = 0 /\ rested = FALSE

\* What follows the bind of one port.
\* (Mutant: the first failure ends the sweep.)
AfterBindMutant(bound, last) ==
  IF Len(bound) < turn THEN "failed" ELSE IF last THEN "burst" ELSE "bind"
AfterBind(bound, last) ==
  IF ~last THEN "bind" ELSE IF bound = <<>> THEN "failed" ELSE "burst"

BindPort(ok) ==
  /\ sweep = "bind"
  /\ engines' = IF ok THEN Append(engines, Ports[turn]) ELSE engines
  /\ sweep' = AfterBind(engines', turn = Len(Ports))
  /\ turn' = IF turn = Len(Ports) THEN 1 ELSE turn + 1
  /\ UNCHANGED <<clock, sweepStart, lastSearch, passStart, seenSerials, found, reported,
                 sleepsFailed, rested>>

\* Time spent waiting on a socket and in calls of pace, one per member of
\* `sleeps`: TRUE, or FALSE where the timer's sleep failed, which is logged and
\* passed over.
Times(sleeps, ok) == Cardinality({i \in DOMAIN sleeps : sleeps[i] = ok})
SleptIn(sleeps) == Backoff * Times(sleeps, TRUE)
Pace(spent, sleeps) ==
  LET failures == Times(sleeps, FALSE) IN
  /\ sleepsFailed + failures <= SleepFailures
  /\ clock' = clock + spent + SleptIn(sleeps)
  /\ sleepsFailed' = sleepsFailed + failures

\* One round of the initial burst: broadcast_all, then a pause.  What fails to
\* be sent is logged.
InitialBurst(send, slept) ==
  /\ sweep = "burst"
  /\ Pace(send, <<slept>>)
  /\ IF turn < Bursts THEN turn' = turn + 1 /\ UNCHANGED <<sweep, sweepStart, lastSearch, passStart>>
     ELSE /\ sweep' = "test" /\ turn' = 1
          /\ sweepStart' = clock' /\ lastSearch' = clock' /\ passStart' = clock'
  /\ UNCHANGED <<engines, seenSerials, found, reported, rested>>

\* (Mutant: a search is sent once the interval is exceeded by as much again.)
SearchDueMutant == clock - lastSearch >= 2 * SearchEvery
SearchDue == clock - lastSearch >= SearchEvery

\* The head of the listen loop, with the window still open.
\* (Mutant: the window is tested against the last search.)
WindowOpenMutant == clock - lastSearch < Window
WindowOpen == clock - sweepStart < Window

BeginPass(send) ==
  /\ sweep = "test" /\ WindowOpen
  /\ sweep' = "poll" /\ turn' = 1 /\ rested' = TRUE
  /\ passStart' = clock
  /\ IF SearchDue THEN clock' = clock + send /\ lastSearch' = clock'
     ELSE UNCHANGED <<clock, lastSearch>>
  /\ UNCHANGED <<engines, sweepStart, seenSerials, found, reported, sleepsFailed>>

EndSweep ==
  /\ sweep = "test" /\ ~WindowOpen
  /\ sweep' = "done"
  /\ UNCHANGED <<turn, engines, clock, sweepStart, lastSearch, passStart, seenSerials, found,
                 reported, sleepsFailed, rested>>

\* (Mutant: a port's printers are told apart from the other port's.)
NewPrinterMutant(serial, port) == [serial |-> serial, port |-> port] \notin ToSet(found)
NewPrinter(serial, port) == serial \notin seenSerials

\* A printer's datagram, parsed and stamped with the port it came in on.
Hear(serial, port) ==
  IF NewPrinter(serial, port)
  THEN LET device == [serial |-> serial, port |-> port] IN
       /\ seenSerials' = seenSerials \cup {serial}
       /\ reported' = Append(reported, device)
       /\ found' = Append(found, device)
  ELSE UNCHANGED <<seenSerials, reported, found>>

\* Does the pass pause once its last engine is polled?  (Mutant: never.)
PauseMutant(spent) == FALSE
Pause(spent) == turn = Len(engines) /\ clock + spent = passStart

\* The sleeps after a poll: one if it failed, one if the pass took no time.
SleepsAfter(spent, failed, ok1, ok2) ==
  LET backoff == IF failed THEN <<ok1>> ELSE <<>> IN
  backoff \o (IF Pause(spent + SleptIn(backoff)) THEN <<ok2>> ELSE <<>>)

\* poll_next_device: a printer, nothing (a timeout, a datagram that is no
\* printer's or has an impossible length), or a failure.
PollEngine(spent, failed, ok1, ok2) ==
  /\ sweep = "poll"
  /\ \/ UNCHANGED <<seenSerials, found, reported>>
     \/ ~failed /\ \E serial \in Printers : Hear(serial, engines[turn])
  /\ LET sleeps == SleepsAfter(spent, failed, ok1, ok2) IN
       /\ Pace(spent, sleeps)
       /\ rested' = (rested /\ FALSE \notin ToSet(sleeps))
  /\ IF turn < Len(engines) THEN turn' = turn + 1 /\ UNCHANGED sweep
     ELSE turn' = 1 /\ sweep' = "test"
  /\ UNCHANGED <<engines, sweepStart, lastSearch, passStart>>

SweepNext ==
  \/ \E b \in BOOLEAN : BindPort(b)
  \/ \E t \in 0..SendMax : BeginPass(t) \/ (\E b \in BOOLEAN : InitialBurst(t, b))
  \/ \E t \in 0..ReceiveMax, failed, ok1, ok2 \in BOOLEAN : PollEngine(t, failed, ok1, ok2)
  \/ EndSweep

SweepSpec == SweepInit /\ [][SweepNext]_sweepVars

(***************************************************************************)
(* Properties.                                                              *)
(***************************************************************************)
\* The longest one pass can take.
LongestPass == SendMax + (Len(engines) * (ReceiveMax + Backoff))

\* A printer heard on both ports, or often, is reported once; the callback has
\* been told exactly what the sweep will return, in the same order
\* (discovery/mod.rs:265).
EachPrinterOnce ==
  /\ \A i, j \in DOMAIN found : found[i].serial = found[j].serial => i = j
  /\ reported = found

\* One port that binds is enough, whichever it is: the sweep fails only when
\* every bind has failed (discovery/mod.rs:297).
OnePortIsEnough == (sweep = "failed") => (engines = <<>> /\ turn = 1)

\* The sweep outlives its window by less than one pass, and searches go out at
\* the interval give or take a pass, however the sockets behave.
SweepKeepsTime ==
  sweep \in {"test", "poll", "done"} =>
    /\ clock - sweepStart < Window + LongestPass
    /\ clock - lastSearch < SearchEvery + LongestPass \/ sweep = "done"

\* A pass whose sleeps worked takes time: a socket that answers at once, or
\* fails at once, does not turn the loop into a spin (discovery/mod.rs:57).
PassTakesTime == (sweep = "test" /\ rested) => clock > passStart

\* The sweep finds each printer once, works with one port, keeps to its window
\* and search interval, and never spins (discovery/mod.rs).
SweepSound == EachPrinterOnce /\ OnePortIsEnough /\ SweepKeepsTime /\ PassTakesTime
=============================================================================

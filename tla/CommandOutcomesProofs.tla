----------------------- MODULE CommandOutcomesProofs -----------------------
(* The tracker's books and its refinement of CommandLedger, for any number   *)
(* of commands and any limits.                                               *)
EXTENDS CommandOutcomes, SequenceTheorems, FiniteSetTheorems, TLAPS

----------------------------------------------------------------------------
(* Sequences as the sets of what is in them                                  *)

LEMMA SeqDomain ==
  ASSUME NEW S, NEW s \in Seq(S)
  PROVE  /\ Len(s) \in Nat
         /\ DOMAIN s = 1..Len(s)
         /\ \A i \in DOMAIN s : s[i] \in S /\ s[i] \in Range(s)
         /\ Range(s) \subseteq S
         /\ s = <<>> <=> Range(s) = {}
<1>1. Len(s) \in Nat /\ DOMAIN s = 1..Len(s) /\ \A i \in DOMAIN s : s[i] \in S
  BY LenProperties, ElementOfSeq
<1>2. (\A i \in DOMAIN s : s[i] \in Range(s)) /\ Range(s) \subseteq S
  BY <1>1, Zenon DEF Range
<1>3. ASSUME s # <<>> PROVE Range(s) # {}
  <2>1. 1 \in DOMAIN s
    BY <1>1, <1>3, EmptySeq
  <2>2. QED
    BY <1>2, <2>1
<1>4. ASSUME s = <<>> PROVE Range(s) = {}
  BY <1>4 DEF Range
<1>5. QED
  BY <1>1, <1>2, <1>3, <1>4

\* RemoveAt, element by element.
LEMMA RemoveAtElements ==
  ASSUME NEW S, NEW s \in Seq(S), NEW i \in DOMAIN s
  PROVE  /\ RemoveAt(s, i) \in Seq(S)
         /\ Len(RemoveAt(s, i)) = Len(s) - 1
         /\ DOMAIN RemoveAt(s, i) = 1..(Len(s) - 1)
         /\ \A k \in 1..(Len(s) - 1) : RemoveAt(s, i)[k] = IF k < i THEN s[k] ELSE s[k + 1]
<1> DEFINE u == SubSeq(s, 1, i - 1)
           v == SubSeq(s, i + 1, Len(s))
           t == u \o v
<1>1. i \in 1..Len(s) /\ Len(s) \in Nat /\ DOMAIN s = 1..Len(s)
  BY SeqDomain
<1>2. u \in Seq(S) /\ Len(u) = i - 1 /\ \A j \in 1..(i - 1) : u[j] = s[j]
  BY <1>1
<1>3. v \in Seq(S) /\ Len(v) = Len(s) - i /\ \A j \in 1..(Len(s) - i) : v[j] = s[j + i]
  BY <1>1
<1> HIDE DEF u, v
<1>4. /\ t \in Seq(S)
      /\ Len(t) = Len(u) + Len(v)
      /\ \A j \in 1..(Len(u) + Len(v)) : t[j] = IF j <= Len(u) THEN u[j] ELSE v[j - Len(u)]
  BY <1>2, <1>3, ConcatProperties
<1>5. Len(t) = Len(s) - 1
  BY <1>1, <1>2, <1>3, <1>4
<1>6. DOMAIN t = 1..(Len(s) - 1)
  BY <1>4, <1>5, LenProperties
<1> HIDE DEF t
<1>7. ASSUME NEW k \in 1..(Len(s) - 1) PROVE t[k] = IF k < i THEN s[k] ELSE s[k + 1]
  <2>1. t[k] = IF k <= Len(u) THEN u[k] ELSE v[k - Len(u)]
    BY <1>1, <1>2, <1>3, <1>4
  <2>2. CASE k < i
    BY <1>1, <1>2, <2>1, <2>2
  <2>3. CASE ~(k < i)
    <3>1. k - (i - 1) \in 1..(Len(s) - i) /\ (k - (i - 1)) + i = k + 1 /\ ~(k <= i - 1)
      BY <1>1, <2>3
    <3>2. t[k] = v[k - (i - 1)]
      BY <1>2, <2>1, <3>1
    <3>3. v[k - (i - 1)] = s[(k - (i - 1)) + i]
      BY <1>3, <3>1
    <3>4. QED
      BY <2>3, <3>1, <3>2, <3>3
  <2>4. QED
    BY <2>2, <2>3
<1>8. t = RemoveAt(s, i)
  BY DEF t, u, v, RemoveAt
<1>9. QED
  BY <1>4, <1>5, <1>6, <1>7, <1>8

\* Taking one entry out of a sequence without repetitions.
LEMMA RemoveAtSet ==
  ASSUME NEW S, NEW s \in Seq(S), IsInjective(s), NEW i \in DOMAIN s
  PROVE  /\ RemoveAt(s, i) \in Seq(S)
         /\ Len(RemoveAt(s, i)) = Len(s) - 1
         /\ IsInjective(RemoveAt(s, i))
         /\ Range(RemoveAt(s, i)) = Range(s) \ {s[i]}
<1> DEFINE t == RemoveAt(s, i)
           n == Len(s) - 1
           at(k) == IF k < i THEN k ELSE k + 1
<1>1. /\ Len(s) \in Nat /\ DOMAIN s = 1..Len(s) /\ i \in 1..Len(s)
  BY SeqDomain
<1>2. /\ t \in Seq(S) /\ Len(t) = n /\ DOMAIN t = 1..n
      /\ \A k \in 1..n : t[k] = s[at(k)]
  BY RemoveAtElements
<1>3. \A k \in 1..n : at(k) \in DOMAIN s /\ at(k) # i
  BY <1>1
<1>4. \A j, k \in 1..n : at(j) = at(k) => j = k
  BY <1>1
<1>5. \A m \in DOMAIN s : m # i => \E k \in 1..n : at(k) = m
  <2> SUFFICES ASSUME NEW m \in DOMAIN s, m # i PROVE \E k \in 1..n : at(k) = m
    OBVIOUS
  <2>1. CASE m < i
    BY <1>1, <2>1
  <2>2. CASE ~(m < i)
    <3>1. m - 1 \in 1..n /\ at(m - 1) = m
      BY <1>1, <2>2
    <3>2. QED
      BY <3>1
  <2>3. QED
    BY <2>1, <2>2
<1> HIDE DEF t, at, n
<1>6. IsInjective(t)
  <2> SUFFICES ASSUME NEW j \in 1..n, NEW k \in 1..n, t[j] = t[k] PROVE j = k
    BY <1>2 DEF IsInjective
  <2>1. s[at(j)] = s[at(k)] /\ at(j) \in DOMAIN s /\ at(k) \in DOMAIN s
    BY <1>2, <1>3
  <2>2. at(j) = at(k)
    BY <2>1 DEF IsInjective
  <2>3. QED
    BY <1>4, <2>2
<1>7. ASSUME NEW y \in Range(t) PROVE y \in Range(s) \ {s[i]}
  <2>1. PICK k \in 1..n : y = t[k]
    BY <1>2 DEF Range
  <2>2. y = s[at(k)] /\ at(k) \in DOMAIN s /\ at(k) # i
    BY <1>2, <1>3, <2>1
  <2>3. QED
    BY <2>2 DEF Range, IsInjective
<1>8. ASSUME NEW y \in Range(s), y # s[i] PROVE y \in Range(t)
  <2>1. PICK m \in DOMAIN s : y = s[m]
    BY DEF Range
  <2>2. PICK k \in 1..n : at(k) = m
    BY <1>5, <1>8, <2>1
  <2>3. y = t[k] /\ k \in DOMAIN t
    BY <1>2, <2>1, <2>2
  <2>4. QED
    BY <2>3 DEF Range
<1>9. QED
  BY <1>2, <1>6, <1>7, <1>8 DEF t, n

LEMMA AppendSet ==
  ASSUME NEW S, NEW s \in Seq(S), NEW x \in S
  PROVE  /\ Append(s, x) \in Seq(S)
         /\ Len(Append(s, x)) = Len(s) + 1
         /\ Range(Append(s, x)) = Range(s) \cup {x}
         /\ IsInjective(s) /\ x \notin Range(s) => IsInjective(Append(s, x))
<1> DEFINE t == Append(s, x)
           n == Len(s) + 1
<1>1. Len(s) \in Nat /\ DOMAIN s = 1..Len(s)
  BY SeqDomain
<1>2. t \in Seq(S) /\ Len(t) = n /\ (\A i \in DOMAIN s : t[i] = s[i]) /\ t[n] = x
  BY <1>1, AppendProperties
<1>3. DOMAIN t = DOMAIN s \cup {n}
  BY <1>1, <1>2, SeqDomain
<1>4. n \notin DOMAIN s
  BY <1>1
<1> HIDE DEF t, n
<1>5. Range(t) = Range(s) \cup {x}
  <2>1. \A i \in DOMAIN t : t[i] \in Range(s) \cup {x}
    BY <1>2, <1>3 DEF Range
  <2>2. \A i \in DOMAIN s : s[i] \in Range(t)
    BY <1>2, <1>3 DEF Range
  <2>3. x \in Range(t)
    BY <1>2, <1>3 DEF Range
  <2>4. QED
    BY <2>1, <2>2, <2>3 DEF Range
<1>6. ASSUME IsInjective(s), x \notin Range(s) PROVE IsInjective(t)
  BY <1>2, <1>3, <1>6, Zenon DEF Range, IsInjective
<1>7. QED
  BY <1>2, <1>5, <1>6 DEF t, n

LEMMA TailSet ==
  ASSUME NEW S, NEW s \in Seq(S), s # <<>>
  PROVE  /\ 1 \in DOMAIN s /\ Head(s) = s[1]
         /\ Tail(s) = RemoveAt(s, 1)
         /\ Len(s) > 0
<1>1. Len(s) \in Nat \ {0} /\ DOMAIN s = 1..Len(s)
  BY SeqDomain, EmptySeq
<1>2. 1 \in DOMAIN s /\ Head(s) = s[1] /\ Len(s) > 0
  BY <1>1
<1>3. /\ Tail(s) \in Seq(S) /\ Len(Tail(s)) = Len(s) - 1
      /\ \A k \in 1..(Len(s) - 1) : Tail(s)[k] = s[k + 1]
  BY HeadTailProperties
<1>4. /\ RemoveAt(s, 1) \in Seq(S) /\ Len(RemoveAt(s, 1)) = Len(s) - 1
      /\ \A k \in 1..(Len(s) - 1) : RemoveAt(s, 1)[k] = IF k < 1 THEN s[k] ELSE s[k + 1]
  BY <1>2, RemoveAtElements
<1>5. Tail(s) = RemoveAt(s, 1)
  <2>1. \A k \in 1..(Len(s) - 1) : RemoveAt(s, 1)[k] = Tail(s)[k]
    BY <1>1, <1>3, <1>4
  <2>2. QED
    BY <1>3, <1>4, <2>1, SeqEqual
<1>6. QED
  BY <1>2, <1>5

LEMMA ConcatSet ==
  ASSUME NEW S, NEW s \in Seq(S), NEW t \in Seq(S)
  PROVE  /\ s \o t \in Seq(S)
         /\ Range(s \o t) = Range(s) \cup Range(t)
         /\ IsInjective(s) /\ IsInjective(t) /\ Range(s) \cap Range(t) = {}
              => IsInjective(s \o t)
<1> DEFINE c == s \o t
           m == Len(s)
<1>1. /\ m \in Nat /\ DOMAIN s = 1..m
      /\ Len(t) \in Nat /\ DOMAIN t = 1..Len(t)
  BY SeqDomain
<1>2. /\ c \in Seq(S) /\ Len(c) = m + Len(t)
      /\ \A i \in 1..(m + Len(t)) : c[i] = IF i <= m THEN s[i] ELSE t[i - m]
  BY ConcatProperties
<1>3. DOMAIN c = 1..(m + Len(t))
  BY <1>2, SeqDomain
<1> HIDE DEF c, m
<1>4. \A i \in DOMAIN c : \/ i \in DOMAIN s /\ c[i] = s[i]
                          \/ i - m \in DOMAIN t /\ i \notin DOMAIN s /\ c[i] = t[i - m]
  BY <1>1, <1>2, <1>3
<1>5. \A i \in DOMAIN s : i \in DOMAIN c /\ c[i] = s[i]
  BY <1>1, <1>2, <1>3
<1>6. \A j \in DOMAIN t : j + m \in DOMAIN c /\ c[j + m] = t[j]
  <2> TAKE j \in DOMAIN t
  <2>1. j + m \in 1..(m + Len(t)) /\ ~(j + m <= m) /\ (j + m) - m = j
    BY <1>1
  <2>2. QED
    BY <1>2, <1>3, <2>1
<1>7. \A i, j \in DOMAIN c : i - m = j - m => i = j
  BY <1>1, <1>3
<1>8. Range(c) = Range(s) \cup Range(t)
  <2>1. Range(c) \subseteq Range(s) \cup Range(t)
    BY <1>4, Zenon DEF Range
  <2>2. Range(s) \subseteq Range(c) /\ Range(t) \subseteq Range(c)
    BY <1>5, <1>6, Zenon DEF Range
  <2>3. QED
    BY <2>1, <2>2
<1>9. ASSUME IsInjective(s), IsInjective(t), Range(s) \cap Range(t) = {}
      PROVE  IsInjective(c)
  <2> SUFFICES ASSUME NEW i \in DOMAIN c, NEW j \in DOMAIN c, c[i] = c[j] PROVE i = j
    BY DEF IsInjective
  <2>1. CASE i \in DOMAIN s /\ j \in DOMAIN s
    BY <1>4, <1>5, <1>9, <2>1, Zenon DEF IsInjective
  <2>2. CASE i \notin DOMAIN s /\ j \notin DOMAIN s
    <3>1. i - m \in DOMAIN t /\ j - m \in DOMAIN t /\ t[i - m] = t[j - m]
      BY <1>4, <2>2
    <3>2. i - m = j - m
      BY <1>9, <3>1, Zenon DEF IsInjective
    <3>3. QED
      BY <1>7, <3>2
  <2>3. CASE i \in DOMAIN s /\ j \notin DOMAIN s
    <3>1. c[i] \in Range(s) /\ c[j] \in Range(t)
      BY <1>4, <1>5, <2>3, Zenon DEF Range
    <3>2. QED
      BY <1>9, <3>1
  <2>4. CASE i \notin DOMAIN s /\ j \in DOMAIN s
    <3>1. c[i] \in Range(t) /\ c[j] \in Range(s)
      BY <1>4, <1>5, <2>4, Zenon DEF Range
    <3>2. QED
      BY <1>9, <3>1
  <2>5. QED
    BY <2>1, <2>2, <2>3, <2>4
<1>10. QED
  BY <1>2, <1>8, <1>9 DEF c

----------------------------------------------------------------------------
(* The inductive invariant                                                   *)

\* The handles of queued resolutions.
HandlesOf(r) == [i \in DOMAIN r |-> r[i].handle]
Pending == Range(pending)
Ready == Range(HandlesOf(ready))
Told == {h \in Handles : told[h] # <<>>}

\* Every command dispatch returned is in one of three places, once.
PlacesInv ==
  /\ IsInjective(pending) /\ IsInjective(HandlesOf(ready))
  /\ Pending \cap Ready = {} /\ Pending \cap Told = {} /\ Ready \cap Told = {}
  /\ tracked = Pending \cup Ready \cup Told
  /\ \A h \in Handles : Len(told[h]) <= 1
  /\ ResolvedAgrees

\* What the running future knows: a command being published is new; one that is
\* awaited is still pending, since no session boundary can have come between;
\* without a session nothing is pending, unless it is being closed.
FutureInv ==
  /\ fut.at = "publish" => fut.h \in (1..minted) \ tracked
  /\ fut.op = "dispatch" /\ fut.at \in {"dial", "pushall", "go"} => minted < MaxHandles
  /\ fut.op = "ack" => fut.at \in {"go", "wait"} /\ fut.h \in Pending
  /\ fut.op = "request" => fut.h = NoHandle
  /\ fut.at = "wait" => fut.op \in {"ack", "request"}
  /\ fut.at \in {"go", "pushall", "publish", "read", "wait"} => mqtt
  /\ ~mqtt /\ fut.at \notin {"close", "closed"} => pending = <<>>

\* The buffer belongs to a session, is empty when poll_telemetry reads, and
\* does not hold the echo await_ack waits for.
BufferInv ==
  /\ buffered # <<>> => mqtt
  /\ fut.op = "poll" => buffered = <<>>
  /\ fut.op = "ack" /\ fut.at = "wait" => fut.h \notin Range(buffered)

TrackerInv == TypeOK /\ PlacesInv /\ FutureInv /\ BufferInv

LEMMA ResolutionFields ==
  ASSUME NEW r \in Resolution
  PROVE  r.handle \in Handles /\ r.outcome \in Outcome
BY DEF Resolution

LEMMA ResolveIsResolution ==
  ASSUME NEW h \in Handles, NEW o \in Outcome
  PROVE  /\ Resolve(h, o) \in Resolution
         /\ Resolve(h, o).handle = h /\ Resolve(h, o).outcome = o
BY DEF Resolve, Resolution

LEMMA HandlesOfSeq ==
  ASSUME NEW r \in Seq(Resolution)
  PROVE  /\ HandlesOf(r) \in Seq(Handles)
         /\ Len(HandlesOf(r)) = Len(r)
         /\ DOMAIN HandlesOf(r) = DOMAIN r
         /\ \A i \in DOMAIN r : HandlesOf(r)[i] = r[i].handle
<1>1. Len(r) \in Nat /\ DOMAIN r = 1..Len(r) /\ \A i \in DOMAIN r : r[i] \in Resolution
  BY SeqDomain
<1>2. \A i \in DOMAIN r : r[i].handle \in Handles
  BY <1>1, ResolutionFields
<1>3. HandlesOf(r) \in [1..Len(r) -> Handles]
  BY <1>1, <1>2 DEF HandlesOf
<1>4. HandlesOf(r) \in Seq(Handles)
  BY <1>1, <1>3, SeqDef
<1>5. DOMAIN HandlesOf(r) = 1..Len(r)
  BY <1>3
<1>6. Len(HandlesOf(r)) = Len(r)
  BY <1>1, <1>4, <1>5, LenProperties
<1>7. QED
  BY <1>1, <1>4, <1>5, <1>6 DEF HandlesOf

LEMMA HandlesOfRemoveAt ==
  ASSUME NEW r \in Seq(Resolution), NEW i \in DOMAIN r
  PROVE  HandlesOf(RemoveAt(r, i)) = RemoveAt(HandlesOf(r), i)
<1> DEFINE q == RemoveAt(r, i)
           a == HandlesOf(q)
           b == RemoveAt(HandlesOf(r), i)
           n == Len(r) - 1
<1>0. Len(r) \in Nat /\ DOMAIN r = 1..Len(r)
  BY SeqDomain
<1>1. /\ q \in Seq(Resolution) /\ Len(q) = n /\ DOMAIN q = 1..n
      /\ \A k \in 1..n : q[k] = IF k < i THEN r[k] ELSE r[k + 1]
  BY RemoveAtElements
<1>2. /\ HandlesOf(r) \in Seq(Handles) /\ Len(HandlesOf(r)) = Len(r)
      /\ i \in DOMAIN HandlesOf(r)
      /\ \A k \in DOMAIN r : HandlesOf(r)[k] = r[k].handle
  BY HandlesOfSeq
<1>3. /\ b \in Seq(Handles) /\ Len(b) = n
      /\ \A k \in 1..n : b[k] = IF k < i THEN HandlesOf(r)[k] ELSE HandlesOf(r)[k + 1]
  BY <1>2, RemoveAtElements
<1>4. a \in Seq(Handles) /\ Len(a) = n /\ \A k \in 1..n : a[k] = q[k].handle
  BY <1>1, HandlesOfSeq
<1> HIDE DEF q, a, b
<1>5. ASSUME NEW k \in 1..n PROVE a[k] = b[k]
  <2>1. k \in DOMAIN r /\ k + 1 \in DOMAIN r
    BY <1>0
  <2>2. a[k] = (IF k < i THEN r[k] ELSE r[k + 1]).handle
    BY <1>1, <1>4
  <2>3. b[k] = IF k < i THEN r[k].handle ELSE r[k + 1].handle
    BY <1>2, <1>3, <2>1
  <2>4. QED
    BY <2>2, <2>3
<1>6. a = b
  BY <1>3, <1>4, <1>5, SeqEqual
<1>7. QED
  BY <1>6 DEF a, b, q

LEMMA HandlesOfAppend ==
  ASSUME NEW r \in Seq(Resolution), NEW x \in Resolution
  PROVE  HandlesOf(Append(r, x)) = Append(HandlesOf(r), x.handle)
<1> DEFINE q == Append(r, x)
           a == HandlesOf(q)
           b == Append(HandlesOf(r), x.handle)
           n == Len(r) + 1
<1>0. Len(r) \in Nat /\ DOMAIN r = 1..Len(r) /\ x.handle \in Handles
  BY SeqDomain, ResolutionFields
<1>1. /\ q \in Seq(Resolution) /\ Len(q) = n
      /\ (\A k \in 1..Len(r) : q[k] = r[k]) /\ q[n] = x
  BY AppendProperties
<1>2. /\ HandlesOf(r) \in Seq(Handles) /\ Len(HandlesOf(r)) = Len(r)
      /\ \A k \in DOMAIN r : HandlesOf(r)[k] = r[k].handle
  BY HandlesOfSeq
<1>3. /\ b \in Seq(Handles) /\ Len(b) = n
      /\ (\A k \in 1..Len(r) : b[k] = HandlesOf(r)[k]) /\ b[n] = x.handle
  BY <1>0, <1>2, AppendProperties
<1>4. DOMAIN q = 1..n
  BY <1>1, SeqDomain
<1>5. a \in Seq(Handles) /\ Len(a) = n /\ \A k \in 1..n : a[k] = q[k].handle
  BY <1>1, <1>4, HandlesOfSeq
<1> HIDE DEF q, a, b
<1>6. ASSUME NEW k \in 1..n PROVE a[k] = b[k]
  <2>1. CASE k = n
    BY <1>1, <1>3, <1>5, <2>1
  <2>2. CASE k \in 1..Len(r)
    <3>1. a[k] = r[k].handle
      BY <1>1, <1>5, <2>2
    <3>2. b[k] = r[k].handle
      BY <1>0, <1>2, <1>3, <2>2
    <3>3. QED
      BY <3>1, <3>2
  <2>3. QED
    BY <1>0, <2>1, <2>2
<1>7. a = b
  BY <1>3, <1>5, <1>6, SeqEqual
<1>8. QED
  BY <1>7 DEF a, b, q

\* connection_ended moves the pending commands, in order, to ready.
LEMMA LostSeq ==
  ASSUME pending \in Seq(Handles), ready \in Seq(Resolution)
  PROVE  /\ Lost \in Seq(Resolution)
         /\ ready \o Lost \in Seq(Resolution)
         /\ HandlesOf(ready \o Lost) = HandlesOf(ready) \o pending
<1> DEFINE q == ready \o Lost
           a == HandlesOf(q)
           b == HandlesOf(ready) \o pending
           m == Len(ready)
           n == m + Len(pending)
<1>0. /\ m \in Nat /\ DOMAIN ready = 1..m
      /\ Len(pending) \in Nat /\ DOMAIN pending = 1..Len(pending)
      /\ \A i \in DOMAIN pending : pending[i] \in Handles
  BY SeqDomain
<1>1. \A i \in DOMAIN pending : Lost[i] \in Resolution /\ Lost[i].handle = pending[i]
  BY <1>0, ResolveIsResolution DEF Lost, Outcome
<1>2. Lost \in Seq(Resolution) /\ Len(Lost) = Len(pending)
  <2>1. Lost \in [1..Len(pending) -> Resolution]
    BY <1>0, <1>1 DEF Lost
  <2>2. Lost \in Seq(Resolution)
    BY <1>0, <2>1, SeqDef
  <2>3. QED
    BY <1>0, <2>1, <2>2, LenProperties
<1>3. /\ q \in Seq(Resolution) /\ Len(q) = n
      /\ \A k \in 1..n : q[k] = IF k <= m THEN ready[k] ELSE Lost[k - m]
  <2>1. /\ q \in Seq(Resolution) /\ Len(q) = Len(ready) + Len(Lost)
        /\ \A k \in 1..(Len(ready) + Len(Lost)) :
             q[k] = IF k <= Len(ready) THEN ready[k] ELSE Lost[k - Len(ready)]
    BY <1>2, ConcatProperties
  <2>2. QED
    BY <1>2, <2>1, Zenon
<1>4. /\ HandlesOf(ready) \in Seq(Handles) /\ Len(HandlesOf(ready)) = m
      /\ \A k \in DOMAIN ready : HandlesOf(ready)[k] = ready[k].handle
  BY HandlesOfSeq
<1>5. /\ b \in Seq(Handles) /\ Len(b) = n
      /\ \A k \in 1..n : b[k] = IF k <= m THEN HandlesOf(ready)[k] ELSE pending[k - m]
  <2>1. /\ b \in Seq(Handles) /\ Len(b) = Len(HandlesOf(ready)) + Len(pending)
        /\ \A k \in 1..(Len(HandlesOf(ready)) + Len(pending)) :
             b[k] = IF k <= Len(HandlesOf(ready)) THEN HandlesOf(ready)[k]
                    ELSE pending[k - Len(HandlesOf(ready))]
    BY <1>4, ConcatProperties
  <2>2. QED
    BY <1>4, <2>1, Zenon
<1>6. DOMAIN q = 1..n
  BY <1>3, SeqDomain
<1>7. a \in Seq(Handles) /\ Len(a) = n /\ \A k \in 1..n : a[k] = q[k].handle
  BY <1>3, <1>6, HandlesOfSeq
<1> HIDE DEF q, a, b
<1>8. ASSUME NEW k \in 1..n PROVE a[k] = b[k]
  <2>1. CASE k <= m
    <3>1. k \in DOMAIN ready
      BY <1>0, <2>1
    <3>2. a[k] = ready[k].handle
      BY <1>3, <1>7, <2>1
    <3>3. b[k] = ready[k].handle
      BY <1>4, <1>5, <2>1, <3>1
    <3>4. QED
      BY <3>2, <3>3
  <2>2. CASE ~(k <= m)
    <3>1. k - m \in DOMAIN pending
      BY <1>0, <2>2
    <3>2. QED
      BY <1>1, <1>3, <1>5, <1>7, <2>2, <3>1
  <2>3. QED
    BY <2>1, <2>2
<1>9. a = b
  BY <1>5, <1>7, <1>8, SeqEqual
<1>10. QED
  BY <1>2, <1>3, <1>9 DEF a, b, q

----------------------------------------------------------------------------
(* What a step can do to the books                                           *)

BooksType ==
  /\ pending \in Seq(Handles) /\ Len(pending) <= PendingLimit
  /\ ready \in Seq(Resolution)
  /\ resolved \in Seq(Resolution) /\ Len(resolved) <= ResolvedLimit
  /\ told \in [Handles -> Seq(Outcome)]
Books == BooksType /\ PlacesInv

\* The caller is given h's outcome, as an event (which is remembered) or as the
\* result of await_ack (which is not).
Deliver(h, o) == Tell(h, o) /\ (Remember(Resolve(h, o)) \/ UNCHANGED resolved)

FromPending ==
  \E i \in DOMAIN pending, o \in Outcome :
    /\ pending' = RemoveAt(pending, i)
    /\ Deliver(pending[i], o)
    /\ UNCHANGED <<ready, tracked>>

FromReady ==
  \E i \in DOMAIN ready :
    /\ ready' = RemoveAt(ready, i)
    /\ Deliver(ready[i].handle, ready[i].outcome)
    /\ UNCHANGED <<pending, tracked>>

SessionEnds == BeginConnection /\ UNCHANGED <<told, tracked>>

BooksUnchanged == UNCHANGED <<tracker, told, tracked>>

LEMMA BooksSets ==
  ASSUME BooksType
  PROVE  /\ Pending \subseteq Handles /\ Ready \subseteq Handles /\ Told \subseteq Handles
         /\ \A i \in DOMAIN pending : pending[i] \in Pending
         /\ \A i \in DOMAIN ready : ready[i].handle \in Ready /\ ready[i].outcome \in Outcome
<1>1. Pending \subseteq Handles /\ \A i \in DOMAIN pending : pending[i] \in Pending
  BY SeqDomain DEF BooksType, Pending
<1>2. /\ HandlesOf(ready) \in Seq(Handles)
      /\ DOMAIN HandlesOf(ready) = DOMAIN ready
      /\ \A i \in DOMAIN ready : HandlesOf(ready)[i] = ready[i].handle
  BY HandlesOfSeq DEF BooksType
<1>3. Ready \subseteq Handles /\ \A i \in DOMAIN ready : ready[i].handle \in Ready
  BY <1>2, SeqDomain DEF Ready
<1>4. \A i \in DOMAIN ready : ready[i].outcome \in Outcome
  BY SeqDomain, ResolutionFields DEF BooksType
<1>5. QED
  BY <1>1, <1>3, <1>4 DEF Told

\* A first outcome settles one command and contradicts nothing remembered.
LEMMA DeliverKeeps ==
  ASSUME Books, NEW h \in Handles, NEW o \in Outcome, told[h] = <<>>, Deliver(h, o)
  PROVE  /\ told' = [told EXCEPT ![h] = <<o>>]
         /\ told' \in [Handles -> Seq(Outcome)]
         /\ Told' = Told \cup {h}
         /\ \A g \in Handles : Len(told'[g]) <= 1
         /\ resolved' \in Seq(Resolution) /\ Len(resolved') <= ResolvedLimit
         /\ ResolvedAgrees'
<1> USE DEF Books, BooksType
<1>1. told' = [told EXCEPT ![h] = <<o>>]
  BY DEF Deliver, Tell
<1>2. /\ <<o>> \in Seq(Outcome) /\ Len(<<o>>) = 1 /\ <<o>> # <<>>
  OBVIOUS
<1>3. told' \in [Handles -> Seq(Outcome)]
  BY <1>1, <1>2
<1>4. \A g \in Handles : told'[g] = IF g = h THEN <<o>> ELSE told[g]
  BY <1>1
<1>5. Told' = Told \cup {h}
  BY <1>2, <1>4 DEF Told
<1>6. ASSUME NEW g \in Handles PROVE Len(told'[g]) <= 1
  <2>1. CASE g = h
    <3>1. told'[g] = <<o>>
      BY <1>4, <2>1
    <3>2. Len(<<o>>) <= 1
      OBVIOUS
    <3>3. QED
      BY <3>1, <3>2, Zenon
  <2>2. CASE g # h
    BY <1>4, <2>2 DEF PlacesInv
  <2>3. QED
    BY <2>1, <2>2
<1>7. \A i \in DOMAIN resolved : /\ resolved[i].handle \in Handles
                                 /\ told'[resolved[i].handle] = <<resolved[i].outcome>>
  <2> SUFFICES ASSUME NEW i \in DOMAIN resolved
               PROVE  /\ resolved[i].handle \in Handles
                      /\ told'[resolved[i].handle] = <<resolved[i].outcome>>
    OBVIOUS
  <2>1. resolved[i].handle \in Handles
    BY SeqDomain, ResolutionFields
  <2>2. told[resolved[i].handle] = <<resolved[i].outcome>>
    BY DEF PlacesInv, ResolvedAgrees
  <2>3. resolved[i].handle # h
    <3>1. \A x : <<x>> # <<>>
      OBVIOUS
    <3>2. QED
      BY <2>2, <3>1
  <2>4. QED
    BY <1>4, <2>1, <2>2, <2>3
<1>8. CASE UNCHANGED resolved
  BY <1>3, <1>1, <1>5, <1>6, <1>7, <1>8 DEF ResolvedAgrees
<1>9. CASE Remember(Resolve(h, o))
  <2> DEFINE kept == IF Len(resolved) >= ResolvedLimit THEN Tail(resolved) ELSE resolved
  <2>1. /\ Resolve(h, o) \in Resolution
        /\ Resolve(h, o).handle = h /\ Resolve(h, o).outcome = o
    BY ResolveIsResolution
  <2>2. /\ kept \in Seq(Resolution) /\ Len(kept) < ResolvedLimit
        /\ \A k \in DOMAIN kept : \E i \in DOMAIN resolved : kept[k] = resolved[i]
    <3>0. Len(resolved) \in Nat /\ DOMAIN resolved = 1..Len(resolved)
      BY SeqDomain
    <3>1. CASE Len(resolved) >= ResolvedLimit
      <4>1. resolved # <<>>
        BY <3>1, LimitAssumption
      <4>2. /\ Tail(resolved) \in Seq(Resolution) /\ Len(Tail(resolved)) = Len(resolved) - 1
            /\ \A k \in 1..Len(Tail(resolved)) : Tail(resolved)[k] = resolved[k + 1]
        BY <4>1, HeadTailProperties
      <4>3. DOMAIN Tail(resolved) = 1..(Len(resolved) - 1)
        BY <4>2, SeqDomain
      <4>4. \A k \in DOMAIN Tail(resolved) :
              k + 1 \in DOMAIN resolved /\ Tail(resolved)[k] = resolved[k + 1]
        BY <3>0, <4>2, <4>3
      <4>5. kept = Tail(resolved)
        BY <3>1
      <4>6. Len(resolved) - 1 < ResolvedLimit
        BY <3>0, LimitAssumption
      <4>7. QED
        BY <4>2, <4>4, <4>5, <4>6
    <3>2. CASE ~(Len(resolved) >= ResolvedLimit)
      BY <3>0, <3>2, LimitAssumption
    <3>3. QED
      BY <3>1, <3>2
  <2>3. resolved' = Append(kept, Resolve(h, o))
    BY <1>9 DEF Remember
  <2> HIDE DEF kept
  <2>4. /\ resolved' \in Seq(Resolution) /\ Len(resolved') = Len(kept) + 1
        /\ DOMAIN resolved' = 1..(Len(kept) + 1)
        /\ \A k \in 1..Len(kept) : resolved'[k] = kept[k]
        /\ resolved'[Len(kept) + 1] = Resolve(h, o)
    BY <2>1, <2>2, <2>3, AppendProperties, SeqDomain
  <2>5. Len(kept) \in Nat /\ DOMAIN kept = 1..Len(kept)
    BY <2>2, SeqDomain
  <2>6. Len(resolved') <= ResolvedLimit
    BY <2>2, <2>4, <2>5, LimitAssumption
  <2>7. ASSUME NEW k \in DOMAIN resolved'
        PROVE  told'[resolved'[k].handle] = <<resolved'[k].outcome>>
    <3>1. CASE k = Len(kept) + 1
      BY <1>4, <2>1, <2>4, <3>1
    <3>2. CASE k \in 1..Len(kept)
      <4>1. PICK i \in DOMAIN resolved : kept[k] = resolved[i]
        BY <2>2, <2>5, <3>2
      <4>2. resolved'[k] = resolved[i]
        BY <2>4, <3>2, <4>1
      <4>3. QED
        BY <1>7, <4>2
    <3>3. QED
      BY <2>4, <2>5, <3>1, <3>2
  <2>8. QED
    BY <1>1, <1>3, <1>5, <1>6, <2>4, <2>6, <2>7 DEF ResolvedAgrees
<1>10. QED
  BY <1>8, <1>9 DEF Deliver

LEMMA FromPendingKeeps == Books /\ FromPending => Books'
<1> SUFFICES ASSUME Books, NEW i \in DOMAIN pending, NEW o \in Outcome,
                    pending' = RemoveAt(pending, i),
                    Deliver(pending[i], o),
                    UNCHANGED <<ready, tracked>>
             PROVE  Books'
  BY DEF FromPending
<1> DEFINE h == pending[i]
<1>1. /\ h \in Pending /\ h \in Handles /\ h \notin Told /\ h \notin Ready
      /\ Pending \subseteq Handles
  BY BooksSets DEF Books, PlacesInv
<1>2. told[h] = <<>>
  BY <1>1 DEF Told
<1>3. /\ Told' = Told \cup {h} /\ told' \in [Handles -> Seq(Outcome)]
      /\ \A g \in Handles : Len(told'[g]) <= 1
      /\ resolved' \in Seq(Resolution) /\ Len(resolved') <= ResolvedLimit
      /\ ResolvedAgrees'
  BY <1>1, <1>2, DeliverKeeps
<1>4. /\ pending' \in Seq(Handles) /\ Len(pending') = Len(pending) - 1
      /\ IsInjective(pending') /\ Pending' = Pending \ {h}
  BY RemoveAtSet DEF Books, BooksType, PlacesInv, Pending
<1>5. Len(pending') <= PendingLimit
  BY <1>4, SeqDomain, LimitAssumption DEF Books, BooksType
<1>6. ready' = ready /\ Ready' = Ready /\ tracked' = tracked
  BY DEF Ready
<1>7. BooksType'
  BY <1>3, <1>4, <1>5, <1>6 DEF Books, BooksType
<1>8. PlacesInv'
  BY <1>1, <1>3, <1>4, <1>6 DEF Books, PlacesInv
<1>9. QED
  BY <1>7, <1>8 DEF Books

LEMMA FromReadyKeeps == Books /\ FromReady => Books'
<1> SUFFICES ASSUME Books, NEW i \in DOMAIN ready,
                    ready' = RemoveAt(ready, i),
                    Deliver(ready[i].handle, ready[i].outcome),
                    UNCHANGED <<pending, tracked>>
             PROVE  Books'
  BY DEF FromReady
<1> DEFINE h == ready[i].handle
<1>1. /\ h \in Ready /\ h \in Handles /\ h \notin Told /\ h \notin Pending
      /\ Ready \subseteq Handles /\ ready[i].outcome \in Outcome
  BY BooksSets DEF Books, PlacesInv
<1>2. told[h] = <<>>
  BY <1>1 DEF Told
<1>3. /\ Told' = Told \cup {h} /\ told' \in [Handles -> Seq(Outcome)]
      /\ \A g \in Handles : Len(told'[g]) <= 1
      /\ resolved' \in Seq(Resolution) /\ Len(resolved') <= ResolvedLimit
      /\ ResolvedAgrees'
  BY <1>1, <1>2, DeliverKeeps
<1>4. /\ HandlesOf(ready) \in Seq(Handles) /\ i \in DOMAIN HandlesOf(ready)
      /\ HandlesOf(ready)[i] = h
  BY HandlesOfSeq DEF Books, BooksType
<1>5. HandlesOf(ready') = RemoveAt(HandlesOf(ready), i)
  BY HandlesOfRemoveAt DEF Books, BooksType
<1>6. IsInjective(HandlesOf(ready')) /\ Ready' = Ready \ {h}
  BY <1>4, <1>5, RemoveAtSet DEF Books, PlacesInv, Ready
<1>7. ready' \in Seq(Resolution)
  BY RemoveAtElements DEF Books, BooksType
<1>8. pending' = pending /\ Pending' = Pending /\ tracked' = tracked
  BY DEF Pending
<1>9. BooksType'
  BY <1>3, <1>7, <1>8 DEF Books, BooksType
<1>10. PlacesInv'
  BY <1>1, <1>3, <1>6, <1>8 DEF Books, PlacesInv
<1>11. QED
  BY <1>9, <1>10 DEF Books

LEMMA SessionEndsKeeps ==
  Books /\ SessionEnds => Books' /\ pending' = <<>>
<1> SUFFICES ASSUME Books, SessionEnds PROVE Books' /\ pending' = <<>>
  OBVIOUS
<1>1. /\ ready' = ready \o Lost /\ pending' = <<>>
      /\ UNCHANGED <<resolved, told, tracked>>
  BY DEF SessionEnds, BeginConnection
<1>2. /\ ready' \in Seq(Resolution) /\ HandlesOf(ready') = HandlesOf(ready) \o pending
  BY <1>1, LostSeq DEF Books, BooksType
<1>3. HandlesOf(ready) \in Seq(Handles)
  BY HandlesOfSeq DEF Books, BooksType
<1>4. Ready' = Ready \cup Pending /\ IsInjective(HandlesOf(ready'))
  BY <1>2, <1>3, ConcatSet DEF Books, BooksType, PlacesInv, Ready, Pending
<1>5. /\ pending' \in Seq(Handles) /\ Len(pending') <= PendingLimit
      /\ IsInjective(pending') /\ Pending' = {}
  <2>1. pending' \in Seq(Handles) /\ Len(pending') = 0
    BY <1>1, EmptySeq
  <2>2. DOMAIN pending' = {}
    BY <1>1
  <2>3. QED
    BY <2>1, <2>2, LimitAssumption DEF IsInjective, Pending, Range
<1>6. Told' = Told /\ ResolvedAgrees'
  BY <1>1 DEF Told, Books, PlacesInv, ResolvedAgrees
<1>7. QED
  BY <1>1, <1>2, <1>4, <1>5, <1>6 DEF Books, BooksType, PlacesInv

LEMMA BooksUnchangedKeeps == Books /\ BooksUnchanged => Books'
BY DEF Books, BooksType, PlacesInv, BooksUnchanged, tracker, Pending, Ready, Told, ResolvedAgrees

\* track: the new command is pending, and at the limit the oldest is queued as
\* timed out.
LEMMA PublishedKeeps ==
  ASSUME TrackerInv, Published
  PROVE  Books' /\ tracked' \subseteq 1..minted
<1> DEFINE h == fut.h
           rest == IF Full THEN Tail(pending) ELSE pending
           queue == IF Full THEN Append(ready, Resolve(Head(pending), "TimedOut")) ELSE ready
<1> USE DEF Books
<1>0. BooksType /\ PlacesInv
  BY DEF TrackerInv, TypeOK, BooksType
<1>1. h \in 1..minted /\ h \notin tracked /\ h \in Handles
  <2>1. h \in (1..minted) \ tracked
    BY DEF TrackerInv, FutureInv, Published
  <2>2. minted \in 0..MaxHandles /\ MaxHandles \in Nat
    BY LimitAssumption DEF TrackerInv, TypeOK
  <2>3. QED
    BY <2>1, <2>2 DEF Handles
<1>2. /\ pending' = Append(rest, h) /\ ready' = queue
      /\ tracked' = tracked \cup {h} /\ UNCHANGED <<resolved, told>>
  BY DEF Published
<1>3. Len(pending) \in Nat /\ pending \in Seq(Handles) /\ ready \in Seq(Resolution)
  BY <1>0, SeqDomain DEF BooksType
<1>4. Pending \subseteq tracked /\ Ready \subseteq tracked /\ Told \subseteq tracked
  BY <1>0 DEF PlacesInv
<1>5. /\ rest \in Seq(Handles) /\ Len(rest) < PendingLimit /\ IsInjective(rest)
      /\ queue \in Seq(Resolution) /\ IsInjective(HandlesOf(queue))
      /\ Range(rest) \cap Range(HandlesOf(queue)) = {}
      /\ Range(rest) \cup Range(HandlesOf(queue)) = Pending \cup Ready
  <2>1. CASE Full
    <3> DEFINE old == Head(pending)
               r == Resolve(old, "TimedOut")
    <3>1. pending # <<>>
      BY <1>3, <2>1, LimitAssumption DEF Full
    <3>2. /\ 1 \in DOMAIN pending /\ old = pending[1] /\ Tail(pending) = RemoveAt(pending, 1)
      BY <1>3, <3>1, TailSet
    <3>3. /\ Tail(pending) \in Seq(Handles) /\ Len(Tail(pending)) = Len(pending) - 1
          /\ IsInjective(Tail(pending)) /\ Range(Tail(pending)) = Pending \ {old}
      <4>1. IsInjective(pending)
        BY <1>0 DEF PlacesInv
      <4>2. /\ RemoveAt(pending, 1) \in Seq(Handles)
            /\ Len(RemoveAt(pending, 1)) = Len(pending) - 1
            /\ IsInjective(RemoveAt(pending, 1))
            /\ Range(RemoveAt(pending, 1)) = Range(pending) \ {pending[1]}
        BY <1>3, <3>2, <4>1, RemoveAtSet
      <4>3. QED
        BY <3>2, <4>2 DEF Pending
    <3>4. old \in Pending /\ old \in Handles
      BY <1>0, <3>2, BooksSets
    <3>5. r \in Resolution /\ r.handle = old
      BY <3>4, ResolveIsResolution DEF Outcome
    <3> HIDE DEF r
    <3>6. HandlesOf(Append(ready, r)) = Append(HandlesOf(ready), old)
      BY <1>3, <3>5, HandlesOfAppend
    <3>7. HandlesOf(ready) \in Seq(Handles) /\ old \notin Range(HandlesOf(ready))
      BY <1>0, <1>3, <3>4, HandlesOfSeq DEF PlacesInv, Ready
    <3>8. /\ Range(HandlesOf(Append(ready, r))) = Ready \cup {old}
          /\ IsInjective(HandlesOf(Append(ready, r)))
      BY <1>0, <3>4, <3>6, <3>7, AppendSet DEF PlacesInv, Ready
    <3>9. Append(ready, r) \in Seq(Resolution)
      BY <1>3, <3>5, AppendProperties
    <3>10. rest = Tail(pending) /\ queue = Append(ready, r)
      BY <2>1 DEF r
    <3>11. Len(pending) - 1 < PendingLimit
      BY <1>0, <1>3, LimitAssumption DEF BooksType
    <3>12. QED
      BY <1>0, <3>3, <3>4, <3>8, <3>9, <3>10, <3>11 DEF PlacesInv
  <2>2. CASE ~Full
    <3>1. rest = pending /\ queue = ready /\ Len(pending) < PendingLimit
      BY <1>3, <2>2, LimitAssumption DEF Full
    <3>2. QED
      BY <1>0, <1>3, <3>1 DEF PlacesInv, Pending, Ready
  <2>3. QED
    BY <2>1, <2>2
<1> HIDE DEF rest, queue
<1>6. /\ pending' \in Seq(Handles) /\ Len(pending') = Len(rest) + 1
      /\ Pending' = Range(rest) \cup {h} /\ IsInjective(pending')
  <2>1. h \notin Range(rest)
    BY <1>1, <1>4, <1>5
  <2>2. QED
    BY <1>1, <1>2, <1>5, <2>1, AppendSet DEF Pending
<1>7. Len(pending') <= PendingLimit
  BY <1>5, <1>6, SeqDomain, LimitAssumption
<1>8. Ready' = Range(HandlesOf(queue)) /\ IsInjective(HandlesOf(ready')) /\ ready' \in Seq(Resolution)
  BY <1>2, <1>5 DEF Ready
<1>9. Told' = Told /\ ResolvedAgrees'
  BY <1>0, <1>2 DEF Told, PlacesInv, ResolvedAgrees
<1>10. BooksType'
  BY <1>0, <1>2, <1>6, <1>7, <1>8 DEF BooksType
<1>11. PlacesInv'
  BY <1>0, <1>1, <1>2, <1>4, <1>5, <1>6, <1>8, <1>9 DEF PlacesInv
<1>12. QED
  BY <1>1, <1>2, <1>10, <1>11 DEF TrackerInv, TypeOK

----------------------------------------------------------------------------
(* Every step is one of these                                                *)

LEMMA WithoutIsRemoval ==
  ASSUME NEW s, NEW x \in Range(s)
  PROVE  \E i \in DOMAIN s : s[i] = x /\ Without(s, x) = RemoveAt(s, i)
<1> DEFINE i == CHOOSE j \in DOMAIN s : s[j] = x
<1>1. i \in DOMAIN s /\ s[i] = x
  BY DEF Range
<1>2. Without(s, x) = RemoveAt(s, i)
  BY DEF Without
<1>3. QED
  BY <1>1, <1>2

LEMMA ForgottenFromPending ==
  ASSUME NEW h \in Pending, NEW o \in Outcome, Forget(h), Deliver(h, o),
         UNCHANGED <<ready, tracked>>
  PROVE  FromPending
<1>1. PICK i \in DOMAIN pending : pending[i] = h /\ Without(pending, h) = RemoveAt(pending, i)
  BY WithoutIsRemoval DEF Pending
<1>2. QED
  BY <1>1 DEF FromPending, Forget

LEMMA ClassifyEffect ==
  ASSUME NEW h, Classify(h), UNCHANGED tracked
  PROVE  \/ h \in Pending /\ told' = [told EXCEPT ![h] = Append(@, "Answered")] /\ FromPending
         \/ BooksUnchanged
<1>1. CASE h \in Range(pending)
  <2>1. Forget(h) /\ Deliver(h, "Answered") /\ Tell(h, "Answered") /\ UNCHANGED ready
    BY <1>1 DEF Classify, Forget, Deliver
  <2>2. h \in Pending
    BY <1>1 DEF Pending
  <2>3. FromPending
    BY <2>1, <2>2, ForgottenFromPending DEF Outcome
  <2>4. QED
    BY <2>1, <2>2, <2>3 DEF Tell
<1>2. CASE h \notin Range(pending)
  BY <1>2 DEF Classify, BooksUnchanged, tracker
<1>3. QED
  BY <1>1, <1>2

LEMMA UnansweredEffect ==
  ASSUME BooksType, NextUnanswered, UNCHANGED tracked
  PROVE  FromPending \/ FromReady
<1>1. CASE /\ ready # <<>>
           /\ ready' = Tail(ready)
           /\ Remember(Head(ready))
           /\ Tell(Head(ready).handle, Head(ready).outcome)
           /\ UNCHANGED pending
  <2> DEFINE r == ready[1]
  <2>1. 1 \in DOMAIN ready /\ Head(ready) = r /\ Tail(ready) = RemoveAt(ready, 1)
    BY <1>1, TailSet DEF BooksType
  <2>2. r \in Resolution
    BY <2>1, SeqDomain DEF BooksType
  <2>3. Resolve(r.handle, r.outcome) = r
    BY <2>2 DEF Resolve, Resolution
  <2>4. Deliver(r.handle, r.outcome)
    BY <1>1, <2>1, <2>3 DEF Deliver
  <2>5. QED
    BY <1>1, <2>1, <2>4 DEF FromReady
<1>2. CASE /\ ready = <<>>
           /\ \E i \in Overdue :
                /\ \A j \in Overdue : i <= j
                /\ pending' = RemoveAt(pending, i)
                /\ Remember(Resolve(pending[i], "TimedOut"))
                /\ Tell(pending[i], "TimedOut")
           /\ UNCHANGED ready
  BY <1>2 DEF FromPending, Overdue, Deliver, Outcome
<1>3. QED
  BY <1>1, <1>2 DEF NextUnanswered

LEMMA StepEffect ==
  ASSUME TrackerInv, [Next]_vars
  PROVE  FromPending \/ FromReady \/ SessionEnds \/ Published \/ BooksUnchanged
<1> USE DEF TrackerInv, BooksUnchanged, tracker
<1>t. BooksType
  BY DEF TypeOK, BooksType
<1>1. CASE \/ Dispatch \/ Mint \/ PushallDone \/ Fails \/ ReadsTelemetry \/ Raw \/ RawConnected
           \/ Request \/ WaitEvicts \/ Cancel
  BY <1>1 DEF Dispatch, Mint, PushallDone, Fails, ReadsTelemetry, Raw, RawConnected, Request,
              WaitEvicts, Cancel
<1>2. CASE Published
  BY <1>2
<1>3. CASE Dialled \/ Attached \/ Disconnected
  BY <1>3 DEF Dialled, Attached, Disconnected, InstallMqtt, SessionEnds
<1>4. CASE Poll
  <2>1. UNCHANGED tracked
    BY <1>4 DEF Poll
  <2>2. CASE Classify(Head(buffered))
    BY <2>1, <2>2, ClassifyEffect
  <2>3. CASE NextUnanswered
    BY <1>t, <2>1, <2>3, UnansweredEffect
  <2>4. CASE UNCHANGED <<tracker, told>>
    BY <2>1, <2>4
  <2>5. QED
    BY <1>4, <2>2, <2>3, <2>4 DEF Poll
<1>5. CASE PollConnected
  <2>1. UNCHANGED tracked
    BY <1>5 DEF PollConnected
  <2>2. CASE NextUnanswered
    BY <1>t, <2>1, <2>2, UnansweredEffect
  <2>3. CASE UNCHANGED <<tracker, told>>
    BY <2>1, <2>3
  <2>4. QED
    BY <1>5, <2>2, <2>3 DEF PollConnected
<1>6. ASSUME NEW h \in Handles, PollReads(h)
      PROVE  FromPending \/ BooksUnchanged
  BY <1>6, ClassifyEffect DEF PollReads
<1>7. ASSUME NEW h \in Handles, RawReads(h) \/ Expire(h)
      PROVE  BooksUnchanged
  BY <1>7 DEF RawReads, Expire
<1>8. ASSUME NEW h \in Handles, WaitReads(h)
      PROVE  FromPending \/ BooksUnchanged
  <2>1. CASE h = fut.h
    <3>1. fut.op = "ack"
      BY <1>8, <2>1 DEF WaitReads, FutureInv, NoHandle, Handles
    <3>2. h \in Pending
      BY <2>1, <3>1 DEF FutureInv
    <3>3. Forget(h) /\ Deliver(h, "Answered") /\ UNCHANGED <<ready, tracked>>
      BY <1>8, <2>1 DEF WaitReads, Deliver
    <3>4. QED
      BY <3>2, <3>3, ForgottenFromPending DEF Outcome
  <2>2. CASE h # fut.h
    BY <1>8, <2>2 DEF WaitReads
  <2>3. QED
    BY <2>1, <2>2
<1>9. ASSUME NEW h \in Handles, AwaitAck(h)
      PROVE  FromReady \/ BooksUnchanged
  BY <1>9 DEF AwaitAck, ReadyIndices, FromReady, Deliver
<1>10. CASE WaitStarts
  <2>1. CASE fut.h \in Range(buffered)
    <3>1. fut.h \in Handles
      BY <2>1, SeqDomain DEF TypeOK
    <3>2. fut.op = "ack"
      BY <1>10, <3>1 DEF WaitStarts, FutureInv, NoHandle, Handles
    <3>3. fut.h \in Pending
      BY <3>2 DEF FutureInv
    <3>4. Forget(fut.h) /\ Deliver(fut.h, "Answered") /\ UNCHANGED <<ready, tracked>>
      BY <1>10, <2>1 DEF WaitStarts, Deliver
    <3>5. QED
      BY <3>3, <3>4, ForgottenFromPending DEF Outcome
  <2>2. CASE fut.h \notin Range(buffered)
    BY <1>10, <2>2 DEF WaitStarts
  <2>3. QED
    BY <2>1, <2>2
<1>11. CASE WaitEnds
  <2>1. CASE fut.op = "ack"
    <3>1. fut.h \in Pending
      BY <2>1 DEF FutureInv
    <3>2. Forget(fut.h) /\ Deliver(fut.h, "TimedOut") /\ UNCHANGED <<ready, tracked>>
      BY <1>11, <2>1 DEF WaitEnds, Deliver
    <3>3. QED
      BY <3>1, <3>2, ForgottenFromPending DEF Outcome
  <2>2. CASE fut.op # "ack"
    BY <1>11, <2>2 DEF WaitEnds
  <2>3. QED
    BY <2>1, <2>2
<1>12. ASSUME NEW op, Close(op)
       PROVE  BooksUnchanged
  BY <1>12 DEF Close
<1>13. CASE UNCHANGED vars
  BY <1>13 DEF vars
<1>14. QED
  BY <1>1, <1>2, <1>3, <1>4, <1>5, <1>6, <1>7, <1>8, <1>9, <1>10, <1>11, <1>12, <1>13 DEF Next

LEMMA StepBooks ==
  ASSUME TrackerInv, [Next]_vars
  PROVE  /\ Books'
         /\ pending = <<>> => pending' = <<>> \/ Published
<1>1. Books
  BY DEF TrackerInv, TypeOK, BooksType, Books
<1>2. CASE FromPending
  <2>1. pending # <<>>
    BY <1>2 DEF FromPending
  <2>2. QED
    BY <1>1, <1>2, <2>1, FromPendingKeeps
<1>3. CASE FromReady
  BY <1>1, <1>3, FromReadyKeeps DEF FromReady
<1>4. CASE SessionEnds
  BY <1>1, <1>4, SessionEndsKeeps
<1>5. CASE Published
  BY <1>5, PublishedKeeps
<1>6. CASE BooksUnchanged
  BY <1>1, <1>6, BooksUnchangedKeeps DEF BooksUnchanged, tracker
<1>7. QED
  BY <1>2, <1>3, <1>4, <1>5, <1>6, StepEffect

----------------------------------------------------------------------------
(* The running future and the session                                        *)

RestType ==
  /\ mqtt \in BOOLEAN
  /\ buffered \in Seq(Handles)
  /\ owed \subseteq Handles
  /\ expired \subseteq tracked
  /\ fut \in Future
  /\ minted \in 0..MaxHandles
  /\ tracked \subseteq 1..minted

LEMMA IdleFacts == Idle \in Future /\ Idle.at = "idle" /\ Idle.op = "none" /\ Idle.h = NoHandle
BY DEF Idle, Future

LEMMA EnsuredFacts ==
  ASSUME NEW op \in {"dispatch", "poll", "raw", "ack", "request"},
         NEW h \in Handles \cup {NoHandle}
  PROVE  /\ Ensured(op, h) \in Future
         /\ Ensured(op, h).op = op /\ Ensured(op, h).h = h
         /\ Ensured(op, h).at = IF mqtt THEN "go" ELSE "dial"
BY DEF Ensured, Future, Awaiting

LEMMA GotoFacts ==
  ASSUME fut \in Future, NEW a \in {"idle", "go", "close", "closed"} \cup Awaiting
  PROVE  /\ [fut EXCEPT !.at = a] \in Future
         /\ [fut EXCEPT !.at = a].at = a
         /\ [fut EXCEPT !.at = a].op = fut.op
         /\ [fut EXCEPT !.at = a].h = fut.h
BY DEF Future

\* A call that has returned leaves nothing to say but about the session.
LEMMA ReturnedFuture ==
  ASSUME TrackerInv, fut' = Idle, mqtt' = mqtt, buffered' = <<>> \/ mqtt,
         mqtt \/ fut.at \notin {"close", "closed"} \/ pending' = <<>>,
         pending = <<>> => pending' = <<>> \/ mqtt
  PROVE  FutureInv' /\ BufferInv'
BY IdleFacts DEF TrackerInv, FutureInv, BufferInv, NoHandle

LEMMA BufferFacts ==
  ASSUME NEW b \in Seq(Handles)
  PROVE  /\ b # <<>> => Tail(b) \in Seq(Handles) /\ Head(b) \in Handles
                        /\ Range(Tail(b)) \subseteq Range(b)
         /\ \A h \in Range(b) : Without(b, h) \in Seq(Handles) /\ b # <<>>
         /\ \A h \in Handles : /\ Append(b, h) \in Seq(Handles)
                               /\ Range(Append(b, h)) = Range(b) \cup {h}
<1>1. ASSUME b # <<>>
      PROVE  Tail(b) \in Seq(Handles) /\ Head(b) \in Handles /\ Range(Tail(b)) \subseteq Range(b)
  <2>1. /\ Tail(b) \in Seq(Handles) /\ Head(b) \in Handles /\ Len(Tail(b)) = Len(b) - 1
        /\ \A i \in 1..Len(Tail(b)) : Tail(b)[i] = b[i + 1]
    BY <1>1, HeadTailProperties
  <2>2. /\ DOMAIN Tail(b) = 1..Len(Tail(b)) /\ DOMAIN b = 1..Len(b) /\ Len(b) \in Nat
    BY <2>1, SeqDomain
  <2>3. \A i \in DOMAIN Tail(b) : i + 1 \in DOMAIN b /\ Tail(b)[i] = b[i + 1]
    BY <2>1, <2>2
  <2>4. QED
    BY <2>1, <2>3 DEF Range
<1>2. ASSUME NEW h \in Range(b) PROVE Without(b, h) \in Seq(Handles) /\ b # <<>>
  <2>1. PICK i \in DOMAIN b : Without(b, h) = RemoveAt(b, i)
    BY WithoutIsRemoval
  <2>2. QED
    BY <2>1, RemoveAtElements, SeqDomain
<1>3. QED
  BY <1>1, <1>2, AppendSet

LEMMA StepFuture ==
  ASSUME TrackerInv, ~CancelClose, [Next]_vars
  PROVE  RestType' /\ FutureInv' /\ BufferInv'
<1>r. RestType
  BY DEF TrackerInv, TypeOK, RestType
<1>f. FutureInv /\ BufferInv
  BY DEF TrackerInv
<1>p. pending = <<>> => pending' = <<>> \/ Published
  BY StepBooks
<1>m. /\ Pending \subseteq Handles
      /\ \A h \in Handles : h \in Range(buffered) => buffered # <<>>
  BY BooksSets, SeqDomain DEF TrackerInv, TypeOK, BooksType
<1>1. CASE Dispatch
  <2>1. /\ fut' = Ensured("dispatch", NoHandle) /\ minted < MaxHandles
        /\ UNCHANGED <<tracker, wire, expired, minted, tracked, told>>
    BY <1>1 DEF Dispatch
  <2>2. fut.at = "idle"
    BY <1>1, IdleFacts DEF Dispatch
  <2>3. QED
    BY <1>r, <1>f, <2>1, <2>2, EnsuredFacts
       DEF RestType, FutureInv, BufferInv, tracker, wire, NoHandle

<1>2. CASE Mint
  <2>1. /\ fut' = [at |-> "publish", op |-> "dispatch", h |-> minted + 1]
        /\ minted' = minted + 1
        /\ fut.at = "go" /\ fut.op = "dispatch"
        /\ UNCHANGED <<tracker, wire, expired, tracked, told>>
    BY <1>2 DEF Mint
  <2>2. minted < MaxHandles /\ mqtt
    BY <1>f, <2>1 DEF FutureInv
  <2>3. /\ minted' \in 0..MaxHandles /\ minted + 1 \in 1..minted' /\ minted + 1 \in Handles
        /\ minted + 1 \notin 1..minted /\ 1..minted \subseteq 1..minted'
    BY <1>r, <2>1, <2>2, LimitAssumption DEF RestType, Handles
  <2>4. /\ fut' \in Future /\ fut'.at = "publish" /\ fut'.op = "dispatch" /\ fut'.h = minted + 1
    BY <2>1, <2>3 DEF Future, Awaiting
  <2>5. QED
    BY <1>r, <1>f, <2>1, <2>2, <2>3, <2>4
       DEF RestType, FutureInv, BufferInv, tracker, wire
<1>3. CASE Published
  <2>1. /\ fut.at = "publish" /\ fut' = Idle /\ owed' = owed \cup {fut.h}
        /\ tracked' = tracked \cup {fut.h}
        /\ UNCHANGED <<mqtt, buffered, expired, minted>>
    BY <1>3 DEF Published
  <2>2. mqtt /\ fut.h \in Handles
    BY <1>r, <1>f, <2>1, LimitAssumption DEF FutureInv, RestType, Handles
  <2>3. RestType'
    BY <1>r, <1>3, <2>1, <2>2, PublishedKeeps, IdleFacts DEF RestType
  <2>4. QED
    BY <2>1, <2>2, <2>3, ReturnedFuture
<1>4. CASE Dialled \/ Attached
  <2>1. /\ InstallMqtt /\ fut.at \in {"dial", "close", "closed"}
    BY <1>4 DEF Dialled, Attached
  <2>2. /\ fut' = [fut EXCEPT !.at = "pushall"] /\ mqtt' = TRUE /\ buffered' = <<>> /\ owed' = {}
        /\ UNCHANGED <<expired, minted, tracked, told>>
    BY <2>1 DEF InstallMqtt
  <2>3. /\ fut' \in Future /\ fut'.at = "pushall" /\ fut'.op = fut.op /\ fut'.h = fut.h
    BY <1>r, <2>2, GotoFacts DEF RestType, Awaiting
  <2>4. fut.op # "ack"
    BY <1>f, <2>1 DEF FutureInv
  <2>5. fut.op = "dispatch" => minted < MaxHandles
    <3>1. CASE Dialled
      BY <1>f, <3>1 DEF FutureInv, Dialled
    <3>2. CASE Attached
      BY <3>2 DEF Attached
    <3>3. QED
      BY <1>4, <3>1, <3>2
  <2>6. RestType'
    BY <1>r, <2>2, <2>3, EmptySeq DEF RestType
  <2>7. FutureInv' /\ BufferInv'
    BY <1>f, <2>2, <2>3, <2>4, <2>5 DEF FutureInv, BufferInv
  <2>8. QED
    BY <2>6, <2>7
<1>5. CASE PushallDone
  <2>1. /\ fut.at = "pushall"
        /\ fut' = IF fut.op = "attach" THEN Idle ELSE [fut EXCEPT !.at = "go"]
        /\ UNCHANGED <<tracker, wire, expired, minted, tracked, told>>
    BY <1>5 DEF PushallDone
  <2>2. mqtt /\ fut.op # "ack"
    BY <1>f, <2>1 DEF FutureInv
  <2>3. CASE fut' = Idle
    BY <1>r, <1>f, <2>1, <2>2, <2>3, IdleFacts, ReturnedFuture DEF RestType, tracker, wire
  <2>4. CASE fut' = [fut EXCEPT !.at = "go"]
    <3>1. /\ fut' \in Future /\ fut'.at = "go" /\ fut'.op = fut.op /\ fut'.h = fut.h
      BY <1>r, <2>4, GotoFacts DEF RestType
    <3>2. QED
      BY <1>r, <1>f, <2>1, <2>2, <3>1 DEF RestType, FutureInv, BufferInv, tracker, wire, Pending
  <2>5. QED
    BY <2>1, <2>3, <2>4
<1>6. CASE Fails \/ Cancel
  <2>1. /\ fut.at \notin {"close", "closed"} /\ fut' = Idle
        /\ owed' \in {owed} \cup (IF fut.at = "publish" THEN {owed \cup {fut.h}} ELSE {})
        /\ UNCHANGED <<tracker, mqtt, buffered, expired, minted, tracked, told>>
    BY <1>6 DEF Fails, Cancel, Awaiting
  <2>2. fut.at = "publish" => fut.h \in Handles
    BY <1>r, <1>f, <2>1, LimitAssumption DEF FutureInv, RestType, Handles
  <2>3. owed' \subseteq Handles
    BY <1>r, <2>1, <2>2 DEF RestType
  <2>4. RestType'
    BY <1>r, <2>1, <2>3, IdleFacts DEF RestType
  <2>5. QED
    BY <1>f, <2>1, <2>4, ReturnedFuture DEF tracker, BufferInv
<1>7. CASE Poll
  <2>1. /\ fut = Idle /\ UNCHANGED <<expired, minted, tracked, mqtt, owed>>
    BY <1>7 DEF Poll, wire
  <2>2. fut.at = "idle" /\ fut.op = "none"
    BY <2>1, IdleFacts
  <2>3. CASE BufferFirst /\ buffered' = Tail(buffered) /\ UNCHANGED fut
    <3>1. buffered' \in Seq(Handles) /\ mqtt
      BY <1>r, <2>3, BufferFacts DEF RestType, BufferFirst
    <3>2. QED
      BY <1>r, <2>1, <2>2, <2>3, <3>1, ReturnedFuture DEF RestType
  <2>4. CASE NextUnanswered /\ UNCHANGED <<fut, wire>>
    <3>1. buffered' = buffered /\ fut' = Idle
      BY <2>1, <2>4 DEF wire
    <3>2. RestType'
      BY <1>r, <2>1, <3>1, IdleFacts DEF RestType
    <3>3. ~Published
      BY <2>2 DEF Published
    <3>4. QED
      BY <1>f, <1>p, <2>1, <2>2, <3>1, <3>2, <3>3, ReturnedFuture DEF BufferInv
  <2>5. CASE ~BufferFirst /\ fut' = Ensured("poll", NoHandle) /\ UNCHANGED <<tracker, wire, told>>
    <3>1. buffered = <<>>
      BY <1>f, <2>5 DEF BufferInv, BufferFirst
    <3>2. QED
      BY <1>r, <1>f, <2>1, <2>2, <2>5, <3>1, EnsuredFacts
         DEF RestType, FutureInv, BufferInv, tracker, wire, NoHandle
  <2>6. QED
    BY <1>7, <2>3, <2>4, <2>5 DEF Poll
<1>8. CASE PollConnected
  <2>1. /\ fut.at = "go" /\ fut.op = "poll" /\ UNCHANGED <<wire, expired, minted, tracked>>
    BY <1>8 DEF PollConnected
  <2>2. mqtt /\ buffered = <<>>
    BY <1>f, <2>1 DEF FutureInv, BufferInv
  <2>3. CASE fut' = Idle
    BY <1>r, <1>f, <2>1, <2>2, <2>3, IdleFacts, ReturnedFuture DEF RestType, wire
  <2>4. CASE fut' = [fut EXCEPT !.at = "read"] /\ UNCHANGED <<tracker, told>>
    <3>1. /\ fut' \in Future /\ fut'.at = "read" /\ fut'.op = "poll" /\ fut'.h = fut.h
      BY <1>r, <2>1, <2>4, GotoFacts DEF RestType, Awaiting
    <3>2. QED
      BY <1>r, <1>f, <2>1, <2>2, <2>4, <3>1 DEF RestType, FutureInv, BufferInv, tracker, wire
  <2>5. QED
    BY <1>8, <2>3, <2>4 DEF PollConnected
<1>9. CASE ReadsTelemetry
  <2>1. /\ fut.at = "read" /\ fut' = Idle
        /\ UNCHANGED <<tracker, wire, expired, minted, tracked, told>>
    BY <1>9 DEF ReadsTelemetry
  <2>2. QED
    BY <1>r, <1>f, <2>1, IdleFacts, ReturnedFuture DEF RestType, FutureInv, BufferInv, tracker, wire
<1>10. CASE Raw \/ Request
  <2>1. PICK op \in {"raw", "request"} :
          /\ fut = Idle /\ fut' = Ensured(op, NoHandle)
          /\ UNCHANGED <<tracker, wire, expired, minted, tracked, told>>
    BY <1>10 DEF Raw, Request
  <2>2. fut.at = "idle"
    BY <2>1, IdleFacts
  <2>3. QED
    BY <1>r, <1>f, <2>1, <2>2, EnsuredFacts
       DEF RestType, FutureInv, BufferInv, tracker, wire, NoHandle
<1>11. CASE RawConnected
  <2>1. /\ fut.at = "go" /\ fut.op = "raw"
        /\ UNCHANGED <<tracker, mqtt, owed, expired, minted, tracked, told>>
    BY <1>11 DEF RawConnected
  <2>2. mqtt
    BY <1>f, <2>1 DEF FutureInv
  <2>3. CASE buffered # <<>> /\ buffered' = Tail(buffered) /\ fut' = Idle
    <3>1. buffered' \in Seq(Handles)
      BY <1>r, <2>3, BufferFacts DEF RestType
    <3>2. QED
      BY <1>r, <2>1, <2>2, <2>3, <3>1, IdleFacts, ReturnedFuture DEF RestType
  <2>4. CASE fut' = [fut EXCEPT !.at = "read"] /\ UNCHANGED buffered
    <3>1. /\ fut' \in Future /\ fut'.at = "read" /\ fut'.op = "raw" /\ fut'.h = fut.h
      BY <1>r, <2>1, <2>4, GotoFacts DEF RestType, Awaiting
    <3>2. QED
      BY <1>r, <1>f, <2>1, <2>2, <2>4, <3>1 DEF RestType, FutureInv, BufferInv, tracker
  <2>5. QED
    BY <1>11, <2>3, <2>4 DEF RawConnected
<1>12. ASSUME NEW h \in Handles, PollReads(h) \/ RawReads(h)
       PROVE  RestType' /\ FutureInv' /\ BufferInv'
  <2>1. /\ fut.at = "read" /\ owed' = owed \ {h} /\ fut' = Idle
        /\ UNCHANGED <<mqtt, buffered, expired, minted, tracked>>
    BY <1>12 DEF PollReads, RawReads
  <2>2. mqtt
    BY <1>f, <2>1 DEF FutureInv
  <2>3. QED
    BY <1>r, <2>1, <2>2, IdleFacts, ReturnedFuture DEF RestType
<1>13. ASSUME NEW h \in Handles, WaitReads(h)
       PROVE  RestType' /\ FutureInv' /\ BufferInv'
  <2>1. /\ fut.at = "wait" /\ owed' = owed \ {h}
        /\ UNCHANGED <<mqtt, expired, minted, tracked>>
    BY <1>13 DEF WaitReads
  <2>2. mqtt
    BY <1>f, <2>1 DEF FutureInv
  <2>3. CASE h = fut.h
    <3>1. fut' = Idle /\ UNCHANGED buffered
      BY <1>13, <2>3 DEF WaitReads
    <3>2. QED
      BY <1>r, <2>1, <2>2, <3>1, IdleFacts, ReturnedFuture DEF RestType
  <2>4. CASE h # fut.h
    <3>1. buffered' = Append(buffered, h) /\ UNCHANGED <<pending, told, fut>>
      BY <1>13, <2>4 DEF WaitReads
    <3>2. buffered' \in Seq(Handles) /\ Range(buffered') = Range(buffered) \cup {h}
      BY <1>r, <3>1, BufferFacts DEF RestType
    <3>3. fut.op # "poll"
      BY <1>f, <2>1 DEF FutureInv
    <3>4. RestType'
      BY <1>r, <2>1, <3>1, <3>2 DEF RestType
    <3>5. QED
      BY <1>f, <2>1, <2>2, <2>4, <3>1, <3>2, <3>3, <3>4 DEF FutureInv, BufferInv, Pending
  <2>5. QED
    BY <2>3, <2>4
<1>14. ASSUME NEW h \in Handles, AwaitAck(h)
       PROVE  RestType' /\ FutureInv' /\ BufferInv'
  <2>1. /\ fut = Idle /\ UNCHANGED <<pending, resolved, wire, expired, minted, tracked>>
    BY <1>14 DEF AwaitAck
  <2>2. fut.at = "idle" /\ fut.op = "none"
    BY <2>1, IdleFacts
  <2>3. CASE UNCHANGED fut
    BY <1>r, <1>f, <2>1, <2>2, <2>3 DEF RestType, FutureInv, BufferInv, wire, Pending
  <2>4. CASE h \in Range(pending) /\ fut' = Ensured("ack", h)
    <3>1. mqtt /\ h \in Pending
      BY <1>f, <2>2, <2>4, SeqDomain DEF FutureInv, Pending, TrackerInv, TypeOK
    <3>2. /\ fut' \in Future /\ fut'.op = "ack" /\ fut'.h = h /\ fut'.at = "go"
      BY <2>4, <3>1, EnsuredFacts
    <3>3. QED
      BY <1>r, <1>f, <2>1, <2>2, <3>1, <3>2 DEF RestType, FutureInv, BufferInv, wire, Pending
  <2>5. QED
    BY <1>14, <2>3, <2>4 DEF AwaitAck
<1>15. ASSUME NEW h \in Handles, Expire(h)
       PROVE  RestType' /\ FutureInv' /\ BufferInv'
  BY <1>r, <1>f, <1>15 DEF Expire, RestType, FutureInv, BufferInv, tracker, wire, Pending
<1>16. CASE WaitStarts
  <2>1. /\ fut.at = "go" /\ fut.op \in {"ack", "request"}
        /\ UNCHANGED <<mqtt, owed, expired, minted, tracked>>
    BY <1>16 DEF WaitStarts
  <2>2. mqtt
    BY <1>f, <2>1 DEF FutureInv
  <2>3. CASE fut.h \in Range(buffered)
    <3>1. fut' = Idle /\ buffered' = Without(buffered, fut.h)
      BY <1>16, <2>3 DEF WaitStarts
    <3>2. buffered' \in Seq(Handles)
      BY <1>r, <2>3, <3>1, BufferFacts DEF RestType
    <3>3. QED
      BY <1>r, <2>1, <2>2, <3>1, <3>2, IdleFacts, ReturnedFuture DEF RestType
  <2>4. CASE fut.h \notin Range(buffered)
    <3>1. fut' = [fut EXCEPT !.at = "wait"] /\ UNCHANGED <<buffered, pending, told>>
      BY <1>16, <2>4 DEF WaitStarts
    <3>2. /\ fut' \in Future /\ fut'.at = "wait" /\ fut'.op = fut.op /\ fut'.h = fut.h
      BY <1>r, <3>1, GotoFacts DEF RestType, Awaiting
    <3>3. RestType'
      BY <1>r, <2>1, <3>1, <3>2 DEF RestType
    <3>4. QED
      BY <1>f, <2>1, <2>2, <2>4, <3>1, <3>2, <3>3 DEF FutureInv, BufferInv, Pending
  <2>5. QED
    BY <2>3, <2>4
<1>17. CASE WaitEvicts
  <2>1. /\ fut.at = "wait" /\ buffered # <<>> /\ buffered' = Tail(buffered)
        /\ UNCHANGED <<tracker, mqtt, owed, expired, fut, minted, tracked, told>>
    BY <1>17 DEF WaitEvicts
  <2>2. mqtt /\ fut.op # "poll"
    BY <1>f, <2>1 DEF FutureInv
  <2>3. buffered' \in Seq(Handles) /\ Range(buffered') \subseteq Range(buffered)
    BY <1>r, <2>1, BufferFacts DEF RestType
  <2>4. RestType'
    BY <1>r, <2>1, <2>3 DEF RestType
  <2>5. QED
    BY <1>f, <2>1, <2>2, <2>3, <2>4 DEF FutureInv, BufferInv, Pending, tracker
<1>18. CASE WaitEnds
  <2>1. /\ fut.at = "wait" /\ fut' = Idle
        /\ UNCHANGED <<wire, expired, minted, tracked>>
    BY <1>18 DEF WaitEnds
  <2>2. mqtt
    BY <1>f, <2>1 DEF FutureInv
  <2>3. QED
    BY <1>r, <2>1, <2>2, IdleFacts, ReturnedFuture DEF RestType, wire
<1>19. ASSUME NEW op \in {"disconnect", "attach"}, Close(op)
       PROVE  RestType' /\ FutureInv' /\ BufferInv'
  <2>1. /\ mqtt' = FALSE /\ buffered' = <<>> /\ owed' = {}
        /\ UNCHANGED <<tracker, expired, minted, tracked, told>>
        /\ fut' = [at |-> IF mqtt THEN "close" ELSE "closed", op |-> op, h |-> NoHandle]
    BY <1>19 DEF Close
  <2>2. /\ fut' \in Future /\ fut'.at \in {"close", "closed"} /\ fut'.op = op
    BY <2>1 DEF Future, Awaiting
  <2>3. buffered' \in Seq(Handles)
    BY <2>1, EmptySeq
  <2>4. RestType'
    BY <1>r, <2>1, <2>2, <2>3 DEF RestType
  <2>5. QED
    BY <2>1, <2>2, <2>4 DEF FutureInv, BufferInv
<1>20. CASE Disconnected
  <2>1. /\ BeginConnection /\ fut' = Idle /\ UNCHANGED <<wire, expired, minted, tracked, told>>
    BY <1>20 DEF Disconnected
  <2>2. pending' = <<>>
    BY <2>1 DEF BeginConnection
  <2>3. QED
    BY <1>r, <1>f, <2>1, <2>2, IdleFacts, ReturnedFuture DEF RestType, wire, BufferInv
<1>21. CASE UNCHANGED vars
  BY <1>r, <1>f, <1>21 DEF vars, RestType, FutureInv, BufferInv, tracker, wire, Pending
<1>22. QED
  BY <1>1, <1>2, <1>3, <1>4, <1>5, <1>6, <1>7, <1>8, <1>9, <1>10, <1>11, <1>12, <1>13, <1>14,
     <1>15, <1>16, <1>17, <1>18, <1>19, <1>20, <1>21 DEF Next

----------------------------------------------------------------------------
(* The theorems                                                              *)

LEMMA InitTracker == Init => TrackerInv
<1> SUFFICES ASSUME Init PROVE TrackerInv
  OBVIOUS
<1> USE DEF Init
<1>1. RestType
  <2>1. buffered \in Seq(Handles) /\ mqtt \in BOOLEAN /\ fut \in Future
    BY IdleFacts, EmptySeq
  <2>2. minted \in 0..MaxHandles
    BY LimitAssumption
  <2>3. owed \subseteq Handles /\ expired \subseteq tracked /\ tracked \subseteq 1..minted
    OBVIOUS
  <2>4. QED
    BY <2>1, <2>2, <2>3 DEF RestType
<1>2. BooksType
  BY EmptySeq, LimitAssumption DEF BooksType
<1>3. /\ Range(<<>>) = {} /\ IsInjective(<<>>) /\ HandlesOf(<<>>) = <<>>
  <2>1. HandlesOf(<<>>) \in Seq(Handles) /\ Len(HandlesOf(<<>>)) = 0
    BY HandlesOfSeq, EmptySeq
  <2>2. HandlesOf(<<>>) = <<>>
    BY <2>1, EmptySeq
  <2>3. QED
    BY <2>2 DEF Range, IsInjective
<1>4. Pending = {} /\ Ready = {} /\ Told = {}
  BY <1>3 DEF Pending, Ready, Told
<1>5. PlacesInv
  <2>1. \A h \in Handles : Len(told[h]) <= 1
    BY EmptySeq
  <2>2. QED
    BY <1>3, <1>4, <2>1 DEF PlacesInv, ResolvedAgrees
<1>6. FutureInv /\ BufferInv
  BY IdleFacts DEF FutureInv, BufferInv
<1>7. QED
  BY <1>1, <1>2, <1>5, <1>6 DEF TrackerInv, TypeOK, RestType, BooksType

LEMMA StepTracker == TrackerInv /\ ~CancelClose /\ [Next]_vars => TrackerInv'
<1> SUFFICES ASSUME TrackerInv, ~CancelClose, [Next]_vars PROVE TrackerInv'
  OBVIOUS
<1>1. BooksType' /\ PlacesInv'
  BY StepBooks DEF Books
<1>2. RestType' /\ FutureInv' /\ BufferInv'
  BY StepFuture
<1>3. QED
  BY <1>1, <1>2 DEF TrackerInv, TypeOK, RestType, BooksType

\* A handle that occurs once is counted once.
LEMMA CountOnce ==
  ASSUME NEW s, IsInjective(s), NEW h
  PROVE  Cardinality({i \in DOMAIN s : s[i] = h}) = IF h \in Range(s) THEN 1 ELSE 0
<1>1. CASE h \in Range(s)
  <2>1. PICK i \in DOMAIN s : s[i] = h
    BY <1>1 DEF Range
  <2>2. {j \in DOMAIN s : s[j] = h} = {i}
    BY <2>1 DEF IsInjective
  <2>3. QED
    BY <1>1, <2>2, FS_Singleton
<1>2. CASE h \notin Range(s)
  <2>1. {j \in DOMAIN s : s[j] = h} = {}
    BY <1>2 DEF Range
  <2>2. QED
    BY <1>2, <2>1, FS_EmptySet
<1>3. QED
  BY <1>1, <1>2

LEMMA PlacesCounted == TrackerInv => OnePlace
<1> SUFFICES ASSUME TrackerInv, NEW h \in tracked
             PROVE  Copies(pending, h) + ReadyCopies(h) + Len(told[h]) = 1
  BY DEF OnePlace
<1> USE DEF TrackerInv, PlacesInv
<1>1. Copies(pending, h) = IF h \in Pending THEN 1 ELSE 0
  BY CountOnce DEF Copies, Pending
<1>2. ReadyCopies(h) = IF h \in Ready THEN 1 ELSE 0
  <2>1. {i \in DOMAIN HandlesOf(ready) : HandlesOf(ready)[i] = h} = ReadyIndices(h)
    BY HandlesOfSeq DEF ReadyIndices, TypeOK
  <2>2. QED
    BY <2>1, CountOnce DEF ReadyCopies, Ready
<1>3. h \in Handles
  BY LimitAssumption DEF TypeOK, Handles
<1>4. Len(told[h]) = IF h \in Told THEN 1 ELSE 0
  <2>1. told[h] \in Seq(Outcome) /\ Len(told[h]) <= 1 /\ Len(told[h]) \in Nat
    BY <1>3, LenProperties DEF TypeOK
  <2>2. told[h] = <<>> => Len(told[h]) = 0
    OBVIOUS
  <2>3. told[h] # <<>> => Len(told[h]) # 0
    BY <2>1, EmptySeq
  <2>4. QED
    BY <1>3, <2>1, <2>2, <2>3 DEF Told
<1>5. \/ h \in Pending /\ h \notin Ready /\ h \notin Told
      \/ h \notin Pending /\ h \in Ready /\ h \notin Told
      \/ h \notin Pending /\ h \notin Ready /\ h \in Told
  OBVIOUS
<1>6. QED
  BY <1>1, <1>2, <1>4, <1>5

LEMMA TrackerInvariant == ~CancelClose /\ Spec => []TrackerInv
<1>1. CASE ~CancelClose
  BY <1>1, InitTracker, StepTracker, PTL DEF Spec
<1>2. CASE CancelClose
  BY <1>2
<1>3. QED
  BY <1>1, <1>2, LimitAssumption

\* As long as no caller drops disconnect_mqtt or attach_mqtt while it closes the
\* old session, CommandTracker's books are right after any calls, echoes,
\* timeouts, reconnects and dropped futures: every command dispatch returned is
\* pending, queued or settled, once, the tables keep to their limits, and
\* await_ack repeats the outcome it gave first.
THEOREM TrackerKeptTheorem == ~CancelClose /\ Spec => []TrackerKept
<1>1. TrackerInv => TrackerKept
  BY PlacesCounted DEF TrackerInv, PlacesInv, TrackerKept
<1>2. QED
  BY <1>1, TrackerInvariant, PTL

----------------------------------------------------------------------------
(* Refinement                                                                *)

LEMMA LedgerOf ==
  ASSUME BooksType, NEW h \in Handles, Len(told[h]) <= 1
  PROVE  /\ told[h] = <<>> => LedgerState(h) = IF h \in tracked THEN "open" ELSE "unsent"
         /\ told[h] # <<>> => LedgerState(h) = told[h][1]
<1>1. told[h] \in Seq(Outcome) /\ Len(told[h]) \in Nat
  BY LenProperties DEF BooksType
<1>2. told[h] = <<>> <=> Len(told[h]) = 0
  BY <1>1, EmptySeq
<1>3. CASE told[h] = <<>>
  BY <1>2, <1>3 DEF LedgerState
<1>4. CASE told[h] # <<>>
  <2>1. Len(told[h]) = 1
    <3>1. \A n \in Nat : n <= 1 /\ n # 0 => n = 1
      OBVIOUS
    <3>2. QED
      BY <1>1, <1>2, <1>4, <3>1, Zenon
  <2>2. QED
    BY <1>4, <2>1 DEF LedgerState
<1>5. QED
  BY <1>3, <1>4

\* A step of the tracker opens one command, settles one open command, or leaves
\* the ledger as it is.
LEMMA StepLedger ==
  ASSUME TrackerInv, TrackerInv', [Next]_vars
  PROVE  [Ledger!Next]_([h \in Handles |-> LedgerState(h)])
<1> DEFINE L == [h \in Handles |-> LedgerState(h)]
<1>0. /\ BooksType /\ BooksType' /\ PlacesInv /\ PlacesInv'
  BY DEF TrackerInv, TypeOK, BooksType
<1>1. /\ \A h \in Handles : Len(told[h]) <= 1 /\ Len(told'[h]) <= 1
      /\ Told \subseteq tracked
  BY <1>0 DEF PlacesInv
<1>2. \A h \in Handles :
        /\ told[h] = <<>> => L[h] = IF h \in tracked THEN "open" ELSE "unsent"
        /\ told[h] # <<>> => L[h] = told[h][1]
  BY <1>0, <1>1, LedgerOf
<1>3. \A h \in Handles :
        /\ told'[h] = <<>> => L'[h] = IF h \in tracked' THEN "open" ELSE "unsent"
        /\ told'[h] # <<>> => L'[h] = told'[h][1]
  <2> SUFFICES ASSUME NEW h \in Handles
      PROVE /\ told'[h] = <<>> => LedgerState(h)' = IF h \in tracked' THEN "open" ELSE "unsent"
            /\ told'[h] # <<>> => LedgerState(h)' = told'[h][1]
    OBVIOUS
  <2>1. told'[h] \in Seq(Outcome) /\ Len(told'[h]) \in Nat /\ Len(told'[h]) <= 1
    BY <1>0, <1>1, LenProperties DEF BooksType
  <2>2. told'[h] = <<>> <=> Len(told'[h]) = 0
    BY <2>1, EmptySeq
  <2>3. CASE told'[h] = <<>>
    BY <2>2, <2>3 DEF LedgerState
  <2>4. CASE told'[h] # <<>>
    <3>1. Len(told'[h]) = 1
      <4>1. \A n \in Nat : n <= 1 /\ n # 0 => n = 1
        OBVIOUS
      <4>2. QED
        BY <2>1, <2>2, <2>4, <4>1, Zenon
    <3>2. QED
      BY <2>4, <3>1 DEF LedgerState
  <2>5. QED
    BY <2>3, <2>4
<1>4. L = [h \in Handles |-> L[h]] /\ L' = [h \in Handles |-> L'[h]]
  OBVIOUS
<1>5. ASSUME UNCHANGED <<told, tracked>> PROVE L' = L
  BY <1>5 DEF LedgerState
<1> HIDE DEF L
<1>6. ASSUME NEW h \in Handles, NEW o \in Outcome, h \in tracked, told[h] = <<>>,
             Deliver(h, o), tracked' = tracked
      PROVE  Ledger!Next
  <2>1. told' = [told EXCEPT ![h] = <<o>>]
    BY <1>0, <1>6, DeliverKeeps DEF Books
  <2>2. \A g \in Handles : told'[g] = IF g = h THEN <<o>> ELSE told[g]
    BY <1>0, <2>1 DEF BooksType
  <2>3. L[h] = "open" /\ L'[h] = o
    <3>1. <<o>> # <<>> /\ <<o>>[1] = o
      OBVIOUS
    <3>2. told'[h] = <<o>>
      BY <2>2
    <3>3. QED
      BY <1>2, <1>3, <1>6, <3>1, <3>2
  <2>4. \A g \in Handles \ {h} : L'[g] = L[g]
    BY <1>2, <1>3, <1>6, <2>2
  <2>5. L' = [L EXCEPT ![h] = o]
    BY <1>4, <2>3, <2>4
  <2>6. Ledger!Settle(h)
    BY <2>3, <2>5 DEF L, Ledger!Settle
  <2>7. QED
    BY <2>6 DEF Ledger!Next
<1>7. CASE FromPending
  <2>1. PICK i \in DOMAIN pending, o \in Outcome : Deliver(pending[i], o) /\ tracked' = tracked
    BY <1>7 DEF FromPending
  <2>2. pending[i] \in Pending /\ pending[i] \in Handles
    BY <1>0, BooksSets
  <2>3. pending[i] \in tracked /\ told[pending[i]] = <<>>
    BY <1>0, <2>2 DEF PlacesInv, Told
  <2>4. QED
    BY <1>6, <2>1, <2>2, <2>3
<1>8. CASE FromReady
  <2>1. PICK i \in DOMAIN ready :
          Deliver(ready[i].handle, ready[i].outcome) /\ tracked' = tracked
    BY <1>8 DEF FromReady
  <2>2. ready[i].handle \in Ready /\ ready[i].handle \in Handles /\ ready[i].outcome \in Outcome
    BY <1>0, BooksSets
  <2>3. ready[i].handle \in tracked /\ told[ready[i].handle] = <<>>
    BY <1>0, <2>2 DEF PlacesInv, Told
  <2>4. QED
    BY <1>6, <2>1, <2>2, <2>3
<1>9. CASE SessionEnds \/ BooksUnchanged
  <2>1. L' = L
    BY <1>5, <1>9 DEF SessionEnds, BooksUnchanged
  <2>2. QED
    BY <2>1 DEF L
<1>10. CASE Published
  <2> DEFINE h == fut.h
  <2>1. h \in (1..minted) \ tracked /\ minted \in 0..MaxHandles
    BY <1>10 DEF TrackerInv, FutureInv, Published, TypeOK
  <2>2. h \in Handles
    BY <2>1, LimitAssumption DEF Handles
  <2>3. tracked' = tracked \cup {h} /\ told' = told
    BY <1>10 DEF Published
  <2>4. told[h] = <<>>
    BY <1>1, <2>1, <2>2 DEF Told
  <2>5. L[h] = "unsent" /\ L'[h] = "open"
    BY <1>2, <1>3, <2>1, <2>2, <2>3, <2>4
  <2>6. \A g \in Handles \ {h} : L'[g] = L[g]
    BY <1>2, <1>3, <2>3
  <2> HIDE DEF h
  <2>7. L' = [L EXCEPT ![h] = "open"]
    BY <1>4, <2>2, <2>5, <2>6
  <2>8. Ledger!Open(h)
    BY <2>5, <2>7 DEF L, Ledger!Open
  <2>9. QED
    BY <2>2, <2>8 DEF Ledger!Next
<1>11. QED
  BY <1>7, <1>8, <1>9, <1>10, StepEffect DEF L

\* The tracker implements CommandLedger: a command is opened once, settled at
\* most once and never revised, unless a caller drops a disconnect or an attach
\* mid-close.
THEOREM LedgerTheorem == ~CancelClose /\ Spec => ImplementsLedger
<1>1. Init => Ledger!Init
  <2> SUFFICES ASSUME Init PROVE Ledger!Init
    OBVIOUS
  <2>1. \A h \in Handles : LedgerState(h) = "unsent"
    BY EmptySeq DEF Init, LedgerState
  <2>2. QED
    BY <2>1 DEF Ledger!Init
<1>2. TrackerInv /\ TrackerInv' /\ [Next]_vars
        => [Ledger!Next]_([h \in Handles |-> LedgerState(h)])
  BY StepLedger
<1>3. QED
  BY <1>1, <1>2, TrackerInvariant, PTL DEF Spec, ImplementsLedger, Ledger!Spec

----------------------------------------------------------------------------
(* The buffer comes before the deadlines                                     *)

AnsweredIfBuffered ==
  \A h \in Range(pending) :
    told'[h] # told[h] /\ h \in Range(buffered) => told'[h] = <<"Answered">>

LEMMA ToldOne ==
  ASSUME TrackerInv, NEW x, NEW o, Tell(x, o), NEW h \in Pending
  PROVE  /\ told'[h] # told[h] => h = x
         /\ h = x => told'[h] = <<o>>
<1>1. told \in [Handles -> Seq(Outcome)] /\ h \in Handles /\ told[h] = <<>>
  BY BooksSets DEF TrackerInv, TypeOK, BooksType, PlacesInv, Told
<1>2. told'[h] = IF h = x THEN Append(told[h], o) ELSE told[h]
  BY <1>1 DEF Tell
<1>3. Append(<<>>, o) = <<o>>
  OBVIOUS
<1>4. QED
  BY <1>1, <1>2, <1>3, Zenon

LEMMA StepBuffered ==
  ASSUME TrackerInv, [Next]_vars
  PROVE  AnsweredIfBuffered
<1> SUFFICES ASSUME NEW h \in Pending, told'[h] # told[h], h \in Range(buffered)
             PROVE  told'[h] = <<"Answered">>
  BY DEF AnsweredIfBuffered, Pending
<1> USE DEF TrackerInv
<1>b. buffered # <<>> /\ mqtt
  BY SeqDomain DEF TypeOK, BufferInv
<1>1. CASE \/ Dispatch \/ Mint \/ Published \/ Dialled \/ PushallDone \/ Fails \/ ReadsTelemetry
           \/ Raw \/ RawConnected \/ Request \/ WaitEvicts \/ Disconnected \/ Attached \/ Cancel
           \/ (\E g \in Handles : RawReads(g) \/ Expire(g))
           \/ (\E op \in {"disconnect", "attach"} : Close(op))
           \/ UNCHANGED vars
  <2>1. UNCHANGED told
    BY <1>1 DEF Dispatch, Mint, Published, Dialled, PushallDone, Fails, ReadsTelemetry, Raw,
                RawConnected, Request, WaitEvicts, Disconnected, Attached, Cancel, RawReads, Expire,
                Close, InstallMqtt, vars
  <2>2. QED
    BY <2>1
<1>2. CASE Poll
  <2>1. Classify(Head(buffered))
    BY <1>2, <1>b DEF Poll, BufferFirst
  <2>2. Tell(Head(buffered), "Answered")
    BY <2>1 DEF Classify
  <2>3. QED
    BY <2>2, ToldOne
<1>3. CASE PollConnected
  BY <1>3, <1>b DEF PollConnected, BufferInv
<1>4. ASSUME NEW g \in Handles, PollReads(g) PROVE FALSE
  BY <1>4, <1>b DEF PollReads, BufferInv
<1>5. ASSUME NEW g \in Handles, WaitReads(g) PROVE told'[h] = <<"Answered">>
  <2>1. Tell(g, "Answered")
    BY <1>5 DEF WaitReads
  <2>2. QED
    BY <2>1, ToldOne
<1>6. ASSUME NEW g \in Handles, AwaitAck(g) PROVE FALSE
  <2>1. PICK i \in ReadyIndices(g) : Tell(g, ready[i].outcome)
    BY <1>6 DEF AwaitAck
  <2>2. g \in Ready
    BY <2>1, BooksSets DEF TypeOK, BooksType, ReadyIndices
  <2>3. h = g
    BY <2>1, ToldOne
  <2>4. QED
    BY <2>2, <2>3 DEF PlacesInv
<1>7. CASE WaitStarts
  <2>1. Tell(fut.h, "Answered")
    BY <1>7 DEF WaitStarts
  <2>2. QED
    BY <2>1, ToldOne
<1>8. CASE WaitEnds
  <2>1. fut.op = "ack" /\ Tell(fut.h, "TimedOut") /\ fut.at = "wait"
    BY <1>8 DEF WaitEnds
  <2>2. h = fut.h
    BY <2>1, ToldOne
  <2>3. QED
    BY <2>1, <2>2 DEF BufferInv
<1>9. QED
  BY <1>1, <1>2, <1>3, <1>4, <1>5, <1>6, <1>7, <1>8 DEF Next

\* poll_telemetry drains the buffer before it looks at the deadlines, and
\* await_ack looks there before it waits: a pending command whose echo has been
\* read is never reported as timed out or lost.
THEOREM NotTimedOutTheorem == ~CancelClose /\ Spec => NotTimedOutWhileBuffered
<1>1. TrackerInv /\ [Next]_vars => [AnsweredIfBuffered]_vars
  BY StepBuffered
<1>2. QED
  BY <1>1, TrackerInvariant, PTL DEF Spec, NotTimedOutWhileBuffered, AnsweredIfBuffered
============================================================================

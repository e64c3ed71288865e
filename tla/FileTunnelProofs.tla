-------------------------- MODULE FileTunnelProofs --------------------------
(***************************************************************************)
(* The file tunnel's session for files, limits and bounds of any size: its *)
(* state is well-typed, it takes no frame of another request as its own,   *)
(* one it leaves usable has nothing of an earlier operation on it, and a   *)
(* transfer it reports as done is whole.                                   *)
(***************************************************************************)
EXTENDS FileTunnel, SequenceTheorems, TLAPS

----------------------------------------------------------------------------
(* Types                                                                     *)

Steps == {"idle", "send", "reply", "chunk", "final", "csend", "creply"}
Outcomes == {"none", "ok", "err"}
OpType ==
    [at : Steps, cmd : Commands \cup {"none"}, seq : 0..SeqMax, id : Nat, task : 0..SeqMax,
     skipped : Nat, ret : Outcomes, max : Int, start : Nat, len : Nat, index : Nat, finals : Nat]
MsgType ==
    [cmd : Commands \cup {"CHUNK", "TASK_CANCEL"}, seq : 0..SeqMax, id : Nat, task : 0..SeqMax,
     off : Nat, data : Seq(Blocks), md5 : Seq(Blocks)]
TaskType == [id : Nat, seq : 0..SeqMax, cmd : Commands, part : Seq(Blocks), sent : Int]
Results == {"none", "success", "fail", "continue", "exist"}
FrameType ==
    [kind : {"reply", "notify", "reject", "garbled"}, id : Nat, seq : 0..SeqMax,
     cmd : Commands \cup {"none", "TASK_CANCEL"},
     result : Results, body : Bodies]

\* An operation that may still need a cancel has room to send it, and a dial in
\* progress has no operation.
Typed ==
    /\ tunnel \in {"none", "login", "setup", "open"}
    /\ poisoned \in BOOLEAN /\ next_sequence \in 1..SeqMax
    /\ op \in OpType /\ got \in Seq(Blocks) /\ stored \in Seq(Blocks)
    /\ last.res \in Outcomes
    /\ inbox \in Seq(MsgType) /\ tasks \subseteq TaskType /\ wire \in Seq(FrameType)
    /\ torn \subseteq {"up", "down"}
    /\ asked \in Nat /\ defects \in 0..MaxDefects
    /\ dropped \in BOOLEAN /\ unread \in BOOLEAN /\ foreign \in BOOLEAN
    /\ tunnel # "open" => op.at = "idle"
    /\ op.at # "idle" => op.cmd \in Commands
    /\ op.at \in {"send", "reply", "chunk", "final"} => asked + 1 <= MaxRequests

----------------------------------------------------------------------------
(* Sequences, entry by entry                                                 *)

LEMMA SeqEntries ==
    ASSUME NEW S, NEW s \in Seq(S)
    PROVE  /\ Len(s) \in Nat /\ DOMAIN s = 1..Len(s)
           /\ \A i \in DOMAIN s : s[i] \in S
  BY LenProperties, ElementOfSeq

LEMMA TailEntries ==
    ASSUME NEW S, NEW s \in Seq(S), s # <<>>
    PROVE  /\ Tail(s) \in Seq(S) /\ Head(s) \in S /\ Head(s) = s[1]
           /\ 1 \in DOMAIN s
           /\ \A i \in DOMAIN Tail(s) : i + 1 \in DOMAIN s /\ Tail(s)[i] = s[i + 1] /\ i \in Nat
  <1>1. Len(s) \in Nat \ {0} /\ DOMAIN s = 1..Len(s)
    BY LenProperties, EmptySeq
  <1>2. /\ Tail(s) \in Seq(S) /\ Len(Tail(s)) = Len(s) - 1
        /\ \A k \in 1..(Len(s) - 1) : Tail(s)[k] = s[k + 1]
        /\ Head(s) = s[1] /\ Head(s) \in S
    BY HeadTailProperties
  <1>3. DOMAIN Tail(s) = 1..(Len(s) - 1)
    BY <1>2, LenProperties
  <1> QED BY <1>1, <1>2, <1>3

LEMMA AppendEntries ==
    ASSUME NEW S, NEW s \in Seq(S), NEW x \in S
    PROVE  /\ Append(s, x) \in Seq(S) /\ s \o <<x>> = Append(s, x)
           /\ DOMAIN Append(s, x) = 1..(Len(s) + 1) /\ Len(s) \in Nat /\ DOMAIN s = 1..Len(s)
           /\ \A i \in DOMAIN s : Append(s, x)[i] = s[i]
           /\ Append(s, x)[Len(s) + 1] = x
           /\ \A i \in DOMAIN Append(s, x) :
                \/ i \in DOMAIN s /\ Append(s, x)[i] = s[i]
                \/ i = Len(s) + 1 /\ Append(s, x)[i] = x
  <1>1. Len(s) \in Nat /\ DOMAIN s = 1..Len(s)
    BY LenProperties
  <1>2. /\ Append(s, x) \in Seq(S) /\ Len(Append(s, x)) = Len(s) + 1
        /\ \A i \in 1..Len(s) : Append(s, x)[i] = s[i]
        /\ Append(s, x)[Len(s) + 1] = x
    BY AppendProperties
  <1>3. DOMAIN Append(s, x) = 1..(Len(s) + 1)
    BY <1>2, LenProperties
  <1>4. s \o <<x>> = Append(s, x)
    BY <1>1, <1>2
  <1> QED BY <1>1, <1>2, <1>3, <1>4

\* A part of a sequence that is not longer than it.
LEMMA PartOfSeq ==
    ASSUME NEW S, NEW s \in Seq(S), NEW m \in Nat \ {0}, NEW n \in Nat, n <= Len(s)
    PROVE  SubSeq(s, m, n) \in Seq(S)
  <1>1. Len(s) \in Nat /\ DOMAIN s = 1..Len(s)
    BY LenProperties
  <1> QED BY <1>1

LEMMA FileSeq == File \in Seq(Blocks) /\ Len(File) = FileLen /\ <<Garbage>> \in Seq(Blocks)
  BY FileTunnelConstants DEF File, Blocks, Garbage

----------------------------------------------------------------------------
(* A clean stream: what is in transit and open at the printer, by the step  *)
(* the operation `o` is at.  q is the inbox, ts the tasks, w the wire.       *)

IsReply(f) == f.kind = "reply"
\* The printer has ended the task: nothing more of it follows.
Ends(f) == IsReply(f) /\ f.result \notin {"continue", "exist"}

\* The chunks of an upload that the printer has refused are still on their way.
OnlyChunks(q) == \A i \in DOMAIN q : q[i].cmd = "CHUNK"
OneRequest(q) == \A i, j \in DOMAIN q : q[i].cmd # "CHUNK" /\ q[j].cmd # "CHUNK" => i = j
NoReplies(w) == \A i \in DOMAIN w : ~IsReply(w[i])
OneTask(ts) == \A t, u \in ts : t = u

\* Nothing runs, or the request is not out yet.
CleanIdle(q, ts, w) == OnlyChunks(q) /\ ts = {} /\ NoReplies(w)

\* The operation's request, its task and the answers are its own; the answer
\* that ends the task is the last one, and only an upload's first may be EXIST.
CleanRun(o, q, ts, w) ==
    /\ \A t \in ts : t.seq = o.seq
    /\ \A i \in DOMAIN w : IsReply(w[i]) => w[i].seq = o.seq
    /\ \A i \in DOMAIN w : Ends(w[i]) =>
         ts = {} /\ OnlyChunks(q) /\ \A j \in DOMAIN w : j > i => ~IsReply(w[j])
    /\ \A i \in DOMAIN w : IsReply(w[i]) /\ w[i].result = "exist" =>
         /\ o.at = "reply" /\ o.cmd = "FILE_UPLOAD"
         /\ \A j \in DOMAIN w : j < i => ~IsReply(w[j])
    /\ \A i \in DOMAIN q : q[i].cmd # "CHUNK" =>
         /\ o.at = "reply" /\ q[i].cmd = o.cmd /\ q[i].seq = o.seq
         /\ ts = {} /\ NoReplies(w)
    /\ OneRequest(q)

\* The stopped stream may still be sending; the cancel's success is the last of it.
CleanCancel(o, q, ts, w) ==
    /\ o.task # o.seq
    /\ \A t \in ts : t.seq = o.task
    /\ \A i \in DOMAIN w : IsReply(w[i]) => w[i].seq \in {o.task, o.seq}
    /\ \A i \in DOMAIN w : IsReply(w[i]) /\ w[i].seq = o.seq =>
         /\ o.at = "creply" /\ OnlyChunks(q)
         /\ w[i].result = "success" => ts = {} /\ \A j \in DOMAIN w : j > i => ~IsReply(w[j])
    /\ \A i \in DOMAIN q : q[i].cmd # "CHUNK" =>
         o.at = "creply" /\ q[i].cmd = "TASK_CANCEL" /\ q[i].task = o.task /\ q[i].seq = o.seq
    /\ OneRequest(q)

CleanAt(o, q, ts, w) ==
    /\ OneTask(ts)
    /\ o.at \in {"idle", "send"} => CleanIdle(q, ts, w)
    /\ o.at \in {"reply", "chunk", "final"} => CleanRun(o, q, ts, w)
    /\ o.at \in {"csend", "creply"} => CleanCancel(o, q, ts, w)

\* Reading a frame off the wire leaves a clean stream clean.
LEMMA CleanTail ==
    ASSUME NEW o, NEW q, NEW ts, NEW w \in Seq(FrameType), w # <<>>
    PROVE  /\ CleanIdle(q, ts, w) => CleanIdle(q, ts, Tail(w))
           /\ CleanRun(o, q, ts, w) => CleanRun(o, q, ts, Tail(w))
           /\ CleanCancel(o, q, ts, w) => CleanCancel(o, q, ts, Tail(w))
  <1> DEFINE v == Tail(w)
  <1>1. \A i \in DOMAIN v : i + 1 \in DOMAIN w /\ v[i] = w[i + 1] /\ i \in Nat
    BY TailEntries
  <1>2. \A i, j \in Nat : (j > i => j + 1 > i + 1) /\ (j < i => j + 1 < i + 1)
    OBVIOUS
  <1> HIDE DEF v
  <1>3. NoReplies(w) => NoReplies(v)
    BY <1>1 DEF NoReplies
  <1>4. CleanIdle(q, ts, w) => CleanIdle(q, ts, v)
    BY <1>3 DEF CleanIdle
  <1>5. ASSUME CleanRun(o, q, ts, w) PROVE CleanRun(o, q, ts, v)
    <2>1. \A i \in DOMAIN v : IsReply(v[i]) => v[i].seq = o.seq
      BY <1>1, <1>5 DEF CleanRun
    <2>2. ASSUME NEW i \in DOMAIN v, Ends(v[i])
          PROVE  ts = {} /\ OnlyChunks(q) /\ \A j \in DOMAIN v : j > i => ~IsReply(v[j])
      <3>1. i + 1 \in DOMAIN w /\ Ends(w[i + 1])  BY <1>1, <2>2
      <3>2. ts = {} /\ OnlyChunks(q) /\ \A j \in DOMAIN w : j > i + 1 => ~IsReply(w[j])
        BY <3>1, <1>5 DEF CleanRun
      <3> QED BY <1>1, <1>2, <3>2
    <2>3. ASSUME NEW i \in DOMAIN v, IsReply(v[i]), v[i].result = "exist"
          PROVE  /\ o.at = "reply" /\ o.cmd = "FILE_UPLOAD"
                 /\ \A j \in DOMAIN v : j < i => ~IsReply(v[j])
      <3>1. i + 1 \in DOMAIN w /\ IsReply(w[i + 1]) /\ w[i + 1].result = "exist"  BY <1>1, <2>3
      <3>2. /\ o.at = "reply" /\ o.cmd = "FILE_UPLOAD"
            /\ \A j \in DOMAIN w : j < i + 1 => ~IsReply(w[j])
        BY <3>1, <1>5 DEF CleanRun
      <3> QED BY <1>1, <1>2, <3>2
    <2> QED BY <1>3, <1>5, <2>1, <2>2, <2>3 DEF CleanRun
  <1>6. ASSUME CleanCancel(o, q, ts, w) PROVE CleanCancel(o, q, ts, v)
    <2>1. \A i \in DOMAIN v : IsReply(v[i]) => v[i].seq \in {o.task, o.seq}
      BY <1>1, <1>6 DEF CleanCancel
    <2>2. ASSUME NEW i \in DOMAIN v, IsReply(v[i]), v[i].seq = o.seq
          PROVE  /\ o.at = "creply" /\ OnlyChunks(q)
                 /\ v[i].result = "success" => ts = {} /\ \A j \in DOMAIN v : j > i => ~IsReply(v[j])
      <3>1. i + 1 \in DOMAIN w /\ IsReply(w[i + 1]) /\ w[i + 1].seq = o.seq /\ v[i] = w[i + 1]
        BY <1>1, <2>2
      <3>2. /\ o.at = "creply" /\ OnlyChunks(q)
            /\ w[i + 1].result = "success" =>
                 ts = {} /\ \A j \in DOMAIN w : j > i + 1 => ~IsReply(w[j])
        BY <3>1, <1>6 DEF CleanCancel
      <3> QED BY <1>1, <1>2, <3>1, <3>2
    <2> QED BY <1>6, <2>1, <2>2 DEF CleanCancel
  <1> QED BY <1>4, <1>5, <1>6 DEF v

\* The frame that ends the operation's task leaves the stream as before the request.
LEMMA CleanEnd ==
    ASSUME NEW o, NEW q, NEW ts, NEW w \in Seq(FrameType), w # <<>>,
           \/ CleanRun(o, q, ts, w) /\ Ends(w[1])
           \/ CleanCancel(o, q, ts, w) /\ IsReply(w[1]) /\ w[1].seq = o.seq /\ w[1].result = "success"
    PROVE  CleanIdle(q, ts, Tail(w))
  <1>1. 1 \in DOMAIN w /\ \A i \in DOMAIN Tail(w) : i + 1 \in DOMAIN w /\ Tail(w)[i] = w[i + 1] /\ i + 1 > 1
    <2>1. DOMAIN Tail(w) = 1..Len(Tail(w)) /\ Len(Tail(w)) \in Nat
      BY TailEntries, LenProperties
    <2> QED BY <2>1, TailEntries
  <1>2. ts = {} /\ OnlyChunks(q) /\ \A j \in DOMAIN w : j > 1 => ~IsReply(w[j])
    BY <1>1 DEF CleanRun, CleanCancel
  <1> QED BY <1>1, <1>2 DEF CleanIdle, NoReplies

\* A frame that answers no request.
LEMMA CleanNotify ==
    ASSUME NEW o, NEW q, NEW ts, NEW w \in Seq(FrameType), NEW f \in FrameType, ~IsReply(f),
           CleanAt(o, q, ts, w)
    PROVE  CleanAt(o, q, ts, Append(w, f))
  <1> DEFINE v == Append(w, f)
  <1>1. /\ DOMAIN w = 1..Len(w) /\ DOMAIN v = 1..(Len(w) + 1) /\ Len(w) \in Nat
        /\ \A i \in DOMAIN v : (i \in DOMAIN w /\ v[i] = w[i]) \/ (i = Len(w) + 1 /\ v[i] = f)
    BY AppendEntries
  <1> HIDE DEF v
  <1>2. \A i \in DOMAIN v : IsReply(v[i]) => i \in DOMAIN w /\ v[i] = w[i]
    BY <1>1
  <1>3. NoReplies(w) => NoReplies(v)
    BY <1>2 DEF NoReplies
  <1>4. CleanIdle(q, ts, w) => CleanIdle(q, ts, v)
    BY <1>3 DEF CleanIdle
  <1>5. CleanRun(o, q, ts, w) => CleanRun(o, q, ts, v)
    BY <1>2, <1>3 DEF CleanRun, Ends
  <1>6. CleanCancel(o, q, ts, w) => CleanCancel(o, q, ts, v)
    BY <1>2 DEF CleanCancel
  <1> QED BY <1>4, <1>5, <1>6 DEF CleanAt, v

\* A frame of the one open task: another one is due, or the task is over.
LEMMA CleanTaskSends ==
    ASSUME NEW o \in OpType, NEW q, NEW ts, NEW t \in ts, NEW us, NEW w \in Seq(FrameType),
           NEW f \in FrameType, IsReply(f), f.seq = t.seq, f.result # "exist",
           CleanAt(o, q, ts, w),
           \/ f.result = "continue" /\ OneTask(us) /\ \A u \in us : u.seq = t.seq
           \/ us = {}
    PROVE  CleanAt(o, q, us, Append(w, f))
  <1> DEFINE v == Append(w, f)
  <1>1. /\ DOMAIN w = 1..Len(w) /\ DOMAIN v = 1..(Len(w) + 1) /\ Len(w) \in Nat
        /\ \A i \in DOMAIN v : (i \in DOMAIN w /\ v[i] = w[i]) \/ (i = Len(w) + 1 /\ v[i] = f)
    BY AppendEntries
  <1>2. \A i, j \in DOMAIN v : i = Len(w) + 1 => ~(j > i)
    BY <1>1
  <1> HIDE DEF v
  <1>3. ts # {}  OBVIOUS
  <1>4. OneTask(us) /\ \A u \in us : u.seq = t.seq  BY DEF OneTask
  <1>5. CASE o.at \in {"idle", "send"}
    BY <1>3, <1>5 DEF CleanAt, CleanIdle
  <1>6. CASE o.at \in {"reply", "chunk", "final"}
    <2>1. CleanRun(o, q, ts, w)  BY <1>6 DEF CleanAt
    <2>2. t.seq = o.seq  BY <2>1 DEF CleanRun
    <2>3. (\A i \in DOMAIN w : ~Ends(w[i])) /\ OnlyChunks(q)
      BY <1>3, <2>1 DEF CleanRun, OnlyChunks
    <2>4. \A i \in DOMAIN v : IsReply(v[i]) => v[i].seq = o.seq
      BY <1>1, <2>1, <2>2 DEF CleanRun
    <2>5. ASSUME NEW i \in DOMAIN v, Ends(v[i])
          PROVE  us = {} /\ OnlyChunks(q) /\ \A j \in DOMAIN v : j > i => ~IsReply(v[j])
      <3>1. i = Len(w) + 1 /\ v[i] = f  BY <1>1, <2>3, <2>5
      <3>2. us = {}  BY <3>1, <2>5 DEF Ends
      <3> QED BY <3>1, <3>2, <1>2, <2>3
    <2>6. ASSUME NEW i \in DOMAIN v, IsReply(v[i]), v[i].result = "exist"
          PROVE  /\ o.at = "reply" /\ o.cmd = "FILE_UPLOAD"
                 /\ \A j \in DOMAIN v : j < i => ~IsReply(v[j])
      <3>1. i \in DOMAIN w /\ v[i] = w[i]  BY <1>1, <2>6
      <3>2. /\ o.at = "reply" /\ o.cmd = "FILE_UPLOAD"
            /\ \A j \in DOMAIN w : j < i => ~IsReply(w[j])
        BY <3>1, <2>1, <2>6 DEF CleanRun
      <3>3. \A j \in DOMAIN v : j < i => j \in DOMAIN w /\ v[j] = w[j]
        BY <3>1, <1>1
      <3> QED BY <3>2, <3>3
    <2>7. CleanRun(o, q, us, v)
      BY <2>1, <2>2, <2>3, <2>4, <2>5, <2>6, <1>4 DEF CleanRun, OnlyChunks, OneRequest
    <2> QED BY <1>4, <1>6, <2>7 DEF CleanAt, v
  <1>7. CASE o.at \in {"csend", "creply"}
    <2>1. CleanCancel(o, q, ts, w)  BY <1>7 DEF CleanAt
    <2>2. t.seq = o.task /\ o.task # o.seq  BY <2>1 DEF CleanCancel
    <2>3. \A i \in DOMAIN v : IsReply(v[i]) => v[i].seq \in {o.task, o.seq}
      BY <1>1, <2>1, <2>2 DEF CleanCancel
    <2>4. ASSUME NEW i \in DOMAIN v, IsReply(v[i]), v[i].seq = o.seq
          PROVE  /\ o.at = "creply" /\ OnlyChunks(q)
                 /\ v[i].result = "success" => us = {} /\ \A j \in DOMAIN v : j > i => ~IsReply(v[j])
      <3>1. i \in DOMAIN w /\ v[i] = w[i]  BY <1>1, <2>2, <2>4
      <3>2. o.at = "creply" /\ OnlyChunks(q) /\ w[i].result # "success"
        BY <3>1, <2>1, <2>4, <1>3 DEF CleanCancel
      <3> QED BY <3>1, <3>2
    <2>5. CleanCancel(o, q, us, v)
      BY <2>1, <2>2, <2>3, <2>4, <1>4 DEF CleanCancel
    <2> QED BY <1>4, <1>7, <2>5 DEF CleanAt, v
  <1>8. o.at \in Steps  BY DEF OpType
  <1> QED BY <1>5, <1>6, <1>7, <1>8 DEF Steps

\* The printer takes a chunk off the inbox.
LEMMA CleanChunkRead ==
    ASSUME NEW o \in OpType, NEW q \in Seq(MsgType), NEW ts, NEW w, q # <<>>, CleanAt(o, q, ts, w)
    PROVE  /\ CleanAt(o, Tail(q), ts, w)
           /\ Head(q).cmd # "CHUNK" => OnlyChunks(Tail(q))
  <1> DEFINE p == Tail(q)
  <1>1. Head(q) = q[1] /\ 1 \in DOMAIN q
        /\ \A i \in DOMAIN p : i + 1 \in DOMAIN q /\ p[i] = q[i + 1] /\ i \in Nat
    BY TailEntries
  <1>2. \A i, j \in Nat : i + 1 = j + 1 => i = j  OBVIOUS
  <1>3. \A i \in Nat : i \in DOMAIN p => i + 1 # 1
    <2>1. DOMAIN p = 1..Len(p) /\ Len(p) \in Nat  BY TailEntries, LenProperties
    <2> QED BY <2>1
  <1> HIDE DEF p
  <1>4. OnlyChunks(q) => OnlyChunks(p)  BY <1>1 DEF OnlyChunks
  <1>5. OneRequest(q) => OneRequest(p)  BY <1>1, <1>2 DEF OneRequest
  <1>6. OneRequest(q) /\ Head(q).cmd # "CHUNK" => OnlyChunks(p)
    BY <1>1, <1>3 DEF OneRequest, OnlyChunks
  <1>7. OnlyChunks(q) => OneRequest(q)  BY DEF OnlyChunks, OneRequest
  <1>8. CleanIdle(q, ts, w) => CleanIdle(p, ts, w)  BY <1>4 DEF CleanIdle
  <1>9. CleanRun(o, q, ts, w) => CleanRun(o, p, ts, w)
    BY <1>1, <1>4, <1>5 DEF CleanRun
  <1>10. CleanCancel(o, q, ts, w) => CleanCancel(o, p, ts, w)
    BY <1>1, <1>4, <1>5 DEF CleanCancel
  <1>11. CleanAt(o, p, ts, w)
    BY <1>8, <1>9, <1>10 DEF CleanAt
  <1>12. OneRequest(q)
    <2>1. o.at \in Steps  BY DEF OpType
    <2>2. CleanIdle(q, ts, w) \/ CleanRun(o, q, ts, w) \/ CleanCancel(o, q, ts, w)
      BY <2>1 DEF CleanAt, Steps
    <2> QED BY <2>2, <1>7 DEF CleanIdle, CleanRun, CleanCancel
  <1> QED BY <1>6, <1>11, <1>12 DEF p

\* An operation that goes on after a frame: the frame was a reply if the operation's step changes.
LEMMA CleanGoesOn ==
    ASSUME NEW o \in OpType, NEW o2 \in OpType, NEW q, NEW ts, NEW w \in Seq(FrameType), w # <<>>,
           CleanAt(o, q, ts, w),
           o2.seq = o.seq, o2.cmd = o.cmd, o2.task = o.task,
           o2.at = o.at \/ (o.at = "reply" /\ o2.at = "chunk" /\ IsReply(w[1]))
    PROVE  CleanAt(o2, q, ts, Tail(w))
  <1>1. CASE o2.at = o.at
    <2>1. CleanAt(o, q, ts, Tail(w))
      BY CleanTail DEF CleanAt
    <2> QED BY <1>1, <2>1 DEF CleanAt, CleanRun, CleanCancel
  <1>2. CASE o.at = "reply" /\ o2.at = "chunk" /\ IsReply(w[1])
    <2>1. CleanRun(o, q, ts, w) /\ OneTask(ts)  BY <1>2 DEF CleanAt
    <2>2. CleanRun(o, q, ts, Tail(w))  BY <2>1, CleanTail
    <2>3. 1 \in DOMAIN w /\ \A i \in DOMAIN Tail(w) : i + 1 \in DOMAIN w /\ Tail(w)[i] = w[i + 1]
                            /\ 1 < i + 1
      <3>1. DOMAIN Tail(w) = 1..Len(Tail(w)) /\ Len(Tail(w)) \in Nat
        BY TailEntries, LenProperties
      <3> QED BY <3>1, TailEntries
    <2>4. \A i \in DOMAIN q : q[i].cmd = "CHUNK"
      BY <2>1, <2>3, <1>2 DEF CleanRun, NoReplies
    <2>5. \A i \in DOMAIN Tail(w) : ~(IsReply(Tail(w)[i]) /\ Tail(w)[i].result = "exist")
      BY <2>1, <2>3, <1>2 DEF CleanRun
    <2>6. CleanRun(o2, q, ts, Tail(w))
      BY <2>2, <2>4, <2>5 DEF CleanRun
    <2> QED BY <1>2, <2>1, <2>6 DEF CleanAt
  <1> QED BY <1>1, <1>2

\* A stream that is stopped: what is still to come of it is the cancelled task's.
LEMMA CleanAbandon ==
    ASSUME NEW o \in OpType, NEW o2 \in OpType, NEW q, NEW ts, NEW w, OneTask(ts),
           CleanRun(o, q, ts, w), OnlyChunks(q),
           o2.at = "csend", o2.task = o.seq, o2.seq # o.seq
    PROVE  CleanAt(o2, q, ts, w)
  <1>1. CleanCancel(o2, q, ts, w)
    BY DEF CleanCancel, CleanRun, OnlyChunks
  <1> QED BY <1>1 DEF CleanAt

\* A request, a cancel or a chunk is written.
LEMMA CleanWritten ==
    ASSUME NEW o \in OpType, NEW o2 \in OpType, NEW q \in Seq(MsgType), NEW m \in MsgType,
           NEW ts, NEW w,
           CleanAt(o, q, ts, w), o2.seq = o.seq, o2.cmd = o.cmd, o2.task = o.task, m.seq = o.seq,
           m.task = o.task,
           \/ o.at = "send" /\ o2.at = "reply" /\ m.cmd = o.cmd
           \/ o.at = "csend" /\ o2.at = "creply" /\ m.cmd = "TASK_CANCEL"
           \/ o.at = "chunk" /\ o2.at \in {"chunk", "final"} /\ m.cmd = "CHUNK"
    PROVE  CleanAt(o2, Append(q, m), ts, w)
  <1> DEFINE p == Append(q, m)
  <1>1. /\ DOMAIN q = 1..Len(q) /\ DOMAIN p = 1..(Len(q) + 1) /\ Len(q) \in Nat
        /\ \A i \in DOMAIN p : (i \in DOMAIN q /\ p[i] = q[i]) \/ (i = Len(q) + 1 /\ p[i] = m)
    BY AppendEntries
  <1> HIDE DEF p
  <1>2. OnlyChunks(q) => OneRequest(p)  BY <1>1 DEF OnlyChunks, OneRequest
  <1>3. OnlyChunks(q) /\ m.cmd = "CHUNK" => OnlyChunks(p)  BY <1>1 DEF OnlyChunks
  <1>4. OneTask(ts)  BY DEF CleanAt
  <1>5. CASE o.at = "send" /\ o2.at = "reply" /\ m.cmd = o.cmd
    <2>1. OnlyChunks(q) /\ ts = {} /\ NoReplies(w)  BY <1>5 DEF CleanAt, CleanIdle
    <2>2. CleanRun(o2, p, ts, w)
      BY <1>1, <1>2, <1>5, <2>1 DEF CleanRun, NoReplies, OnlyChunks, Ends
    <2> QED BY <1>4, <1>5, <2>2 DEF CleanAt, p
  <1>6. CASE o.at = "csend" /\ o2.at = "creply" /\ m.cmd = "TASK_CANCEL"
    <2>1. CleanCancel(o, q, ts, w)  BY <1>6 DEF CleanAt
    <2>2. OnlyChunks(q) /\ \A i \in DOMAIN w : ~(IsReply(w[i]) /\ w[i].seq = o.seq)
      BY <1>6, <2>1 DEF CleanCancel, OnlyChunks
    <2>3. CleanCancel(o2, p, ts, w)
      BY <1>1, <1>2, <1>6, <2>1, <2>2 DEF CleanCancel, OnlyChunks
    <2> QED BY <1>4, <1>6, <2>3 DEF CleanAt, p
  <1>7. CASE o.at = "chunk" /\ o2.at \in {"chunk", "final"} /\ m.cmd = "CHUNK"
    <2>1. CleanRun(o, q, ts, w)  BY <1>7 DEF CleanAt
    <2>2. OnlyChunks(q) /\ \A i \in DOMAIN w : ~(IsReply(w[i]) /\ w[i].result = "exist")
      BY <1>7, <2>1 DEF CleanRun, OnlyChunks
    <2>3. OnlyChunks(p) /\ OneRequest(p)  BY <1>2, <1>3, <1>7, <2>2
    <2>4. CleanRun(o2, p, ts, w)
      BY <2>1, <2>2, <2>3 DEF CleanRun, OnlyChunks
    <2> QED BY <1>4, <1>7, <2>4 DEF CleanAt, p
  <1> QED BY <1>5, <1>6, <1>7

\* The printer takes up a request: it may answer it, and it may open a task of it.
LEMMA CleanRequest ==
    ASSUME NEW o \in OpType, NEW q \in Seq(MsgType), NEW ts, NEW us, NEW w \in Seq(FrameType),
           NEW f \in FrameType, q # <<>>, Head(q).cmd \in Commands, CleanAt(o, q, ts, w),
           us = {} \/ \E u : us = ts \cup {u} /\ u.seq = Head(q).seq,
           IsReply(f), f.seq = Head(q).seq, f.result = "exist" => Head(q).cmd = "FILE_UPLOAD",
           us # {} => f.result \in {"continue", "exist"}
    PROVE  ts = {} /\ CleanAt(o, Tail(q), us, w) /\ CleanAt(o, Tail(q), us, Append(w, f))
  <1> DEFINE v == Append(w, f)
             p == Tail(q)
  <1>1. /\ DOMAIN w = 1..Len(w) /\ DOMAIN v = 1..(Len(w) + 1) /\ Len(w) \in Nat
        /\ \A i \in DOMAIN v : (i \in DOMAIN w /\ v[i] = w[i]) \/ (i = Len(w) + 1 /\ v[i] = f)
    BY AppendEntries
  <1>2. OnlyChunks(p)
    <2>1. Head(q).cmd # "CHUNK"  BY DEF Commands, Singles, Streams
    <2> QED BY <2>1, CleanChunkRead
  <1>3. 1 \in DOMAIN q /\ Head(q) = q[1] /\ q[1].cmd # "CHUNK" /\ q[1].cmd # "TASK_CANCEL"
    <2>1. 1 \in DOMAIN q /\ Head(q) = q[1]  BY TailEntries
    <2> QED BY <2>1 DEF Commands, Singles, Streams
  <1> HIDE DEF v, p
  <1>4. o.at \in {"reply", "chunk", "final"}
    <2>1. o.at \in Steps  BY DEF OpType
    <2>2. o.at \notin {"idle", "send"}  BY <1>3 DEF CleanAt, CleanIdle, OnlyChunks
    <2>3. o.at \notin {"csend", "creply"}  BY <1>3 DEF CleanAt, CleanCancel
    <2> QED BY <2>1, <2>2, <2>3 DEF Steps
  <1>5. CleanRun(o, q, ts, w)  BY <1>4 DEF CleanAt
  <1>6. o.at = "reply" /\ q[1].cmd = o.cmd /\ q[1].seq = o.seq /\ ts = {} /\ NoReplies(w)
    BY <1>3, <1>5 DEF CleanRun
  <1>7. OneTask(us) /\ \A u \in us : u.seq = o.seq
    BY <1>3, <1>6 DEF OneTask
  <1>8. OneRequest(p)  BY <1>2 DEF OnlyChunks, OneRequest
  <1>9. CleanRun(o, p, us, w)
    BY <1>2, <1>6, <1>7, <1>8 DEF CleanRun, OnlyChunks, NoReplies, Ends
  <1>10. \A i \in DOMAIN v : IsReply(v[i]) => i = Len(w) + 1 /\ v[i] = f
    BY <1>1, <1>6 DEF NoReplies
  <1>11. \A i, j \in DOMAIN v : i = Len(w) + 1 /\ j = Len(w) + 1 => ~(j > i) /\ ~(j < i)
    BY <1>1
  <1>12. ASSUME NEW i \in DOMAIN v, Ends(v[i])
         PROVE  us = {} /\ OnlyChunks(p) /\ \A j \in DOMAIN v : j > i => ~IsReply(v[j])
    BY <1>2, <1>10, <1>11, <1>12 DEF Ends
  <1>13. ASSUME NEW i \in DOMAIN v, IsReply(v[i]), v[i].result = "exist"
         PROVE  o.at = "reply" /\ o.cmd = "FILE_UPLOAD" /\ \A j \in DOMAIN v : j < i => ~IsReply(v[j])
    BY <1>3, <1>6, <1>10, <1>11, <1>13
  <1>14. CleanRun(o, p, us, v)
    BY <1>2, <1>3, <1>6, <1>7, <1>8, <1>10, <1>12, <1>13 DEF CleanRun, OnlyChunks
  <1> QED BY <1>6, <1>7, <1>4, <1>9, <1>14 DEF CleanAt, v, p

\* The printer takes up a cancel: it stops the task and says so, refuses, or says nothing.
LEMMA CleanStopped ==
    ASSUME NEW o \in OpType, NEW q \in Seq(MsgType), NEW ts, NEW us, NEW w \in Seq(FrameType),
           NEW f \in FrameType, q # <<>>, Head(q).cmd = "TASK_CANCEL", CleanAt(o, q, ts, w),
           IsReply(f), f.seq = Head(q).seq, us \subseteq ts,
           f.result = "success" => us = {t \in ts : t.seq # Head(q).task}
    PROVE  CleanAt(o, Tail(q), us, Append(w, f))
  <1> DEFINE v == Append(w, f)
             p == Tail(q)
  <1>1. /\ DOMAIN w = 1..Len(w) /\ DOMAIN v = 1..(Len(w) + 1) /\ Len(w) \in Nat
        /\ \A i \in DOMAIN v : (i \in DOMAIN w /\ v[i] = w[i]) \/ (i = Len(w) + 1 /\ v[i] = f)
    BY AppendEntries
  <1>2. OnlyChunks(p)
    BY CleanChunkRead
  <1>3. 1 \in DOMAIN q /\ Head(q) = q[1] /\ q[1].cmd = "TASK_CANCEL"
    BY TailEntries
  <1> HIDE DEF v, p
  <1>4. o.at \in {"csend", "creply"}
    <2>1. o.at \in Steps /\ o.cmd # "TASK_CANCEL"
      BY DEF OpType, Commands, Singles, Streams
    <2>2. o.at \notin {"idle", "send"}  BY <1>3 DEF CleanAt, CleanIdle, OnlyChunks
    <2>3. o.at \notin {"reply", "chunk", "final"}  BY <1>3, <2>1 DEF CleanAt, CleanRun
    <2> QED BY <2>1, <2>2, <2>3 DEF Steps
  <1>5. CleanCancel(o, q, ts, w)  BY <1>4 DEF CleanAt
  <1>6. o.at = "creply" /\ q[1].task = o.task /\ q[1].seq = o.seq
    BY <1>3, <1>5 DEF CleanCancel
  <1>7. \A i \in DOMAIN w : ~(IsReply(w[i]) /\ w[i].seq = o.seq)
    BY <1>3, <1>5 DEF CleanCancel, OnlyChunks
  <1>8. OneTask(us) /\ (\A u \in us : u.seq = o.task) /\ (f.result = "success" => us = {})
    BY <1>3, <1>5, <1>6 DEF CleanAt, OneTask, CleanCancel
  <1>9. OneRequest(p)  BY <1>2 DEF OnlyChunks, OneRequest
  <1>10. \A i, j \in DOMAIN v : i = Len(w) + 1 => ~(j > i)
    BY <1>1
  <1>11. ASSUME NEW i \in DOMAIN v, IsReply(v[i]), v[i].seq = o.seq
         PROVE  /\ o.at = "creply" /\ OnlyChunks(p)
                /\ v[i].result = "success" => us = {} /\ \A j \in DOMAIN v : j > i => ~IsReply(v[j])
    <2>1. i = Len(w) + 1 /\ v[i] = f  BY <1>1, <1>7, <1>11
    <2> QED BY <2>1, <1>2, <1>6, <1>8, <1>10
  <1>12. \A i \in DOMAIN v : IsReply(v[i]) => v[i].seq \in {o.task, o.seq}
    BY <1>1, <1>3, <1>5, <1>6 DEF CleanCancel
  <1>13. CleanCancel(o, p, us, v)
    BY <1>2, <1>5, <1>8, <1>9, <1>11, <1>12 DEF CleanCancel, OnlyChunks
  <1> QED BY <1>4, <1>8, <1>13 DEF CleanAt, v, p

\* The open task goes on with more of its content.
LEMMA CleanTaskGrows ==
    ASSUME NEW o \in OpType, NEW q, NEW ts, NEW t \in ts, NEW u, NEW w, u.seq = t.seq,
           CleanAt(o, q, ts, w)
    PROVE  CleanAt(o, q, (ts \ {t}) \cup {u}, w) /\ ts \ {t} = {}
  <1> DEFINE us == (ts \ {t}) \cup {u}
  <1>1. ts \ {t} = {}  BY DEF CleanAt, OneTask
  <1>2. us = {u}  BY <1>1
  <1>3. OneTask(us)  BY <1>2 DEF OneTask
  <1> HIDE DEF us
  <1>4. o.at \in {"idle", "send"} => FALSE  BY DEF CleanAt, CleanIdle
  <1>5. CleanRun(o, q, ts, w) => CleanRun(o, q, us, w)  BY <1>2 DEF CleanRun
  <1>6. CleanCancel(o, q, ts, w) => CleanCancel(o, q, us, w)  BY <1>2 DEF CleanCancel
  <1> QED BY <1>1, <1>3, <1>4, <1>5, <1>6 DEF CleanAt, us

----------------------------------------------------------------------------
(* Who a frame belongs to                                                    *)

\* x is the session's n-th request or an earlier one, or a part of it: the requests
\* are numbered from the `base` that were sent before the session.
OwnNumber(base, n, x) == x.seq \in 1..n /\ x.id = base + x.seq
Owned(base, n, o, q, ts, w) ==
    /\ o.at # "idle" => OwnNumber(base, n, o)
    /\ \A i \in DOMAIN q : OwnNumber(base, n, q[i])
    /\ \A t \in ts : OwnNumber(base, n, t)
    /\ \A i \in DOMAIN w : IsReply(w[i]) => OwnNumber(base, n, w[i])

SameNumber(x, y) == x.seq = y.seq /\ x.id = y.id
Known(x, o, q, ts, w) ==
    \/ o.at # "idle" /\ SameNumber(x, o)
    \/ \E i \in DOMAIN q : SameNumber(x, q[i])
    \/ \E t \in ts : SameNumber(x, t)
    \/ \E i \in DOMAIN w : IsReply(w[i]) /\ SameNumber(x, w[i])
AllKnown(o2, q2, ts2, w2, o, q, ts, w) ==
    /\ o2.at # "idle" => Known(o2, o, q, ts, w)
    /\ \A i \in DOMAIN q2 : Known(q2[i], o, q, ts, w)
    /\ \A t \in ts2 : Known(t, o, q, ts, w)
    /\ \A i \in DOMAIN w2 : IsReply(w2[i]) => Known(w2[i], o, q, ts, w)

LEMMA KnownIsOwn ==
    ASSUME NEW base, NEW n, NEW o, NEW q, NEW ts, NEW w, Owned(base, n, o, q, ts, w)
    PROVE  /\ \A x : Known(x, o, q, ts, w) => OwnNumber(base, n, x)
           /\ \A o2, q2, ts2, w2 : AllKnown(o2, q2, ts2, w2, o, q, ts, w) => Owned(base, n, o2, q2, ts2, w2)
  <1>1. \A x, y : SameNumber(x, y) /\ OwnNumber(base, n, y) => OwnNumber(base, n, x)
    BY DEF SameNumber, OwnNumber
  <1>2. \A x : Known(x, o, q, ts, w) => OwnNumber(base, n, x)
    BY <1>1 DEF Known, Owned
  <1> QED BY <1>2 DEF AllKnown, Owned

\* What is there is known; so is what is left of it.
LEMMA OldIsKnown ==
    ASSUME NEW o, NEW q \in Seq(MsgType), NEW ts, NEW w \in Seq(FrameType)
    PROVE  /\ o.at # "idle" => Known(o, o, q, ts, w)
           /\ \A i \in DOMAIN q : Known(q[i], o, q, ts, w)
           /\ \A t \in ts : Known(t, o, q, ts, w)
           /\ \A i \in DOMAIN w : IsReply(w[i]) => Known(w[i], o, q, ts, w)
           /\ q # <<>> => \A i \in DOMAIN Tail(q) : Known(Tail(q)[i], o, q, ts, w)
           /\ w # <<>> => \A i \in DOMAIN Tail(w) : IsReply(Tail(w)[i]) => Known(Tail(w)[i], o, q, ts, w)
           /\ q # <<>> => Known(Head(q), o, q, ts, w)
           /\ \A m \in MsgType : Known(m, o, q, ts, w) =>
                \A i \in DOMAIN Append(q, m) : Known(Append(q, m)[i], o, q, ts, w)
           /\ \A f \in FrameType : (IsReply(f) => Known(f, o, q, ts, w)) =>
                \A i \in DOMAIN Append(w, f) :
                    IsReply(Append(w, f)[i]) => Known(Append(w, f)[i], o, q, ts, w)
  <1>1. /\ o.at # "idle" => Known(o, o, q, ts, w)
        /\ \A i \in DOMAIN q : Known(q[i], o, q, ts, w)
        /\ \A t \in ts : Known(t, o, q, ts, w)
        /\ \A i \in DOMAIN w : IsReply(w[i]) => Known(w[i], o, q, ts, w)
    BY DEF Known, SameNumber
  <1>2. q # <<>> => /\ \A i \in DOMAIN Tail(q) : Known(Tail(q)[i], o, q, ts, w)
                    /\ Known(Head(q), o, q, ts, w)
    BY <1>1, TailEntries
  <1>3. w # <<>> => \A i \in DOMAIN Tail(w) : IsReply(Tail(w)[i]) => Known(Tail(w)[i], o, q, ts, w)
    BY <1>1, TailEntries
  <1>4. ASSUME NEW m \in MsgType, Known(m, o, q, ts, w), NEW i \in DOMAIN Append(q, m)
        PROVE  Known(Append(q, m)[i], o, q, ts, w)
    BY <1>1, <1>4, AppendEntries
  <1>5. ASSUME NEW f \in FrameType, IsReply(f) => Known(f, o, q, ts, w),
               NEW i \in DOMAIN Append(w, f), IsReply(Append(w, f)[i])
        PROVE  Known(Append(w, f)[i], o, q, ts, w)
    <2>1. (i \in DOMAIN w /\ Append(w, f)[i] = w[i]) \/ Append(w, f)[i] = f
      BY AppendEntries
    <2> QED BY <1>1, <1>5, <2>1
  <1> QED BY <1>1, <1>2, <1>3, <1>4, <1>5

----------------------------------------------------------------------------
(* The invariants                                                            *)

\* While an operation may still have to cancel, the sequence the cancel would take is another one.
NextInv == op.at \in {"send", "reply", "chunk", "final"} => next_sequence = AfterSequence(op.seq)

CleanInv ==
    (~poisoned /\ ~dropped /\ ~unread) => torn = {} /\ CleanAt(op, inbox, tasks, wire)

SessionInv == Typed /\ NextInv /\ CleanInv

Numbered(n) == next_sequence = n + 1 \/ (next_sequence = 1 /\ n = SeqMax)
OwnInv ==
    /\ ~foreign
    /\ \E base \in 0..asked :
         Numbered(asked - base) /\ Owned(base, asked - base, op, inbox, tasks, wire)

\* The counter does not come round: u32::MAX requests take longer than any session.
TunnelRoom == MaxRequests <= SeqMax

LEMMA TypedImpliesTypeOK == Typed => TypeOK
  <1> SUFFICES ASSUME Typed PROVE TypeOK  OBVIOUS
  <1>1. wire \in Seq(FrameType)  BY DEF Typed
  <1>2. \A i \in 1..Len(wire) : wire[i].body \in Bodies
    <2>1. \A i \in 1..Len(wire) : wire[i] \in FrameType  BY <1>1, SeqEntries
    <2>2. \A f \in FrameType : f.body \in Bodies  BY DEF FrameType
    <2> QED BY <2>1, <2>2
  <1>3. /\ op.at \in Steps /\ op.cmd \in Commands \cup {"none"} /\ op.seq \in 0..SeqMax
        /\ op.index \in Nat /\ op.start \in Nat /\ op.len \in Nat
    BY DEF Typed, OpType
  <1> QED BY <1>2, <1>3 DEF Typed, TypeOK, Steps, Outcomes

LEMMA NextIsAnother ==
    ASSUME NEW s \in 0..SeqMax
    PROVE  AfterSequence(s) \in 1..SeqMax /\ AfterSequence(s) # s
  BY FileTunnelConstants DEF AfterSequence

LEMMA IdleType == Idle \in OpType /\ Idle.at = "idle" /\ NoOutcome.res = "none"
  BY FileTunnelConstants DEF Idle, OpType, Steps, Outcomes, Unlimited, NoOutcome

\* A new stream has nothing on it.
LEMMA FreshClean ==
    ASSUME NEW o, o.at = "idle"
    PROVE  CleanAt(o, <<>>, {}, <<>>) /\ \A base, n : Owned(base, n, o, <<>>, {}, <<>>)
  <1>1. DOMAIN <<>> = {}  BY EmptySeq, LenProperties
  <1> QED BY <1>1 DEF CleanAt, OneTask, CleanIdle, OnlyChunks, NoReplies, Owned

LEMMA SessionInit == Init => SessionInv /\ OwnInv
  <1> SUFFICES ASSUME Init PROVE SessionInv /\ OwnInv  OBVIOUS
  <1>1. op \in OpType /\ op.at = "idle" /\ last.res \in Outcomes
    BY IdleType DEF Init, Outcomes
  <1>2. Typed
    <2>1. /\ got \in Seq(Blocks) /\ stored \in Seq(Blocks)
          /\ inbox \in Seq(MsgType) /\ wire \in Seq(FrameType)
      BY EmptySeq DEF Init
    <2>2. /\ poisoned \in BOOLEAN /\ dropped \in BOOLEAN /\ unread \in BOOLEAN
          /\ foreign \in BOOLEAN
      BY DEF Init
    <2>3. next_sequence \in 1..SeqMax /\ asked \in Nat /\ defects \in 0..MaxDefects
      BY FileTunnelConstants DEF Init
    <2> QED BY <1>1, <2>1, <2>2, <2>3 DEF Init, Typed
  <1>3. CleanInv /\ NextInv
    BY <1>1, FreshClean DEF Init, CleanInv, NextInv
  <1>4. OwnInv
    <2>1. Numbered(asked - 0) /\ Owned(0, asked - 0, op, inbox, tasks, wire) /\ 0 \in 0..asked
      BY <1>1, FreshClean DEF Init, Numbered
    <2> QED BY <2>1 DEF OwnInv, Init
  <1> QED BY <1>2, <1>3, <1>4 DEF SessionInv

----------------------------------------------------------------------------
(* What a step of the client does to the operation                           *)

Ended == op' = Idle /\ last'.res \in Outcomes /\ UNCHANGED <<next_sequence, asked>>

GoesOn ==
    /\ op' \in OpType
    /\ op'.seq = op.seq /\ op'.id = op.id /\ op'.cmd = op.cmd /\ op'.task = op.task
    /\ UNCHANGED <<poisoned, last, next_sequence, asked>>

Abandoned ==
    /\ op.at \in {"reply", "chunk"}
    /\ op' \in OpType /\ op'.at = "csend" /\ op'.task = op.seq /\ op'.cmd = op.cmd
    /\ op'.seq = next_sequence /\ op'.id = asked + 1
    /\ next_sequence' = AfterSequence(next_sequence) /\ asked' = asked + 1
    /\ UNCHANGED <<poisoned, last>>

TookReply ==
    /\ IsReply(wire[1]) /\ wire[1].seq = op.seq
    /\ foreign' = (foreign \/ wire[1].id # op.id)

\* The frame is the last one of its task: EXIST is one only where no upload begins.
LastOfTask ==
    /\ op.at # "creply" /\ wire[1].result # "continue"
    /\ wire[1].result = "exist" => ~(op.at = "reply" /\ op.cmd = "FILE_UPLOAD")

\* A frame is read: the operation ends, with the session poisoned unless this was the
\* last frame it had to expect, goes on, or stops its stream.
ReadEffect ==
    /\ Read
    /\ got' \in Seq(Blocks)
    /\ unread' \in BOOLEAN /\ (unread => unread')
    /\ UNCHANGED foreign \/ TookReply
    /\ \/ Ended /\ poisoned' = TRUE
       \/ /\ Ended /\ UNCHANGED poisoned /\ TookReply
          /\ \/ unread' = TRUE
             \/ LastOfTask
             \/ op.at = "creply" /\ wire[1].result = "success"
       \/ /\ GoesOn
          /\ op'.at = op.at \/ (op.at = "reply" /\ op'.at = "chunk" /\ TookReply)
       \/ Abandoned /\ TookReply

LEMMA ReturnEnds ==
    ASSUME NEW res \in Outcomes, Return(res)
    PROVE  Ended
  BY DEF Return, Ended

LEMMA PoisonEnds ==
    ASSUME NEW res \in Outcomes, Poison(res)
    PROVE  Ended /\ poisoned' = TRUE
  BY ReturnEnds DEF Poison

LEMMA BrokenEnds ==
    ASSUME Typed, Broken
    PROVE  Ended /\ poisoned' = TRUE
  <1>1. op.ret \in Outcomes  BY DEF Typed, OpType
  <1>2. PICK res \in Outcomes : Poison(res)
    <2>1. CASE op.at \in {"csend", "creply"}  BY <1>1, <2>1 DEF Broken, Outcomes
    <2>2. CASE op.at \notin {"csend", "creply"}  BY <2>2 DEF Broken, Outcomes
    <2> QED BY <2>1, <2>2
  <1> QED BY <1>2, PoisonEnds

LEMMA OpUpdates ==
    ASSUME NEW o \in OpType, NEW at \in Steps, NEW task \in 0..SeqMax, NEW seq \in 0..SeqMax,
           NEW id \in Nat, NEW skipped \in Nat, NEW ret \in Outcomes
    PROVE  /\ [o EXCEPT !.at = at, !.task = task, !.seq = seq, !.id = id, !.skipped = skipped,
                        !.ret = ret] \in OpType
           /\ [o EXCEPT !.skipped = skipped] \in OpType
           /\ [o EXCEPT !.index = skipped] \in OpType
           /\ \A n \in Nat : [o EXCEPT !.finals = n, !.skipped = skipped] \in OpType
           /\ [o EXCEPT !.at = at, !.skipped = skipped] \in OpType
  <1> DEFINE Sequences32 == 0..SeqMax
             Cmds == Commands \cup {"none"}
             N == Nat
             I == Int
  <1>1. OpType = [at : Steps, cmd : Cmds, seq : Sequences32, id : N, task : Sequences32,
                  skipped : N, ret : Outcomes, max : I, start : N, len : N, index : N, finals : N]
    BY DEF OpType
  <1>2. task \in Sequences32 /\ seq \in Sequences32 /\ id \in N /\ skipped \in N
    OBVIOUS
  <1>3. Nat = N  OBVIOUS
  <1> HIDE DEF Sequences32, Cmds, N, I
  <1>4. \A n \in N : [o EXCEPT !.finals = n, !.skipped = skipped] \in OpType
    BY <1>1, <1>2
  <1>5. /\ [o EXCEPT !.skipped = skipped] \in OpType
        /\ [o EXCEPT !.index = skipped] \in OpType
    BY <1>1, <1>2
  <1>6. /\ [o EXCEPT !.at = at, !.task = task, !.seq = seq, !.id = id, !.skipped = skipped,
                     !.ret = ret] \in OpType
        /\ [o EXCEPT !.at = at, !.skipped = skipped] \in OpType
    BY <1>1, <1>2
  <1> QED BY <1>3, <1>4, <1>5, <1>6

LEMMA AbandonStops ==
    ASSUME Typed, NEW res \in Outcomes, op.at \in {"reply", "chunk"}, abandon(res)
    PROVE  Abandoned
  <1>1. op' = [op EXCEPT !.at = "csend", !.task = op.seq, !.seq = next_sequence,
                         !.id = asked + 1, !.skipped = 0, !.ret = res]
    BY DEF abandon
  <1>2. op \in OpType /\ next_sequence \in 0..SeqMax /\ asked + 1 \in Nat
    BY FileTunnelConstants DEF Typed
  <1>3. op' \in OpType
    <2>1. "csend" \in Steps /\ op.seq \in 0..SeqMax /\ 0 \in Nat  BY <1>2 DEF Steps, OpType
    <2>2. [op EXCEPT !.at = "csend", !.task = op.seq, !.seq = next_sequence,
                     !.id = asked + 1, !.skipped = 0, !.ret = res] \in OpType
      BY <1>2, <2>1, OpUpdates
    <2> QED BY <1>1, <2>2
  <1>4. /\ op'.at = "csend" /\ op'.task = op.seq /\ op'.seq = next_sequence /\ op'.id = asked + 1
        /\ op'.cmd = op.cmd
    BY <1>1, <1>2 DEF OpType
  <1> QED BY <1>3, <1>4 DEF Abandoned, abandon, TakeSequence

\* Only what the operation counts changes.
LEMMA CountGoesOn ==
    ASSUME Typed, UNCHANGED <<poisoned, last, next_sequence, asked>>, NEW n \in Nat,
           \/ op' = [op EXCEPT !.skipped = n]
           \/ op' = [op EXCEPT !.index = n]
           \/ op' = [op EXCEPT !.finals = n, !.skipped = 0]
    PROVE  GoesOn /\ op'.at = op.at
  <1>1. op \in OpType  BY DEF Typed
  <1>2. op' \in OpType
    <2>1. /\ [op EXCEPT !.skipped = n] \in OpType
          /\ [op EXCEPT !.index = n] \in OpType
          /\ [op EXCEPT !.finals = n, !.skipped = 0] \in OpType
      <3>1. 0 \in Nat /\ op.at \in Steps /\ op.seq \in 0..SeqMax /\ op.id \in Nat /\ op.ret \in Outcomes
        BY <1>1 DEF OpType
      <3> QED BY <1>1, <3>1, OpUpdates
    <2> QED BY <2>1
  <1>3. /\ op'.at = op.at /\ op'.seq = op.seq /\ op'.id = op.id /\ op'.cmd = op.cmd
        /\ op'.task = op.task
    BY <1>1 DEF OpType
  <1> QED BY <1>2, <1>3 DEF GoesOn

LEMMA ReadFacts ==
    ASSUME Typed, Read
    PROVE  /\ wire # <<>> /\ wire[1] \in FrameType /\ Arrived = wire[1] /\ 1 \in DOMAIN wire
           /\ Arrived.body \in Bodies
  <1>1. wire \in Seq(FrameType) /\ wire # <<>>  BY DEF Typed, Read
  <1>2. wire[1] \in FrameType /\ Arrived = wire[1] /\ 1 \in DOMAIN wire
    BY <1>1, TailEntries DEF Arrived
  <1>3. Arrived.body \in Bodies
    BY <1>2 DEF FrameType
  <1> QED BY <1>1, <1>2, <1>3

LEMMA AcceptTakes ==
    ASSUME Typed, Accept
    PROVE  Read /\ TookReply
  <1>1. Read /\ Arrived.kind = "reply" /\ Arrived.seq = op.seq
        /\ foreign' = (foreign \/ Arrived.id # op.id)
    BY DEF Accept, Answers
  <1> QED BY <1>1, ReadFacts DEF TookReply, IsReply

LEMMA SkipEffect ==
    ASSUME Typed, SkipFrame
    PROVE  ReadEffect
  <1>1. Read /\ UNCHANGED <<got, unread, foreign>>  BY DEF SkipFrame
  <1>2. got \in Seq(Blocks) /\ unread \in BOOLEAN  BY DEF Typed
  <1>3. CASE BudgetLeft
    <2>1. op.skipped + 1 \in Nat  BY DEF Typed, OpType
    <2>2. op' = [op EXCEPT !.skipped = op.skipped + 1] /\ UNCHANGED <<poisoned, last, next_sequence, asked>>
      BY <1>3 DEF SkipFrame, Skipped
    <2>3. GoesOn /\ op'.at = op.at  BY <2>1, <2>2, CountGoesOn
    <2> QED BY <1>1, <1>2, <2>3 DEF ReadEffect
  <1>4. CASE ~BudgetLeft
    <2>1. Ended /\ poisoned' = TRUE  BY <1>4, BrokenEnds DEF SkipFrame
    <2> QED BY <1>1, <1>2, <2>1 DEF ReadEffect
  <1> QED BY <1>3, <1>4

LEMMA BrokenReadEffect ==
    ASSUME Typed, ReadBroken
    PROVE  ReadEffect
  <1>1. Read /\ UNCHANGED <<got, unread, foreign>>  BY DEF ReadBroken
  <1>2. got \in Seq(Blocks) /\ unread \in BOOLEAN  BY DEF Typed
  <1>3. Ended /\ poisoned' = TRUE  BY BrokenEnds DEF ReadBroken
  <1> QED BY <1>1, <1>2, <1>3 DEF ReadEffect

LEMMA SingleEffect ==
    ASSUME Typed, SingleReply
    PROVE  ReadEffect
  <1>1. Read /\ TookReply /\ UNCHANGED got /\ op.at = "reply"
    BY AcceptTakes DEF SingleReply
  <1>2. got \in Seq(Blocks) /\ unread \in BOOLEAN  BY DEF Typed
  <1>3. Arrived = wire[1] /\ wire[1] \in FrameType  BY <1>1, ReadFacts
  <1>4. CASE Arrived.body.part = "malformed"
    <2>1. Return("err") /\ UNCHANGED poisoned /\ unread' = TRUE
      BY <1>4 DEF SingleReply
    <2>2. Ended  BY <2>1, ReturnEnds DEF Outcomes
    <2> QED BY <1>1, <1>2, <2>1, <2>2 DEF ReadEffect
  <1>5. CASE Arrived.body.part # "malformed" /\ Arrived.result = "continue"
    <2>1. Poison("err") /\ unread' = unread
      BY <1>2, <1>5 DEF SingleReply
    <2>2. Ended /\ poisoned' = TRUE  BY <2>1, PoisonEnds DEF Outcomes
    <2> QED BY <1>1, <1>2, <2>1, <2>2 DEF ReadEffect
  <1>6. CASE Arrived.body.part # "malformed" /\ Arrived.result # "continue"
    <2>1. UNCHANGED poisoned /\ unread' = unread
      BY <1>2, <1>6 DEF SingleReply
    <2>2. PICK res \in Outcomes : Return(res)
      BY <1>6 DEF SingleReply, Outcomes
    <2>3. Ended  BY <2>2, ReturnEnds
    <2>4. LastOfTask  BY <1>1, <1>3, <1>6 DEF LastOfTask, SingleReply, Singles
    <2> QED BY <1>1, <1>2, <2>1, <2>3, <2>4 DEF ReadEffect
  <1> QED BY <1>4, <1>5, <1>6

\* The stream is stopped, or ends with this frame.
LEMMA StopEffect ==
    ASSUME Typed, Accept, op.at = "reply", op.cmd # "FILE_UPLOAD", NEW res \in Outcomes,
           got' \in Seq(Blocks), UNCHANGED unread,
           \/ StopStream(wire[1].result = "continue", res)
           \/ Senseless(wire[1].result = "continue") /\ poisoned \in BOOLEAN
           \/ Poison(res)
           \/ Return(res) /\ UNCHANGED poisoned /\ wire[1].result # "continue"
    PROVE  ReadEffect
  <1>1. Read /\ TookReply  BY AcceptTakes
  <1>2. unread \in BOOLEAN /\ poisoned \in BOOLEAN  BY DEF Typed
  <1>3. CASE Poison(res)
    <2>1. Ended /\ poisoned' = TRUE  BY <1>3, PoisonEnds
    <2> QED BY <1>1, <1>2, <2>1 DEF ReadEffect
  <1>4. ASSUME NEW r \in Outcomes, Return(r), UNCHANGED poisoned, wire[1].result # "continue"
        PROVE  ReadEffect
    <2>1. Ended  BY <1>4, ReturnEnds
    <2>2. LastOfTask  BY <1>4 DEF LastOfTask
    <2> QED BY <1>1, <1>2, <1>4, <2>1, <2>2 DEF ReadEffect
  <1>5. CASE StopStream(wire[1].result = "continue", res)
    <2>1. CASE wire[1].result = "continue"
      <3>1. abandon(res)  BY <1>5, <2>1 DEF StopStream
      <3>2. Abandoned  BY <3>1, AbandonStops
      <3> QED BY <1>1, <1>2, <3>2 DEF ReadEffect
    <2>2. CASE wire[1].result # "continue"
      <3>1. Return(res) /\ UNCHANGED poisoned  BY <1>5, <2>2 DEF StopStream
      <3> QED BY <1>4, <2>2, <3>1
    <2> QED BY <2>1, <2>2
  <1>6. CASE Senseless(wire[1].result = "continue")
    <2>1. Return("err") /\ "err" \in Outcomes  BY <1>6 DEF Senseless, Outcomes
    <2>2. CASE wire[1].result = "continue"
      <3>1. poisoned' = TRUE  BY <1>6, <2>2 DEF Senseless
      <3>2. Ended  BY <2>1, ReturnEnds
      <3> QED BY <1>1, <1>2, <3>1, <3>2 DEF ReadEffect
    <2>3. CASE wire[1].result # "continue"
      <3>1. UNCHANGED poisoned  BY <1>2, <1>6, <2>3 DEF Senseless
      <3> QED BY <1>4, <2>1, <2>3, <3>1
    <2> QED BY <2>2, <2>3
  <1> QED BY <1>3, <1>4, <1>5, <1>6

\* The operation waits for the next frame.
LEMMA WaitEffect ==
    ASSUME Typed, Accept, got' \in Seq(Blocks), UNCHANGED unread,
           op' = [op EXCEPT !.skipped = 0], UNCHANGED <<poisoned, last, next_sequence, asked>>
    PROVE  ReadEffect
  <1>1. Read /\ TookReply  BY AcceptTakes
  <1>2. unread \in BOOLEAN  BY DEF Typed
  <1>3. GoesOn /\ op'.at = op.at
    <2>1. 0 \in Nat  OBVIOUS
    <2> QED BY <2>1, CountGoesOn
  <1> QED BY <1>1, <1>2, <1>3 DEF ReadEffect

\* What the frame brings is appended to what was read.
LEMMA ContentType ==
    ASSUME Typed, NEW b \in Bodies, b.size <= Len(b.data)
    PROVE  got \o SubSeq(b.data, 1, b.size) \in Seq(Blocks)
  <1>1. b.data \in Seq(Blocks) /\ b.size \in Nat  BY DEF Bodies
  <1>2. SubSeq(b.data, 1, b.size) \in Seq(Blocks)  BY <1>1, PartOfSeq
  <1>3. got \in Seq(Blocks)  BY DEF Typed
  <1> QED BY <1>2, <1>3, ConcatProperties

LEMMA DownloadEffect ==
    ASSUME Typed, receive_download
    PROVE  ReadEffect
  <1> DEFINE b == Arrived.body
             more == wire[1].result = "continue"
  <1>1. Accept /\ op.at = "reply" /\ op.cmd # "FILE_UPLOAD" /\ UNCHANGED unread
    BY DEF receive_download
  <1>2. Arrived = wire[1] /\ b \in Bodies  BY <1>1, ReadFacts DEF Accept
  <1>3. got \in Seq(Blocks)  BY DEF Typed
  <1>4. "err" \in Outcomes /\ "ok" \in Outcomes /\ poisoned \in BOOLEAN  BY DEF Outcomes, Typed
  <1>5. CASE UNCHANGED got /\ Poison("err")
    BY <1>1, <1>3, <1>4, <1>5, StopEffect
  <1>6. CASE UNCHANGED got /\ Return("err") /\ UNCHANGED poisoned /\ ~more
    BY <1>1, <1>3, <1>4, <1>6, StopEffect
  <1>7. CASE UNCHANGED got /\ StopStream(more, "err")
    BY <1>1, <1>3, <1>4, <1>7, StopEffect
  <1>8. CASE UNCHANGED got /\ Senseless(more)
    BY <1>1, <1>3, <1>4, <1>8, StopEffect
  <1>9. CASE UNCHANGED got /\ op' = [op EXCEPT !.skipped = 0]
             /\ UNCHANGED <<poisoned, last, next_sequence, asked>>
    BY <1>1, <1>3, <1>9, WaitEffect
  <1>10. CASE b.size <= Len(b.data) /\ Received(Arrived, got \o SubSeq(b.data, 1, b.size))
    <2>1. got' \in Seq(Blocks)  BY <1>2, <1>10, ContentType DEF Received
    <2>2. CASE more
      <3>1. op' = [op EXCEPT !.skipped = 0] /\ UNCHANGED <<poisoned, last, next_sequence, asked>>
        BY <1>2, <1>10, <2>2 DEF Received
      <3> QED BY <1>1, <2>1, <3>1, WaitEffect
    <2>3. CASE ~more
      <3>1. UNCHANGED poisoned /\ \E res \in Outcomes : Return(res)
        BY <1>2, <1>4, <1>10, <2>3 DEF Received
      <3> QED BY <1>1, <2>1, <2>3, <3>1, StopEffect
    <2> QED BY <2>2, <2>3
  <1>11. \/ UNCHANGED got /\ Poison("err")
         \/ UNCHANGED got /\ Return("err") /\ UNCHANGED poisoned /\ ~more
         \/ UNCHANGED got /\ StopStream(more, "err")
         \/ UNCHANGED got /\ Senseless(more)
         \/ UNCHANGED got /\ op' = [op EXCEPT !.skipped = 0]
            /\ UNCHANGED <<poisoned, last, next_sequence, asked>>
         \/ b.size <= Len(b.data) /\ Received(Arrived, got \o SubSeq(b.data, 1, b.size))
    <2>1. b.size \in Nat /\ Len(b.data) \in Nat
      BY <1>2, LenProperties DEF Bodies
    <2>2. ~(b.size > Len(b.data)) => b.size <= Len(b.data)  BY <2>1
    <2> QED BY <1>2, <2>2 DEF receive_download
  <1> QED BY <1>5, <1>6, <1>7, <1>8, <1>9, <1>10, <1>11

LEMMA MemberEffect ==
    ASSUME Typed, read_file_member
    PROVE  ReadEffect
  <1> DEFINE b == Arrived.body
             more == wire[1].result = "continue"
  <1>1. Accept /\ op.at = "reply" /\ op.cmd # "FILE_UPLOAD" /\ UNCHANGED unread
    BY DEF read_file_member
  <1>2. Arrived = wire[1] /\ b \in Bodies  BY <1>1, ReadFacts DEF Accept
  <1>3. got \in Seq(Blocks)  BY DEF Typed
  <1>4. {"err", "ok", "none"} \subseteq Outcomes /\ poisoned \in BOOLEAN  BY DEF Outcomes, Typed
  <1>5. CASE UNCHANGED got /\ Poison("err")
    BY <1>1, <1>3, <1>4, <1>5, StopEffect
  <1>6. CASE UNCHANGED got /\ Return("err") /\ UNCHANGED poisoned /\ ~more
    BY <1>1, <1>3, <1>4, <1>6, StopEffect
  <1>7. CASE UNCHANGED got /\ \E res \in {"err", "none"} : StopStream(more, res)
    BY <1>1, <1>3, <1>4, <1>7, StopEffect
  <1>8. CASE UNCHANGED got /\ Senseless(more)
    BY <1>1, <1>3, <1>4, <1>8, StopEffect
  <1>9. CASE /\ b.size <= Len(b.data) /\ got' = got \o SubSeq(b.data, 1, b.size)
             /\ \/ op' = [op EXCEPT !.skipped = 0] /\ UNCHANGED <<poisoned, last, next_sequence, asked>>
                \/ StopStream(more, "ok")
    <2>1. got' \in Seq(Blocks)  BY <1>2, <1>9, ContentType
    <2> QED BY <1>1, <1>4, <1>9, <2>1, WaitEffect, StopEffect
  <1>10. \/ UNCHANGED got /\ Poison("err")
         \/ UNCHANGED got /\ Return("err") /\ UNCHANGED poisoned /\ ~more
         \/ UNCHANGED got /\ \E res \in {"err", "none"} : StopStream(more, res)
         \/ UNCHANGED got /\ Senseless(more)
         \/ /\ b.size <= Len(b.data) /\ got' = got \o SubSeq(b.data, 1, b.size)
            /\ \/ op' = [op EXCEPT !.skipped = 0] /\ UNCHANGED <<poisoned, last, next_sequence, asked>>
               \/ StopStream(more, "ok")
    <2>1. b.size \in Nat /\ Len(b.data) \in Nat
      BY <1>2, LenProperties DEF Bodies
    <2>2. ~(b.size > Len(b.data)) => b.size <= Len(b.data)  BY <2>1
    <2> QED BY <1>2, <2>2 DEF read_file_member
  <1> QED BY <1>5, <1>6, <1>7, <1>8, <1>9, <1>10

LEMMA InitEffect ==
    ASSUME Typed, UploadInit
    PROVE  ReadEffect
  <1>1. Read /\ TookReply /\ op.at = "reply" /\ op.cmd = "FILE_UPLOAD" /\ UNCHANGED <<got, unread>>
    BY AcceptTakes DEF UploadInit
  <1>2. Arrived = wire[1] /\ Arrived.body \in Bodies  BY <1>1, ReadFacts
  <1>3. got \in Seq(Blocks) /\ unread \in BOOLEAN /\ "err" \in Outcomes  BY DEF Typed, Outcomes
  <1>4. CASE Poison("err")
    <2>1. Ended /\ poisoned' = TRUE  BY <1>3, <1>4, PoisonEnds
    <2> QED BY <1>1, <1>3, <2>1 DEF ReadEffect
  <1>5. CASE Arrived.result \notin {"continue", "exist"} /\ Return("err") /\ UNCHANGED poisoned
    <2>1. Ended  BY <1>3, <1>5, ReturnEnds
    <2>2. LastOfTask  BY <1>1, <1>2, <1>5 DEF LastOfTask
    <2> QED BY <1>1, <1>3, <1>5, <2>1, <2>2 DEF ReadEffect
  <1>6. CASE /\ op' = [op EXCEPT !.at = "chunk", !.start = Arrived.body.off, !.len = Arrived.body.size]
             /\ UNCHANGED <<poisoned, last, next_sequence, asked>>
    <2>1. op \in OpType /\ Arrived.body.off \in Nat /\ Arrived.body.size \in Nat
      BY <1>2 DEF Typed, Bodies
    <2>2. op' \in OpType  BY <1>6, <2>1 DEF OpType, Steps
    <2>3. /\ op'.at = "chunk" /\ op'.seq = op.seq /\ op'.id = op.id /\ op'.cmd = op.cmd
          /\ op'.task = op.task
      BY <1>6, <2>1 DEF OpType
    <2> QED BY <1>1, <1>3, <1>6, <2>2, <2>3 DEF ReadEffect, GoesOn
  <1>7. CASE abandon("err")
    <2>1. Abandoned  BY <1>1, <1>3, <1>7, AbandonStops
    <2> QED BY <1>1, <1>3, <2>1 DEF ReadEffect
  <1> QED BY <1>4, <1>5, <1>6, <1>7 DEF UploadInit

LEMMA FinalEffect ==
    ASSUME Typed, UploadFinal
    PROVE  ReadEffect
  <1>1. Read /\ TookReply /\ op.at = "final" /\ UNCHANGED <<got, unread>>
    BY AcceptTakes DEF UploadFinal
  <1>2. Arrived = wire[1]  BY <1>1, ReadFacts
  <1>3. got \in Seq(Blocks) /\ unread \in BOOLEAN /\ "err" \in Outcomes /\ "ok" \in Outcomes
    BY DEF Typed, Outcomes
  <1>4. CASE Poison("err")
    <2>1. Ended /\ poisoned' = TRUE  BY <1>3, <1>4, PoisonEnds
    <2> QED BY <1>1, <1>3, <2>1 DEF ReadEffect
  <1>5. CASE /\ op' = [op EXCEPT !.finals = op.finals + 1, !.skipped = 0]
             /\ UNCHANGED <<poisoned, last, next_sequence, asked>>
    <2>1. op.finals + 1 \in Nat  BY DEF Typed, OpType
    <2>2. GoesOn /\ op'.at = op.at  BY <1>5, <2>1, CountGoesOn
    <2> QED BY <1>1, <1>3, <2>2 DEF ReadEffect
  <1>6. CASE /\ Arrived.result # "continue" /\ UNCHANGED poisoned
             /\ \E res \in {"ok", "err"} : Return(res)
    <2>1. Ended  BY <1>3, <1>6, ReturnEnds
    <2>2. LastOfTask  BY <1>1, <1>2, <1>6 DEF LastOfTask
    <2> QED BY <1>1, <1>3, <1>6, <2>1, <2>2 DEF ReadEffect
  <1> QED BY <1>4, <1>5, <1>6 DEF UploadFinal

LEMMA CancelEffect ==
    ASSUME Typed, CancelReply
    PROVE  ReadEffect
  <1>1. Read /\ TookReply /\ op.at = "creply" /\ UNCHANGED <<got, unread>>
    BY AcceptTakes DEF CancelReply
  <1>2. Arrived = wire[1]  BY <1>1, ReadFacts
  <1>3. got \in Seq(Blocks) /\ unread \in BOOLEAN /\ op.ret \in Outcomes  BY DEF Typed, OpType
  <1>4. CASE Arrived.result = "success"
    <2>1. Return(op.ret) /\ UNCHANGED poisoned  BY <1>4 DEF CancelReply
    <2>2. Ended  BY <1>3, <2>1, ReturnEnds
    <2> QED BY <1>1, <1>2, <1>3, <1>4, <2>1, <2>2 DEF ReadEffect
  <1>5. CASE Arrived.result # "success"
    <2>1. Poison(op.ret)  BY <1>5 DEF CancelReply
    <2>2. Ended /\ poisoned' = TRUE  BY <1>3, <2>1, PoisonEnds
    <2> QED BY <1>1, <1>3, <2>2 DEF ReadEffect
  <1> QED BY <1>4, <1>5

----------------------------------------------------------------------------
(* A frame that is read keeps the invariants                                 *)

LEMMA ReadKeepsTyped ==
    ASSUME Typed, ReadEffect
    PROVE  Typed'
  <1>1. /\ wire # <<>> /\ wire' = Tail(wire) /\ Reading
        /\ UNCHANGED <<tunnel, inbox, tasks, stored, torn, defects, dropped>>
    BY DEF ReadEffect, Read
  <1>2. wire' \in Seq(FrameType)
    BY <1>1, TailEntries DEF Typed
  <1>3. got' \in Seq(Blocks) /\ unread' \in BOOLEAN /\ foreign' \in BOOLEAN
    BY DEF ReadEffect, Typed, TookReply
  <1>4. tunnel = "open"
    BY <1>1 DEF Typed, Reading
  <1>5. poisoned' \in BOOLEAN
    BY DEF ReadEffect, Typed, GoesOn, Abandoned
  <1>6. CASE Ended
    BY <1>1, <1>2, <1>3, <1>5, <1>6, IdleType DEF Typed, Ended
  <1>7. CASE GoesOn /\ (op'.at = op.at \/ (op.at = "reply" /\ op'.at = "chunk"))
    <2>1. /\ op' \in OpType /\ op'.cmd = op.cmd /\ UNCHANGED <<last, next_sequence, asked>>
      BY <1>7 DEF GoesOn
    <2>2. op'.at \in {"send", "reply", "chunk", "final"} => asked' + 1 <= MaxRequests
      BY <1>7, <2>1 DEF Typed
    <2>3. op'.at # "idle" => op'.cmd \in Commands
      BY <1>7, <2>1 DEF Typed
    <2> QED BY <1>1, <1>2, <1>3, <1>4, <1>5, <2>1, <2>2, <2>3 DEF Typed
  <1>8. CASE Abandoned
    <2>1. next_sequence' \in 1..SeqMax /\ asked' \in Nat
      <3>1. next_sequence \in 0..SeqMax  BY FileTunnelConstants DEF Typed
      <3> QED BY <1>8, <3>1, NextIsAnother DEF Typed, Abandoned
    <2>2. op' \in OpType /\ op'.at = "csend" /\ UNCHANGED last  BY <1>8 DEF Abandoned
    <2>3. op'.cmd \in Commands  BY <1>8 DEF Abandoned, Typed
    <2> QED BY <1>1, <1>2, <1>3, <1>4, <1>5, <2>1, <2>2, <2>3 DEF Typed
  <1> QED BY <1>6, <1>7, <1>8 DEF ReadEffect

LEMMA ReadKeepsNext ==
    ASSUME Typed, NextInv, ReadEffect
    PROVE  NextInv'
  <1>1. CASE Ended
    BY <1>1, IdleType DEF NextInv, Ended
  <1>2. CASE GoesOn /\ (op'.at = op.at \/ (op.at = "reply" /\ op'.at = "chunk"))
    BY <1>2 DEF GoesOn, NextInv, AfterSequence
  <1>3. CASE Abandoned
    BY <1>3 DEF NextInv, Abandoned
  <1> QED BY <1>1, <1>2, <1>3 DEF ReadEffect

LEMMA ReadKeepsClean ==
    ASSUME Typed, NextInv, CleanInv, ReadEffect
    PROVE  CleanInv'
  <1> SUFFICES ASSUME ~poisoned', ~dropped', ~unread'
               PROVE  torn' = {} /\ CleanAt(op', inbox', tasks', wire')
    BY DEF CleanInv
  <1>1. /\ wire # <<>> /\ wire' = Tail(wire) /\ Reading
        /\ UNCHANGED <<tunnel, inbox, tasks, stored, torn, defects, dropped>>
    BY DEF ReadEffect, Read
  <1>2. ~poisoned /\ ~dropped /\ ~unread
    BY <1>1 DEF ReadEffect, GoesOn, Abandoned
  <1>3. torn' = {} /\ CleanAt(op, inbox, tasks, wire)
    BY <1>1, <1>2 DEF CleanInv
  <1>4. /\ wire \in Seq(FrameType) /\ op \in OpType /\ next_sequence \in 1..SeqMax
        /\ inbox \in Seq(MsgType)
    BY DEF Typed
  <1>5. 1 \in DOMAIN wire  BY <1>1, <1>4, TailEntries
  <1>6. op.at \in {"reply", "final"} => CleanRun(op, inbox, tasks, wire)
    BY <1>3 DEF CleanAt
  <1>7. op.at = "creply" => CleanCancel(op, inbox, tasks, wire)
    BY <1>3 DEF CleanAt
  <1>8. ASSUME Ended, UNCHANGED poisoned, TookReply,
               LastOfTask \/ (op.at = "creply" /\ wire[1].result = "success")
        PROVE  CleanAt(op', inbox', tasks', wire')
    <2>1. CleanIdle(inbox, tasks, Tail(wire))
      <3>1. CASE LastOfTask
        <4>1. CleanRun(op, inbox, tasks, wire)
          BY <1>1, <1>6, <3>1 DEF Reading, LastOfTask
        <4>2. Ends(wire[1])
          BY <1>5, <1>8, <3>1, <4>1 DEF Ends, TookReply, LastOfTask, CleanRun
        <4> QED BY <1>1, <1>4, <4>1, <4>2, CleanEnd
      <3>2. CASE op.at = "creply" /\ wire[1].result = "success"
        BY <1>1, <1>4, <1>7, <1>8, <3>2, CleanEnd DEF TookReply
      <3> QED BY <1>8, <3>1, <3>2
    <2>2. OneTask(tasks)  BY <1>3 DEF CleanAt
    <2> QED BY <1>1, <1>8, <2>1, <2>2, IdleType DEF CleanAt, Ended
  <1>9. ASSUME GoesOn,
               op'.at = op.at \/ (op.at = "reply" /\ op'.at = "chunk" /\ TookReply)
        PROVE  CleanAt(op', inbox', tasks', wire')
    BY <1>1, <1>3, <1>4, <1>9, CleanGoesOn DEF GoesOn, TookReply
  <1>10. ASSUME Abandoned, TookReply
         PROVE  CleanAt(op', inbox', tasks', wire')
    <2>1. CleanRun(op, inbox, tasks, wire) /\ OneTask(tasks)
      BY <1>1, <1>3, <1>10 DEF Abandoned, CleanAt
    <2>2. OnlyChunks(inbox)
      BY <1>5, <1>10, <2>1 DEF CleanRun, OnlyChunks, NoReplies, TookReply
    <2>3. CleanRun(op, inbox, tasks, Tail(wire))
      BY <1>1, <1>4, <2>1, CleanTail
    <2>4. op'.seq # op.seq
      <3>1. op.seq \in 0..SeqMax  BY <1>4 DEF OpType
      <3>2. next_sequence = AfterSequence(op.seq)  BY <1>10 DEF Abandoned, NextInv
      <3> QED BY <1>10, <3>1, <3>2, NextIsAnother DEF Abandoned
    <2> QED BY <1>1, <1>4, <1>10, <2>1, <2>2, <2>3, <2>4, CleanAbandon DEF Abandoned
  <1> QED BY <1>3, <1>8, <1>9, <1>10 DEF ReadEffect

\* A request or a cancel that takes the next sequence is numbered as the session's next.
LEMMA TakesNumber ==
    ASSUME Typed, TunnelRoom, asked + 1 <= MaxRequests,
           next_sequence' = AfterSequence(next_sequence), asked' = asked + 1,
           NEW base \in 0..asked, Numbered(asked - base),
           NEW x, x.seq = next_sequence, x.id = asked + 1
    PROVE  /\ Numbered(asked - base)' /\ OwnNumber(base, asked' - base, x)
           /\ base \in 0..asked'
           /\ \A y : OwnNumber(base, asked - base, y) => OwnNumber(base, asked' - base, y)
  <1>1. asked \in Nat /\ base \in Nat /\ base <= asked /\ asked + 1 <= SeqMax /\ SeqMax \in Nat
    BY FileTunnelConstants DEF Typed, TunnelRoom
  <1>2. next_sequence = asked - base + 1
    BY <1>1 DEF Numbered
  <1>3. Numbered(asked - base)'
    BY <1>1, <1>2 DEF Numbered, AfterSequence
  <1>4. OwnNumber(base, asked' - base, x)
    BY <1>1, <1>2 DEF OwnNumber
  <1>5. \A y : OwnNumber(base, asked - base, y) => OwnNumber(base, asked' - base, y)
    BY <1>1 DEF OwnNumber
  <1> QED BY <1>1, <1>3, <1>4, <1>5

\* Nothing takes a number, and what there is was there.
LEMMA KeepsOwn ==
    ASSUME OwnInv, ~foreign', UNCHANGED <<next_sequence, asked>>,
           AllKnown(op', inbox', tasks', wire', op, inbox, tasks, wire)
    PROVE  OwnInv'
  <1>1. PICK base \in 0..asked :
            Numbered(asked - base) /\ Owned(base, asked - base, op, inbox, tasks, wire)
    BY DEF OwnInv
  <1>2. Owned(base, asked - base, op', inbox', tasks', wire')
    BY <1>1, KnownIsOwn
  <1>3. Numbered(asked - base)'  BY <1>1 DEF Numbered
  <1> QED BY <1>2, <1>3 DEF OwnInv

LEMMA ReadKeepsOwn ==
    ASSUME TunnelRoom, Typed, OwnInv, ReadEffect
    PROVE  OwnInv'
  <1>1. /\ wire # <<>> /\ wire' = Tail(wire) /\ Reading
        /\ UNCHANGED <<tunnel, inbox, tasks, stored, torn, defects, dropped>>
    BY DEF ReadEffect, Read
  <1>2. wire \in Seq(FrameType) /\ inbox \in Seq(MsgType) /\ op \in OpType  BY DEF Typed
  <1>3. op.at # "idle" /\ 1 \in DOMAIN wire
    BY <1>1, <1>2, TailEntries DEF Reading
  <1>4. PICK base \in 0..asked :
            Numbered(asked - base) /\ Owned(base, asked - base, op, inbox, tasks, wire)
    BY DEF OwnInv
  <1>5. ~foreign'
    <2>1. CASE UNCHANGED foreign  BY <2>1 DEF OwnInv
    <2>2. CASE TookReply
      <3>1. wire[1].id = op.id
        BY <1>3, <1>4, <2>2 DEF TookReply, Owned, OwnNumber
      <3> QED BY <2>2, <3>1 DEF TookReply, OwnInv
    <2> QED BY <2>1, <2>2 DEF ReadEffect
  <1>6. /\ \A i \in DOMAIN inbox' : Known(inbox'[i], op, inbox, tasks, wire)
        /\ \A t \in tasks' : Known(t, op, inbox, tasks, wire)
        /\ \A i \in DOMAIN wire' : IsReply(wire'[i]) => Known(wire'[i], op, inbox, tasks, wire)
    BY <1>1, <1>2, OldIsKnown
  <1>7. CASE UNCHANGED <<next_sequence, asked>> /\ (op'.at = "idle" \/ SameNumber(op', op))
    <2>1. op'.at # "idle" => Known(op', op, inbox, tasks, wire)
      BY <1>3, <1>7 DEF Known
    <2> QED BY <1>5, <1>6, <1>7, <2>1, KeepsOwn DEF AllKnown
  <1>8. CASE Abandoned
    <2>1. asked + 1 <= MaxRequests  BY <1>8 DEF Abandoned, Typed
    <2>2. /\ Numbered(asked - base)' /\ OwnNumber(base, asked' - base, op') /\ base \in 0..asked'
          /\ \A y : OwnNumber(base, asked - base, y) => OwnNumber(base, asked' - base, y)
      BY <1>4, <1>8, <2>1, TakesNumber DEF Abandoned
    <2>3. Owned(base, asked' - base, op', inbox', tasks', wire')
      <3>1. \A x : Known(x, op, inbox, tasks, wire) => OwnNumber(base, asked - base, x)
        BY <1>4, KnownIsOwn
      <3> QED BY <1>6, <2>2, <3>1 DEF Owned
    <2> QED BY <1>5, <2>2, <2>3 DEF OwnInv
  <1>9. Ended => UNCHANGED <<next_sequence, asked>> /\ op'.at = "idle"
    BY IdleType DEF Ended
  <1>10. GoesOn => UNCHANGED <<next_sequence, asked>> /\ SameNumber(op', op)
    BY DEF GoesOn, SameNumber
  <1> QED BY <1>7, <1>8, <1>9, <1>10 DEF ReadEffect

----------------------------------------------------------------------------
(* The other steps of the client keep the invariants                         *)

LEMMA MsgUpdates ==
    ASSUME NEW m \in MsgType, NEW off \in Nat, NEW data \in Seq(Blocks), NEW md5 \in Seq(Blocks)
    PROVE  [m EXCEPT !.off = off, !.data = data, !.md5 = md5] \in MsgType
  <1> DEFINE Sequences32 == 0..SeqMax
             Cmds == Commands \cup {"CHUNK", "TASK_CANCEL"}
             N == Nat
             Content == Seq(Blocks)
  <1>1. MsgType = [cmd : Cmds, seq : Sequences32, id : N, task : Sequences32, off : N,
                   data : Content, md5 : Content]
    BY DEF MsgType
  <1>2. off \in N /\ data \in Content /\ md5 \in Content  OBVIOUS
  <1> HIDE DEF Sequences32, Cmds, N, Content
  <1> QED BY <1>1, <1>2

\* What is written carries the running request's number.
LEMMA OutgoingType ==
    ASSUME Typed, Writing
    PROVE  /\ Outgoing \in MsgType
           /\ Outgoing.seq = op.seq /\ Outgoing.id = op.id /\ Outgoing.task = op.task
           /\ op.at = "send" => Outgoing.cmd = op.cmd
           /\ op.at = "csend" => Outgoing.cmd = "TASK_CANCEL"
           /\ op.at = "chunk" => Outgoing.cmd = "CHUNK"
  <1>1. /\ op.seq \in 0..SeqMax /\ op.id \in Nat /\ op.task \in 0..SeqMax
        /\ op.start \in Nat /\ op.index \in Nat /\ op.len \in Nat
    BY DEF Typed, OpType
  <1>2. op.cmd \in Commands  BY DEF Typed, Writing
  <1>3. <<>> \in Seq(Blocks)  BY EmptySeq
  <1>4. ASSUME NEW cmd \in Commands \cup {"CHUNK", "TASK_CANCEL"}
        PROVE  /\ Message(cmd) \in MsgType /\ Message(cmd).cmd = cmd
               /\ Message(cmd).seq = op.seq /\ Message(cmd).id = op.id
               /\ Message(cmd).task = op.task
    BY <1>1, <1>3, <1>4 DEF Message, MsgType
  <1>5. CASE op.at = "send"
    BY <1>2, <1>4, <1>5 DEF Outgoing
  <1>6. CASE op.at = "csend"
    BY <1>4, <1>6 DEF Outgoing
  <1>7. CASE op.at = "chunk"
    <2> DEFINE offset == op.start + op.index * op.len
               end == IF offset + op.len > FileLen THEN FileLen ELSE offset + op.len
               final == op.index = chunk_count(op.start, op.len) - 1
    <2>1. offset \in Nat
      <3>1. op.index * op.len \in Nat  BY <1>1
      <3> QED BY <1>1, <3>1
    <2> HIDE DEF offset
    <2>2. end \in Nat /\ end <= FileLen /\ offset + 1 \in Nat \ {0} /\ 1 \in Nat \ {0}
      BY <1>1, <2>1, FileTunnelConstants
    <2> HIDE DEF end
    <2>3. SubSeq(File, offset + 1, end) \in Seq(Blocks) /\ SubSeq(File, 1, end) \in Seq(Blocks)
      <3>1. File \in Seq(Blocks) /\ end <= Len(File)  BY <2>2, FileSeq
      <3> QED BY <2>2, <3>1, PartOfSeq
    <2>4. PICK data \in Seq(Blocks), md5 \in Seq(Blocks) :
              Chunk = [Message("CHUNK") EXCEPT !.off = offset, !.data = data, !.md5 = md5]
      <3>1. CASE final  BY <2>3, <3>1 DEF Chunk, Digest, offset, end
      <3>2. CASE ~final  BY <1>3, <2>3, <3>2 DEF Chunk, offset, end
      <3> QED BY <3>1, <3>2
    <2>5. Outgoing = Chunk  BY <1>7 DEF Outgoing
    <2>6. Chunk \in MsgType
      <3>1. Message("CHUNK") \in MsgType  BY <1>4
      <3>2. [Message("CHUNK") EXCEPT !.off = offset, !.data = data, !.md5 = md5] \in MsgType
        BY <2>1, <3>1, MsgUpdates
      <3> QED BY <2>4, <3>2
    <2>7. /\ Chunk.cmd = "CHUNK" /\ Chunk.seq = op.seq /\ Chunk.id = op.id /\ Chunk.task = op.task
      BY <1>4, <2>4 DEF MsgType
    <2> QED BY <1>7, <2>5, <2>6, <2>7
  <1> QED BY <1>5, <1>6, <1>7 DEF Writing

WriteEffect ==
    /\ inbox' = (IF "up" \in torn THEN inbox ELSE Append(inbox, Outgoing))
    /\ GoesOn
    /\ \/ op.at = "send" /\ op'.at = "reply"
       \/ op.at = "csend" /\ op'.at = "creply"
       \/ op.at = "chunk" /\ op'.at \in {"chunk", "final"}
    /\ UNCHANGED <<tunnel, got, tasks, stored, wire, torn, defects, dropped, unread, foreign>>

LEMMA FrameWrittenEffect ==
    ASSUME Typed, FrameWritten
    PROVE  WriteEffect
  <1>1. /\ inbox' = (IF "up" \in torn THEN inbox ELSE Append(inbox, Outgoing)) /\ Writing
        /\ UNCHANGED <<tunnel, got, tasks, stored, wire, torn, defects, dropped, unread, foreign>>
        /\ UNCHANGED <<poisoned, last, next_sequence, asked>>
    BY DEF FrameWritten, Deliver, history
  <1>2. /\ op \in OpType /\ 0 \in Nat /\ op.at \in Steps /\ op.seq \in 0..SeqMax /\ op.task \in 0..SeqMax
        /\ op.id \in Nat /\ op.ret \in Outcomes /\ op.index + 1 \in Nat /\ op.skipped \in Nat
        /\ {"reply", "creply", "final"} \subseteq Steps
    BY DEF Typed, OpType, Steps
  <1>3. ASSUME NEW at \in {"reply", "creply"}, op' = [op EXCEPT !.at = at]
        PROVE  GoesOn /\ op'.at = at
    <2>1. op' = [op EXCEPT !.at = at, !.skipped = op.skipped]
      BY <1>2, <1>3 DEF OpType
    <2>2. [op EXCEPT !.at = at, !.skipped = op.skipped] \in OpType  BY <1>2, OpUpdates
    <2>3. /\ op'.at = at /\ op'.seq = op.seq /\ op'.id = op.id /\ op'.cmd = op.cmd
          /\ op'.task = op.task
      BY <1>2, <1>3 DEF OpType
    <2> QED BY <1>1, <2>1, <2>2, <2>3 DEF GoesOn
  <1>4. CASE op.at = "send"
    <2>1. op' = [op EXCEPT !.at = "reply"]  BY <1>4 DEF FrameWritten
    <2>2. GoesOn /\ op'.at = "reply"  BY <1>3, <2>1
    <2> QED BY <1>1, <1>4, <2>2 DEF WriteEffect
  <1>5. CASE op.at = "csend"
    <2>1. op' = [op EXCEPT !.at = "creply"]  BY <1>5 DEF FrameWritten
    <2>2. GoesOn /\ op'.at = "creply"  BY <1>3, <2>1
    <2> QED BY <1>1, <1>5, <2>2 DEF WriteEffect
  <1>6. CASE op.at = "chunk"
    <2>1. \/ op' = [op EXCEPT !.at = "final", !.skipped = 0]
          \/ op' = [op EXCEPT !.index = op.index + 1]
      BY <1>6 DEF FrameWritten
    <2>2. CASE op' = [op EXCEPT !.at = "final", !.skipped = 0]
      <3>1. [op EXCEPT !.at = "final", !.skipped = 0] \in OpType  BY <1>2, OpUpdates
      <3>2. /\ op'.at = "final" /\ op'.seq = op.seq /\ op'.id = op.id /\ op'.cmd = op.cmd
            /\ op'.task = op.task
        BY <1>2, <2>2 DEF OpType
      <3> QED BY <1>1, <1>6, <2>2, <3>1, <3>2 DEF WriteEffect, GoesOn
    <2>3. CASE op' = [op EXCEPT !.index = op.index + 1]
      <3>1. GoesOn /\ op'.at = op.at  BY <1>1, <1>2, <2>3, CountGoesOn
      <3> QED BY <1>1, <1>6, <3>1 DEF WriteEffect
    <2> QED BY <2>1, <2>2, <2>3
  <1> QED BY <1>1, <1>4, <1>5, <1>6 DEF Writing

LEMMA WriteKeeps ==
    ASSUME SessionInv, WriteEffect
    PROVE  SessionInv' /\ (OwnInv => OwnInv')
  <1>1. Typed /\ NextInv /\ CleanInv /\ Writing
    BY DEF SessionInv, WriteEffect, Writing
  <1>2. /\ op' \in OpType /\ SameNumber(op', op) /\ op'.cmd = op.cmd /\ op'.task = op.task
        /\ UNCHANGED <<poisoned, last, next_sequence, asked>>
    BY DEF WriteEffect, GoesOn, SameNumber
  <1>3. /\ Outgoing \in MsgType /\ SameNumber(Outgoing, op) /\ Outgoing.task = op.task
        /\ op.at = "send" => Outgoing.cmd = op.cmd
        /\ op.at = "csend" => Outgoing.cmd = "TASK_CANCEL"
        /\ op.at = "chunk" => Outgoing.cmd = "CHUNK"
    BY <1>1, OutgoingType DEF SameNumber
  <1>4. /\ inbox \in Seq(MsgType) /\ wire \in Seq(FrameType) /\ op \in OpType
    BY <1>1 DEF Typed
  <1>5. inbox' \in Seq(MsgType)
    BY <1>3, <1>4, AppendEntries DEF WriteEffect
  <1>6. op.at # "idle" /\ tunnel = "open"  BY <1>1 DEF Writing, Typed
  <1>7. Typed'
    <2>1. op'.at \in {"send", "reply", "chunk", "final"} => asked' + 1 <= MaxRequests
      BY <1>1, <1>2 DEF WriteEffect, Typed
    <2>2. op'.cmd \in Commands  BY <1>1, <1>2, <1>6 DEF Typed
    <2> QED BY <1>1, <1>2, <1>5, <1>6, <2>1, <2>2 DEF Typed, WriteEffect
  <1>8. NextInv'
    BY <1>1, <1>2 DEF NextInv, WriteEffect, AfterSequence, SameNumber
  <1>9. CleanInv'
    <2> SUFFICES ASSUME ~poisoned', ~dropped', ~unread'
                 PROVE  torn' = {} /\ CleanAt(op', inbox', tasks', wire')
      BY DEF CleanInv
    <2>1. torn' = {} /\ CleanAt(op, inbox, tasks, wire) /\ torn = {}
      BY <1>1, <1>2 DEF CleanInv, WriteEffect
    <2>2. inbox' = Append(inbox, Outgoing) /\ tasks' = tasks /\ wire' = wire
      BY <2>1 DEF WriteEffect
    <2>3. CleanAt(op', Append(inbox, Outgoing), tasks, wire)
      BY <1>2, <1>3, <1>4, <2>1, CleanWritten DEF WriteEffect, SameNumber
    <2> QED BY <2>1, <2>2, <2>3
  <1>10. ASSUME OwnInv PROVE OwnInv'
    <2>1. Known(op', op, inbox, tasks, wire) /\ Known(Outgoing, op, inbox, tasks, wire)
      BY <1>2, <1>3, <1>6 DEF Known
    <2>2. \A i \in DOMAIN inbox' : Known(inbox'[i], op, inbox, tasks, wire)
      BY <1>3, <1>4, <2>1, OldIsKnown DEF WriteEffect
    <2>3. AllKnown(op', inbox', tasks', wire', op, inbox, tasks, wire)
      BY <1>4, <2>1, <2>2, OldIsKnown DEF AllKnown, WriteEffect
    <2> QED BY <1>2, <1>10, <2>3, KeepsOwn DEF WriteEffect, OwnInv
  <1> QED BY <1>7, <1>8, <1>9, <1>10 DEF SessionInv

\* An operation that fails or is dropped: its session is poisoned or marked, and at
\* most the frame it was writing went out.
EndEffect ==
    /\ Ended
    /\ \/ poisoned' = TRUE /\ UNCHANGED dropped
       \/ dropped' = TRUE /\ UNCHANGED poisoned
    /\ UNCHANGED inbox \/ (Writing /\ "up" \notin torn /\ inbox' = Append(inbox, Outgoing))
    /\ torn' \subseteq {"up", "down"}
    /\ UNCHANGED <<tunnel, got, tasks, stored, wire, defects, unread, foreign>>

LEMMA EndKeeps ==
    ASSUME SessionInv, EndEffect
    PROVE  SessionInv' /\ (OwnInv => OwnInv')
  <1>1. Typed  BY DEF SessionInv
  <1>2. inbox \in Seq(MsgType) /\ wire \in Seq(FrameType)  BY <1>1 DEF Typed
  <1>3. inbox' \in Seq(MsgType)
    <2>1. Writing => Outgoing \in MsgType  BY <1>1, OutgoingType
    <2> QED BY <1>2, <2>1, AppendEntries DEF EndEffect
  <1>4. op' \in OpType /\ op'.at = "idle" /\ last'.res \in Outcomes /\ UNCHANGED <<next_sequence, asked>>
    BY IdleType DEF EndEffect, Ended
  <1>5. poisoned' \in BOOLEAN /\ dropped' \in BOOLEAN /\ (poisoned' \/ dropped')
    BY <1>1 DEF EndEffect, Typed
  <1>6. Typed'
    BY <1>1, <1>3, <1>4, <1>5 DEF Typed, EndEffect
  <1>7. NextInv' /\ CleanInv'
    BY <1>4, <1>5 DEF NextInv, CleanInv
  <1>8. ASSUME OwnInv PROVE OwnInv'
    <2>1. \A i \in DOMAIN inbox' : Known(inbox'[i], op, inbox, tasks, wire)
      <3>1. CASE UNCHANGED inbox  BY <1>2, <3>1, OldIsKnown
      <3>2. CASE Writing /\ inbox' = Append(inbox, Outgoing)
        <4>1. Outgoing \in MsgType /\ SameNumber(Outgoing, op) /\ op.at # "idle"
          BY <1>1, <3>2, OutgoingType DEF SameNumber, Writing
        <4>2. Known(Outgoing, op, inbox, tasks, wire)  BY <4>1 DEF Known
        <4> QED BY <1>2, <3>2, <4>1, <4>2, OldIsKnown
      <3> QED BY <3>1, <3>2 DEF EndEffect
    <2>2. AllKnown(op', inbox', tasks', wire', op, inbox, tasks, wire)
      BY <1>2, <1>4, <2>1, OldIsKnown DEF AllKnown, EndEffect
    <2> QED BY <1>4, <1>8, <2>2, KeepsOwn DEF EndEffect, OwnInv
  <1> QED BY <1>6, <1>7, <1>8 DEF SessionInv

LEMMA BrokenKeeps ==
    ASSUME SessionInv, WriteFailed \/ ReadFailed \/ (SourceFailed /\ op.index # 0) \/ Drop
    PROVE  EndEffect
  <1>1. Typed  BY DEF SessionInv
  <1>2. torn \subseteq {"up", "down"}  BY <1>1 DEF Typed
  <1>3. CASE WriteFailed
    <2>1. Ended /\ poisoned' = TRUE  BY <1>1, <1>3, BrokenEnds DEF WriteFailed
    <2> QED BY <1>2, <1>3, <2>1 DEF EndEffect, WriteFailed
  <1>4. CASE ReadFailed
    <2>1. Ended /\ poisoned' = TRUE  BY <1>1, <1>4, BrokenEnds DEF ReadFailed
    <2> QED BY <1>2, <1>4, <2>1 DEF EndEffect, ReadFailed, printer
  <1>5. CASE SourceFailed /\ op.index # 0
    <2>1. Ended /\ poisoned' = TRUE  BY <1>5, PoisonEnds DEF SourceFailed, Outcomes
    <2> QED BY <1>2, <1>5, <2>1 DEF EndEffect, SourceFailed, printer
  <1>6. CASE Drop
    <2>1. Ended  BY <1>6, IdleType DEF Drop, Ended, Outcomes
    <2>2. UNCHANGED inbox \/ (Writing /\ "up" \notin torn /\ inbox' = Append(inbox, Outgoing))
      BY <1>6 DEF Drop, Deliver
    <2>3. torn' \subseteq {"up", "down"}  BY <1>2, <1>6 DEF Drop
    <2> QED BY <1>6, <2>1, <2>2, <2>3 DEF EndEffect, Drop
  <1> QED BY <1>3, <1>4, <1>5, <1>6

\* The source fails before the first chunk: the upload is cancelled.
LEMMA SourceKeeps ==
    ASSUME SessionInv, SourceFailed, op.index = 0
    PROVE  SessionInv' /\ (TunnelRoom /\ OwnInv => OwnInv')
  <1>1. Typed /\ NextInv /\ CleanInv  BY DEF SessionInv
  <1>2. Abandoned /\ op.at = "chunk"
    BY <1>1, AbandonStops DEF SourceFailed, Outcomes
  <1>3. UNCHANGED <<tunnel, got, inbox, tasks, stored, wire, torn, defects, dropped, unread, foreign>>
    BY DEF SourceFailed, printer
  <1>4. /\ op' \in OpType /\ op'.at = "csend" /\ op'.task = op.seq /\ op'.cmd = op.cmd
        /\ op'.seq = next_sequence /\ op'.id = asked + 1
        /\ next_sequence' = AfterSequence(next_sequence) /\ asked' = asked + 1
        /\ UNCHANGED <<poisoned, last>>
    BY <1>2 DEF Abandoned
  <1>5. tunnel = "open" /\ op.cmd \in Commands /\ op.seq \in 0..SeqMax /\ op \in OpType
        /\ asked + 1 <= MaxRequests
    BY <1>1, <1>2 DEF Typed, OpType
  <1>6. Typed'
    <2>1. next_sequence' \in 1..SeqMax /\ asked' \in Nat
      <3>1. next_sequence \in 0..SeqMax  BY <1>1, FileTunnelConstants DEF Typed
      <3> QED BY <1>1, <1>4, <3>1, NextIsAnother DEF Typed
    <2> QED BY <1>1, <1>3, <1>4, <1>5, <2>1 DEF Typed
  <1>7. NextInv'  BY <1>4 DEF NextInv
  <1>8. CleanInv'
    <2> SUFFICES ASSUME ~poisoned', ~dropped', ~unread'
                 PROVE  torn' = {} /\ CleanAt(op', inbox', tasks', wire')
      BY DEF CleanInv
    <2>1. torn' = {} /\ CleanAt(op, inbox, tasks, wire)
      BY <1>1, <1>3, <1>4 DEF CleanInv
    <2>2. CleanRun(op, inbox, tasks, wire) /\ OneTask(tasks)  BY <1>2, <2>1 DEF CleanAt
    <2>3. OnlyChunks(inbox)  BY <1>2, <2>2 DEF CleanRun, OnlyChunks
    <2>4. op'.seq # op.seq
      <3>1. next_sequence = AfterSequence(op.seq)  BY <1>1, <1>2 DEF NextInv
      <3> QED BY <1>4, <1>5, <3>1, NextIsAnother
    <2>5. CleanAt(op', inbox, tasks, wire)
      BY <1>4, <1>5, <2>2, <2>3, <2>4, CleanAbandon
    <2> QED BY <1>3, <2>1, <2>5
  <1>9. ASSUME TunnelRoom, OwnInv PROVE OwnInv'
    <2>1. PICK base \in 0..asked :
              Numbered(asked - base) /\ Owned(base, asked - base, op, inbox, tasks, wire)
      BY <1>9 DEF OwnInv
    <2>2. /\ Numbered(asked - base)' /\ OwnNumber(base, asked' - base, op') /\ base \in 0..asked'
          /\ \A y : OwnNumber(base, asked - base, y) => OwnNumber(base, asked' - base, y)
      BY <1>1, <1>4, <1>5, <1>9, <2>1, TakesNumber
    <2>3. Owned(base, asked' - base, op', inbox', tasks', wire')
      BY <1>3, <2>1, <2>2 DEF Owned
    <2> QED BY <1>3, <1>9, <2>2, <2>3 DEF OwnInv
  <1> QED BY <1>6, <1>7, <1>8, <1>9 DEF SessionInv

\* The slot: a dial, a handshake step, a disconnect.
LEMMA SlotKeeps ==
    ASSUME SessionInv, ensure_file_tunnel \/ Handshake \/ disconnect_file_tunnel
    PROVE  SessionInv' /\ (OwnInv => OwnInv')
  <1>1. Typed /\ NextInv /\ CleanInv  BY DEF SessionInv
  <1>2. CASE Handshake
    <2>1. /\ tunnel' \in {"none", "setup", "open"} /\ tunnel \in {"login", "setup"}
          /\ UNCHANGED <<poisoned, next_sequence, op, got, last, inbox, tasks, stored, wire, torn,
                         defects, asked, dropped, unread, foreign>>
      BY <1>2 DEF Handshake, HandshakeStep, HandshakeFailed, printer, history
    <2>2. Typed'  BY <1>1, <2>1 DEF Typed
    <2>3. NextInv'  BY <1>1, <2>1 DEF NextInv, AfterSequence
    <2>4. CleanInv'  BY <1>1, <2>1 DEF CleanInv
    <2>5. OwnInv => OwnInv'  BY <2>1 DEF OwnInv, Numbered
    <2> QED BY <2>2, <2>3, <2>4, <2>5 DEF SessionInv
  <1>3. CASE ensure_file_tunnel \/ disconnect_file_tunnel
    <2>1. /\ tunnel' \in {"none", "login"} /\ op.at = "idle" /\ FreshStream
          /\ UNCHANGED <<op, stored, asked, defects, foreign>>
      BY <1>1, <1>3 DEF ensure_file_tunnel, disconnect_file_tunnel, Typed
    <2>2. Typed'
      <3>1. got' \in Seq(Blocks) /\ inbox' \in Seq(MsgType) /\ wire' \in Seq(FrameType)
        BY <2>1, EmptySeq DEF FreshStream
      <3>2. poisoned' \in BOOLEAN /\ dropped' \in BOOLEAN /\ unread' \in BOOLEAN
        BY <2>1 DEF FreshStream
      <3>3. next_sequence' \in 1..SeqMax  BY <2>1, FileTunnelConstants DEF FreshStream
      <3>4. last'.res \in Outcomes  BY <2>1, IdleType DEF FreshStream, Outcomes
      <3> QED BY <1>1, <2>1, <3>1, <3>2, <3>3, <3>4 DEF Typed, FreshStream
    <2>3. NextInv' /\ CleanInv'
      BY <2>1, FreshClean DEF NextInv, CleanInv, FreshStream
    <2>4. ASSUME OwnInv PROVE OwnInv'
      <3>1. asked \in Nat  BY <1>1 DEF Typed
      <3>2. PICK base \in Nat : base = asked  BY <3>1
      <3>3. Numbered(asked - base)' /\ base \in 0..asked'
        BY <2>1, <3>2 DEF Numbered, FreshStream
      <3>4. Owned(base, asked' - base, op', inbox', tasks', wire')
        BY <2>1, FreshClean DEF FreshStream
      <3> QED BY <2>1, <2>4, <3>3, <3>4 DEF OwnInv
    <2> QED BY <2>2, <2>3, <2>4 DEF SessionInv
  <1> QED BY <1>2, <1>3

LEMMA RequestKeeps ==
    ASSUME SessionInv, Request
    PROVE  SessionInv' /\ (TunnelRoom /\ OwnInv => OwnInv')
  <1>1. Typed /\ NextInv /\ CleanInv  BY DEF SessionInv
  <1>2. PICK cmd \in Commands, max \in Int : Start(cmd, max)
    <2>1. Unlimited \in Int /\ 1..FileLen \subseteq Int  BY FileTunnelConstants DEF Unlimited
    <2> QED BY <2>1 DEF Request, Commands, Singles, Streams
  <1>3. /\ tunnel = "open" /\ op.at = "idle" /\ ~poisoned /\ asked + 2 <= MaxRequests
        /\ asked' = asked + 1 /\ next_sequence' = AfterSequence(next_sequence)
        /\ got' = <<>> /\ last' = NoOutcome
        /\ UNCHANGED <<tunnel, poisoned, inbox, tasks, stored, wire, torn, defects, dropped, unread,
                       foreign>>
    BY <1>2 DEF Start, TakeSequence, printer
  <1>4. /\ op' \in OpType /\ op'.at = "send" /\ op'.cmd = cmd /\ op'.seq = next_sequence
        /\ op'.id = asked + 1
    <2>1. op' = [at |-> "send", cmd |-> cmd, seq |-> next_sequence, id |-> asked + 1, task |-> 0,
                 skipped |-> 0, ret |-> "none", max |-> max, start |-> 0, len |-> 0, index |-> 0,
                 finals |-> 0]
      BY <1>2 DEF Start, Idle
    <2>2. next_sequence \in 0..SeqMax /\ asked + 1 \in Nat /\ 0 \in 0..SeqMax
      BY <1>1, FileTunnelConstants DEF Typed
    <2>3. op' \in OpType  BY <2>1, <2>2 DEF OpType, Steps, Outcomes
    <2> QED BY <2>1, <2>3
  <1>5. asked \in Nat /\ next_sequence' \in 1..SeqMax /\ asked' \in Nat /\ asked' + 1 <= MaxRequests
        /\ asked + 1 <= MaxRequests
    <2>1. next_sequence \in 0..SeqMax /\ asked \in Nat /\ MaxRequests \in Nat
      BY <1>1, FileTunnelConstants DEF Typed
    <2> QED BY <1>3, <2>1, NextIsAnother
  <1>6. Typed'
    <2>1. got' \in Seq(Blocks) /\ last'.res \in Outcomes
      BY <1>3, EmptySeq, IdleType DEF Outcomes
    <2> QED BY <1>1, <1>3, <1>4, <1>5, <2>1 DEF Typed
  <1>7. NextInv'
    BY <1>3, <1>4 DEF NextInv, AfterSequence
  <1>8. CleanInv'
    <2> SUFFICES ASSUME ~poisoned', ~dropped', ~unread'
                 PROVE  torn' = {} /\ CleanAt(op', inbox', tasks', wire')
      BY DEF CleanInv
    <2>1. torn = {} /\ CleanAt(op, inbox, tasks, wire)  BY <1>1, <1>3 DEF CleanInv
    <2>2. CleanAt(op', inbox, tasks, wire)  BY <1>3, <1>4, <2>1 DEF CleanAt
    <2> QED BY <1>3, <2>1, <2>2
  <1>9. ASSUME TunnelRoom, OwnInv PROVE OwnInv'
    <2>1. PICK base \in 0..asked :
              Numbered(asked - base) /\ Owned(base, asked - base, op, inbox, tasks, wire)
      BY <1>9 DEF OwnInv
    <2>2. /\ Numbered(asked - base)' /\ OwnNumber(base, asked' - base, op') /\ base \in 0..asked'
          /\ \A y : OwnNumber(base, asked - base, y) => OwnNumber(base, asked' - base, y)
      BY <1>1, <1>3, <1>4, <1>5, <1>9, <2>1, TakesNumber
    <2>3. Owned(base, asked' - base, op', inbox', tasks', wire')
      BY <1>3, <2>1, <2>2 DEF Owned
    <2> QED BY <1>3, <1>9, <2>2, <2>3 DEF OwnInv
  <1> QED BY <1>6, <1>7, <1>8, <1>9 DEF SessionInv

----------------------------------------------------------------------------
(* What a step of the printer does to the stream                             *)

CountKept == defects' \in 0..MaxDefects /\ defects <= defects'
PrinterKeepsRest ==
    /\ UNCHANGED <<client, torn, history>>
    /\ stored' \in Seq(Blocks) /\ CountKept

Answer(f, x) ==
    /\ f \in FrameType /\ IsReply(f) /\ SameNumber(f, x)
    /\ f.cmd \in {cmdtype(x.cmd), "none"}
TaskOf(u, x) == u \in TaskType /\ SameNumber(u, x) /\ u.cmd = x.cmd

\* A frame brings nothing: no block of a member, no size and offset to upload from.
Blank(f) == f.body.size = 0
\* A frame of a stream whose digest is not the file's is one the content cannot match.
SoundDigest(f) ==
    \/ f.body.md5 \in {<<>>, File}
    \/ /\ f.body.md5 = <<Garbage>> /\ f.body.size = 1
       /\ Len(f.body.data) = 1 /\ f.body.data[1] # Garbage
\* The next block of a member; the one that says nothing follows is the last.
Piece(f, sent) ==
    /\ sent \in 0..(FileLen - 1)
    /\ f.body.off = sent /\ f.body.size = 1 /\ f.body.data = <<File[sent + 1]>>
    /\ (f.result = "continue" /\ f.body.more) \/ sent + 1 = FileLen

\* A request is answered, or a task of it is opened, or both.
RequestEffect ==
    /\ inbox # <<>> /\ inbox' = Tail(inbox) /\ Head(inbox).cmd \in Commands
    /\ UNCHANGED stored \/ Head(inbox).cmd = "FILE_DEL"
    /\ \/ \E f : /\ Answer(f, Head(inbox)) /\ f.result # "exist"
                 /\ Blank(f) /\ SoundDigest(f)
                 /\ wire' = Append(wire, f) /\ UNCHANGED tasks
       \/ \E f, u : /\ Answer(f, Head(inbox)) /\ TaskOf(u, Head(inbox))
                    /\ f.result \in {"continue", "exist"} /\ Head(inbox).cmd \notin Streams
                    /\ f.result = "exist" => Head(inbox).cmd = "FILE_UPLOAD"
                    /\ Blank(f) \/ f.body.off = Len(u.part)
                    /\ SoundDigest(f)
                    /\ wire' = Append(wire, f) /\ tasks' = tasks \cup {u}
       \/ \E u : /\ TaskOf(u, Head(inbox)) /\ Head(inbox).cmd \in Streams
                 /\ u.cmd = "SUB_FILE" => u.sent = 0
                 /\ tasks' = tasks \cup {u} /\ UNCHANGED wire

\* A chunk is ignored, adds to its task or ends it.
ChunkEffect ==
    /\ inbox # <<>> /\ inbox' = Tail(inbox) /\ Head(inbox).cmd = "CHUNK"
    /\ \/ /\ \A t \in tasks : t.cmd = "FILE_UPLOAD" => t.seq # Head(inbox).seq
          /\ UNCHANGED <<tasks, wire, stored>>
       \/ \E t \in tasks : \E u :
            /\ t.seq = Head(inbox).seq /\ t.cmd = "FILE_UPLOAD" /\ Head(inbox).md5 = <<>>
            /\ TaskOf(u, t) /\ u.part = t.part \o Head(inbox).data
            /\ tasks' = (tasks \ {t}) \cup {u} /\ UNCHANGED <<wire, stored>>
       \/ \E t \in tasks : \E f :
            /\ t.seq = Head(inbox).seq /\ t.cmd = "FILE_UPLOAD"
            /\ Answer(f, t) /\ f.result # "exist" /\ Blank(f) /\ SoundDigest(f)
            /\ f.result = "success" => Head(inbox).md5 # <<>> /\ stored' = Head(inbox).md5
            /\ f.result # "success" => UNCHANGED stored
            /\ tasks' = tasks \ {t} /\ wire' = Append(wire, f)

StopTaskEffect ==
    /\ inbox # <<>> /\ inbox' = Tail(inbox) /\ Head(inbox).cmd = "TASK_CANCEL"
    /\ UNCHANGED stored
    /\ \/ UNCHANGED <<tasks, wire>>
       \/ \E f : /\ Answer(f, Head(inbox)) /\ wire' = Append(wire, f) /\ tasks' \subseteq tasks
                 /\ SoundDigest(f)
                 /\ f.result = "success" => tasks' = {t \in tasks : t.seq # Head(inbox).task}

\* A task sends a frame: it goes on after a CONTINUE and is over after any other.
TaskEffect ==
    /\ UNCHANGED <<inbox, stored>>
    /\ \E t \in tasks : \E f :
         /\ Answer(f, t) /\ f.result # "exist" /\ wire' = Append(wire, f)
         /\ SoundDigest(f)
         /\ t.cmd = "SUB_FILE" /\ defects' = 0 => Blank(f) \/ Piece(f, t.sent)
         /\ t.cmd = "FILE_UPLOAD" => Blank(f) /\ f.result = "continue"
         /\ \/ tasks' = tasks \ {t}
            \/ /\ f.result = "continue"
               /\ \E u : /\ TaskOf(u, t) /\ u.part = t.part
                         /\ u.cmd = "SUB_FILE" => u.sent = t.sent + 1
                         /\ tasks' = (tasks \ {t}) \cup {u}

NotifyEffect ==
    /\ UNCHANGED <<inbox, tasks, stored>>
    /\ \E f \in FrameType : ~IsReply(f) /\ SoundDigest(f) /\ wire' = Append(wire, f)

PrinterEffect ==
    /\ PrinterKeepsRest
    /\ RequestEffect \/ ChunkEffect \/ StopTaskEffect \/ TaskEffect \/ NotifyEffect

\* Each of these effects leaves the stream clean, the frames owned and typed.
LEMMA PrinterTyped ==
    ASSUME Typed, PrinterEffect
    PROVE  inbox' \in Seq(MsgType) /\ tasks' \subseteq TaskType /\ wire' \in Seq(FrameType)
  <1>1. inbox \in Seq(MsgType) /\ tasks \subseteq TaskType /\ wire \in Seq(FrameType)
    BY DEF Typed
  <1>2. inbox' \in Seq(MsgType)
    <2>1. inbox # <<>> => Tail(inbox) \in Seq(MsgType)  BY <1>1, TailEntries
    <2> QED BY <1>1, <2>1 DEF PrinterEffect, RequestEffect, ChunkEffect, StopTaskEffect, TaskEffect,
                             NotifyEffect
  <1>3. tasks' \subseteq TaskType
    BY <1>1 DEF PrinterEffect, RequestEffect, ChunkEffect, StopTaskEffect, TaskEffect,
                NotifyEffect, TaskOf
  <1>4. \A f \in FrameType : Append(wire, f) \in Seq(FrameType)
    BY <1>1, AppendEntries
  <1>5. wire' \in Seq(FrameType)
    BY <1>1, <1>4 DEF PrinterEffect, RequestEffect, ChunkEffect, StopTaskEffect, TaskEffect,
                NotifyEffect, Answer
  <1> QED BY <1>2, <1>3, <1>5

LEMMA PrinterClean ==
    ASSUME Typed, PrinterEffect, CleanAt(op, inbox, tasks, wire)
    PROVE  CleanAt(op, inbox', tasks', wire')
  <1>1. inbox \in Seq(MsgType) /\ tasks \subseteq TaskType /\ wire \in Seq(FrameType) /\ op \in OpType
    BY DEF Typed
  <1>2. \A t, u \in tasks : t = u  BY DEF CleanAt, OneTask
  <1>3. CASE RequestEffect
    <2>0. inbox # <<>> /\ inbox' = Tail(inbox) /\ Head(inbox).cmd \in Commands
          /\ Head(inbox) \in MsgType
      BY <1>1, <1>3, TailEntries DEF RequestEffect
    <2>1. CASE \E f : /\ Answer(f, Head(inbox)) /\ f.result # "exist"
                      /\ wire' = Append(wire, f) /\ UNCHANGED tasks
      <3>1. PICK f : /\ Answer(f, Head(inbox)) /\ f.result # "exist"
                     /\ wire' = Append(wire, f) /\ UNCHANGED tasks
        BY <2>1
      <3>2. tasks = {} /\ CleanAt(op, Tail(inbox), {}, Append(wire, f))
        BY <1>1, <2>0, <3>1, CleanRequest DEF Answer, SameNumber
      <3> QED BY <2>0, <3>1, <3>2
    <2>2. CASE \E f, u : /\ Answer(f, Head(inbox)) /\ TaskOf(u, Head(inbox))
                         /\ f.result \in {"continue", "exist"}
                         /\ f.result = "exist" => Head(inbox).cmd = "FILE_UPLOAD"
                         /\ wire' = Append(wire, f) /\ tasks' = tasks \cup {u}
      <3>1. PICK f, u : /\ Answer(f, Head(inbox)) /\ TaskOf(u, Head(inbox))
                        /\ f.result \in {"continue", "exist"}
                        /\ f.result = "exist" => Head(inbox).cmd = "FILE_UPLOAD"
                        /\ wire' = Append(wire, f) /\ tasks' = tasks \cup {u}
        BY <2>2
      <3>2. CleanAt(op, Tail(inbox), tasks \cup {u}, Append(wire, f))
        BY <1>1, <2>0, <3>1, CleanRequest DEF Answer, SameNumber, TaskOf
      <3> QED BY <2>0, <3>1, <3>2
    <2>3. CASE \E u : TaskOf(u, Head(inbox)) /\ tasks' = tasks \cup {u} /\ UNCHANGED wire
      <3>1. PICK u : TaskOf(u, Head(inbox)) /\ tasks' = tasks \cup {u} /\ UNCHANGED wire
        BY <2>3
      <3>2. PICK f \in FrameType : IsReply(f) /\ f.seq = Head(inbox).seq /\ f.result = "continue"
        <4>1. Head(inbox).seq \in 0..SeqMax  BY <2>0 DEF MsgType
        <4>2. NoBody \in Bodies  BY EmptySeq DEF NoBody, Bodies
        <4> DEFINE f == [kind |-> "reply", id |-> 0, seq |-> Head(inbox).seq, cmd |-> "none",
                         result |-> "continue", body |-> NoBody]
        <4>3. f \in FrameType  BY <4>1, <4>2 DEF FrameType, Results
        <4> QED BY <4>3 DEF IsReply
      <3>3. CleanAt(op, Tail(inbox), tasks \cup {u}, wire)
        BY <1>1, <2>0, <3>1, <3>2, CleanRequest DEF SameNumber, TaskOf
      <3> QED BY <2>0, <3>1, <3>3
    <2> QED BY <1>3, <2>1, <2>2, <2>3 DEF RequestEffect
  <1>4. CASE ChunkEffect
    <2>0. inbox # <<>> /\ inbox' = Tail(inbox)
      BY <1>4 DEF ChunkEffect
    <2>1. CleanAt(op, Tail(inbox), tasks, wire)  BY <1>1, <2>0, CleanChunkRead
    <2>2. CASE UNCHANGED <<tasks, wire>>  BY <2>0, <2>1, <2>2
    <2>3. CASE \E t \in tasks : \E u : TaskOf(u, t) /\ tasks' = (tasks \ {t}) \cup {u} /\ UNCHANGED wire
      <3>1. PICK t, u : t \in tasks /\ TaskOf(u, t) /\ tasks' = (tasks \ {t}) \cup {u} /\ UNCHANGED wire
        BY <2>3
      <3>2. CleanAt(op, Tail(inbox), (tasks \ {t}) \cup {u}, wire)
        BY <1>1, <2>1, <3>1, CleanTaskGrows DEF TaskOf, SameNumber
      <3> QED BY <2>0, <3>1, <3>2
    <2>4. CASE \E t \in tasks : \E f : /\ Answer(f, t) /\ f.result # "exist"
                                         /\ tasks' = tasks \ {t} /\ wire' = Append(wire, f)
      <3>1. PICK t, f : /\ t \in tasks /\ Answer(f, t) /\ f.result # "exist"
                          /\ tasks' = tasks \ {t} /\ wire' = Append(wire, f)
        BY <2>4
      <3>2. tasks' = {}  BY <1>2, <3>1
      <3>3. CleanAt(op, Tail(inbox), {}, Append(wire, f))
        BY <1>1, <2>1, <3>1, CleanTaskSends DEF Answer, SameNumber
      <3> QED BY <2>0, <3>1, <3>2, <3>3
    <2> QED BY <1>4, <2>2, <2>3, <2>4 DEF ChunkEffect
  <1>5. CASE StopTaskEffect
    <2>0. inbox # <<>> /\ inbox' = Tail(inbox) /\ Head(inbox).cmd = "TASK_CANCEL"
      BY <1>5 DEF StopTaskEffect
    <2>1. CASE UNCHANGED <<tasks, wire>>  BY <1>1, <2>0, <2>1, CleanChunkRead
    <2>2. ASSUME NEW f, Answer(f, Head(inbox)), wire' = Append(wire, f), tasks' \subseteq tasks,
                 f.result = "success" => tasks' = {t \in tasks : t.seq # Head(inbox).task}
          PROVE  CleanAt(op, inbox', tasks', wire')
      BY <1>1, <2>0, <2>2, CleanStopped DEF Answer, SameNumber
    <2> QED BY <1>5, <2>1, <2>2 DEF StopTaskEffect
  <1>6. CASE TaskEffect
    <2>1. PICK t, f :
             /\ t \in tasks /\ Answer(f, t) /\ f.result # "exist" /\ wire' = Append(wire, f)
             /\ \/ tasks' = tasks \ {t}
                \/ f.result = "continue" /\ \E u : TaskOf(u, t) /\ tasks' = (tasks \ {t}) \cup {u}
      BY <1>6 DEF TaskEffect
    <2>2. CASE tasks' = tasks \ {t}
      <3>1. tasks' = {}  BY <1>2, <2>1, <2>2
      <3>2. CleanAt(op, inbox, {}, Append(wire, f))
        BY <1>1, <2>1, CleanTaskSends DEF Answer, SameNumber
      <3> QED BY <1>6, <2>1, <3>1, <3>2 DEF TaskEffect
    <2>3. CASE f.result = "continue" /\ \E u : TaskOf(u, t) /\ tasks' = (tasks \ {t}) \cup {u}
      <3>1. PICK u : TaskOf(u, t) /\ tasks' = (tasks \ {t}) \cup {u}  BY <2>3
      <3>2. tasks' = {u} /\ u.seq = t.seq  BY <1>2, <2>1, <3>1 DEF TaskOf, SameNumber
      <3>3. CleanAt(op, inbox, {u}, Append(wire, f))
        <4>1. OneTask({u}) /\ \A x \in {u} : x.seq = t.seq  BY <3>2 DEF OneTask
        <4> QED BY <1>1, <2>1, <2>3, <4>1, CleanTaskSends DEF Answer, SameNumber
      <3> QED BY <1>6, <2>1, <3>2, <3>3 DEF TaskEffect
    <2> QED BY <2>1, <2>2, <2>3
  <1>7. CASE NotifyEffect
    <2>1. PICK f \in FrameType : ~IsReply(f) /\ wire' = Append(wire, f)
      BY <1>7 DEF NotifyEffect
    <2>2. CleanAt(op, inbox, tasks, Append(wire, f))  BY <1>1, <2>1, CleanNotify
    <2> QED BY <1>7, <2>1, <2>2 DEF NotifyEffect
  <1> QED BY <1>3, <1>4, <1>5, <1>6, <1>7 DEF PrinterEffect

LEMMA PrinterKnown ==
    ASSUME Typed, PrinterEffect
    PROVE  AllKnown(op, inbox', tasks', wire', op, inbox, tasks, wire)
  <1> DEFINE K(x) == Known(x, op, inbox, tasks, wire)
  <1>1. inbox \in Seq(MsgType) /\ tasks \subseteq TaskType /\ wire \in Seq(FrameType) /\ op \in OpType
    BY DEF Typed
  <1>2. /\ op.at # "idle" => K(op)
        /\ \A i \in DOMAIN inbox : K(inbox[i])
        /\ \A t \in tasks : K(t)
        /\ \A i \in DOMAIN wire : IsReply(wire[i]) => K(wire[i])
        /\ inbox # <<>> => K(Head(inbox)) /\ \A i \in DOMAIN Tail(inbox) : K(Tail(inbox)[i])
        /\ \A f \in FrameType : (IsReply(f) => K(f)) =>
             \A i \in DOMAIN Append(wire, f) : IsReply(Append(wire, f)[i]) => K(Append(wire, f)[i])
    BY <1>1, OldIsKnown
  <1>3. \A x, y : SameNumber(x, y) /\ K(y) => K(x)
    BY DEF SameNumber, Known
  <1> HIDE DEF K
  <1>4. \A i \in DOMAIN inbox' : K(inbox'[i])
    BY <1>2 DEF PrinterEffect, RequestEffect, ChunkEffect, StopTaskEffect, TaskEffect, NotifyEffect
  <1>5. \A t \in tasks' : K(t)
    <2>1. \A u, t : t \in tasks /\ TaskOf(u, t) => K(u)
      BY <1>2, <1>3 DEF TaskOf
    <2>2. \A u : inbox # <<>> /\ TaskOf(u, Head(inbox)) => K(u)
      BY <1>2, <1>3 DEF TaskOf
    <2>3. RequestEffect \/ StopTaskEffect \/ NotifyEffect => \A t \in tasks' : K(t)
      BY <1>2, <2>2 DEF RequestEffect, StopTaskEffect, NotifyEffect
    <2>4. ChunkEffect => \A t \in tasks' : K(t)
      BY <1>2, <2>1 DEF ChunkEffect
    <2>5. TaskEffect => \A t \in tasks' : K(t)
      BY <1>2, <2>1 DEF TaskEffect
    <2> QED BY <2>3, <2>4, <2>5 DEF PrinterEffect
  <1>6. \/ wire' = wire
        \/ \E f \in FrameType : wire' = Append(wire, f) /\ (IsReply(f) => K(f))
    <2>1. \A f, t : t \in tasks /\ Answer(f, t) => f \in FrameType /\ K(f)
      BY <1>2, <1>3 DEF Answer
    <2>2. \A f : inbox # <<>> /\ Answer(f, Head(inbox)) => f \in FrameType /\ K(f)
      BY <1>2, <1>3 DEF Answer
    <2> QED BY <2>1, <2>2 DEF PrinterEffect, RequestEffect, ChunkEffect, StopTaskEffect, TaskEffect,
                              NotifyEffect
  <1>7. \A i \in DOMAIN wire' : IsReply(wire'[i]) => K(wire'[i])
    BY <1>2, <1>6
  <1> QED BY <1>2, <1>4, <1>5, <1>7 DEF AllKnown, K

LEMMA PrinterKeeps ==
    ASSUME SessionInv, PrinterEffect
    PROVE  SessionInv' /\ (OwnInv => OwnInv')
  <1>1. Typed /\ NextInv /\ CleanInv  BY DEF SessionInv
  <1>2. /\ UNCHANGED <<tunnel, poisoned, next_sequence, op, got, last, torn, asked, dropped, unread,
                       foreign>>
        /\ stored' \in Seq(Blocks) /\ defects' \in 0..MaxDefects
    BY DEF PrinterEffect, PrinterKeepsRest, CountKept, client, history
  <1>3. Typed'
    BY <1>1, <1>2, PrinterTyped DEF Typed
  <1>4. NextInv'  BY <1>1, <1>2 DEF NextInv, AfterSequence
  <1>5. CleanInv'
    <2>1. CleanAt(op, inbox, tasks, wire) => CleanAt(op, inbox', tasks', wire')
      BY <1>1, PrinterClean
    <2> QED BY <1>1, <1>2, <2>1 DEF CleanInv
  <1>6. ASSUME OwnInv PROVE OwnInv'
    <2>1. AllKnown(op', inbox', tasks', wire', op, inbox, tasks, wire)
      BY <1>1, <1>2, PrinterKnown
    <2> QED BY <1>2, <1>6, <2>1, KeepsOwn DEF OwnInv
  <1> QED BY <1>3, <1>4, <1>5, <1>6 DEF SessionInv

----------------------------------------------------------------------------
(* The printer's steps have these effects                                    *)

LEMMA ReplyType ==
    ASSUME NEW r, r.id \in Nat, r.seq \in 0..SeqMax, r.cmd \in Commands \cup {"TASK_CANCEL"},
           NEW result \in Results, NEW body \in Bodies
    PROVE  /\ Answer(Reply(r, result, body), r) /\ Reply(r, result, body).result = result
           /\ Reply(r, result, body).body = body
  <1>1. cmdtype(r.cmd) \in Commands \cup {"none", "TASK_CANCEL"}
    BY DEF cmdtype, Commands, Streams
  <1>2. Reply(r, result, body) \in FrameType
    BY <1>1 DEF FrameType, Reply
  <1> QED BY <1>2 DEF Reply, Answer, IsReply, SameNumber

\* A reply may leave its cmdtype out.
LEMMA ReplyWithoutCommand ==
    ASSUME NEW r, r.id \in Nat, r.seq \in 0..SeqMax, r.cmd \in Commands, NEW f,
           f = [Reply(r, "fail", NoBody) EXCEPT !.cmd = "none"], NoBody \in Bodies
    PROVE  Answer(f, r) /\ f.result = "fail" /\ f.body = NoBody
  <1>1. f = [kind |-> "reply", id |-> r.id, seq |-> r.seq, cmd |-> "none", result |-> "fail",
             body |-> NoBody]
    BY DEF Reply
  <1>2. f \in FrameType
    BY <1>1 DEF FrameType, Results
  <1> QED BY <1>1, <1>2 DEF Answer, IsReply, SameNumber

LEMMA OpenType ==
    ASSUME NEW r, r.id \in Nat, r.seq \in 0..SeqMax, r.cmd \in Commands, NEW part \in Seq(Blocks)
    PROVE  /\ TaskOf(Open(r, part), r) /\ Open(r, part).part = part
           /\ r.cmd = "SUB_FILE" => Open(r, part).sent = 0
  <1>1. Open(r, part) \in TaskType
    BY DEF Open, TaskType
  <1> QED BY <1>1 DEF Open, TaskOf, SameNumber

LEMMA DefectType ==
    ASSUME Typed, NEW isDefect \in BOOLEAN, Defect(isDefect)
    PROVE  CountKept
  BY FileTunnelConstants DEF Typed, Defect, CountKept

LEMMA SameCount ==
    ASSUME Typed, UNCHANGED defects
    PROVE  CountKept
  BY FileTunnelConstants DEF Typed, CountKept

LEMMA SendAppends ==
    ASSUME Typed, NEW f \in FrameType, Send(<<f>>)
    PROVE  wire' = Append(wire, f)
  <1>1. wire \in Seq(FrameType)  BY DEF Typed
  <1>2. wire \o <<f>> = Append(wire, f)  BY <1>1, AppendEntries
  <1> QED BY <1>2 DEF Send

LEMMA BodyTypes ==
    /\ NoBody \in Bodies /\ NoBody.size = 0 /\ NoBody.md5 = <<>>
    /\ \A p \in {"data", "pathless", "malformed", "status", "status_refused", "status_malformed"} :
         /\ [NoBody EXCEPT !.part = p] \in Bodies
         /\ [NoBody EXCEPT !.part = p].size = 0 /\ [NoBody EXCEPT !.part = p].md5 = <<>>
    /\ \A off, size \in Nat :
         /\ [NoBody EXCEPT !.off = off, !.size = size] \in Bodies
         /\ [NoBody EXCEPT !.off = off, !.size = size].off = off
         /\ [NoBody EXCEPT !.off = off, !.size = size].md5 = <<>>
  <1>1. <<>> \in Seq(Blocks)  BY EmptySeq
  <1> QED BY <1>1 DEF NoBody, Bodies

LEMMA RequestHandled ==
    ASSUME Typed, inbox # <<>>, inbox' = Tail(inbox),
           \/ Head(inbox).cmd \in Singles /\ HandleSingle(Head(inbox))
           \/ Head(inbox).cmd \in Streams /\ HandleStream(Head(inbox))
           \/ Head(inbox).cmd = "FILE_UPLOAD" /\ HandleInit(Head(inbox))
    PROVE  RequestEffect /\ stored' \in Seq(Blocks) /\ CountKept
  <1> DEFINE r == Head(inbox)
  <1>1. r \in MsgType  BY TailEntries DEF Typed
  <1>2. r.id \in Nat /\ r.seq \in 0..SeqMax  BY <1>1 DEF MsgType
  <1>3. r.cmd \in Commands /\ r.cmd \in Commands \cup {"TASK_CANCEL"}  BY DEF Commands
  <1>4. <<>> \in Seq(Blocks) /\ stored \in Seq(Blocks)
    BY EmptySeq DEF Typed
  <1>5. TaskOf(Open(r, <<>>), r) /\ (r.cmd = "SUB_FILE" => Open(r, <<>>).sent = 0)
    BY <1>2, <1>3, <1>4, OpenType
  <1> HIDE DEF r
  <1>6. ASSUME NEW result \in {"none", "success", "fail"}, NEW body \in Bodies,
               Send(<<Reply(r, result, body)>>), UNCHANGED tasks, body.size = 0, body.md5 = <<>>,
               UNCHANGED stored \/ r.cmd = "FILE_DEL"
        PROVE  RequestEffect
    <2>0. result \in Results  BY <1>6 DEF Results
    <2> DEFINE f == Reply(r, result, body)
    <2>1. Answer(f, r) /\ f.result = result /\ f.body = body
      BY <1>2, <1>3, <1>6, <2>0, ReplyType
    <2> HIDE DEF f
    <2>2. wire' = Append(wire, f)
      BY <1>6, <2>1, SendAppends DEF Answer, f
    <2>3. Blank(f) /\ SoundDigest(f)  BY <1>6, <2>1 DEF Blank, SoundDigest
    <2> QED BY <1>3, <1>6, <2>1, <2>2, <2>3 DEF RequestEffect, r
  <1>7. ASSUME NEW result \in {"continue", "exist"}, NEW body \in Bodies, NEW part \in Seq(Blocks),
               result = "exist" => r.cmd = "FILE_UPLOAD",
               Send(<<Reply(r, result, body)>>), tasks' = tasks \cup {Open(r, part)},
               body.size = 0 \/ body.off = Len(part), body.md5 = <<>>, r.cmd \notin Streams,
               UNCHANGED stored \/ r.cmd = "FILE_DEL"
        PROVE  RequestEffect
    <2>0. result \in Results  BY <1>7 DEF Results
    <2> DEFINE f == Reply(r, result, body)
               u == Open(r, part)
    <2>1. Answer(f, r) /\ f.result = result /\ f.body = body
      BY <1>2, <1>3, <1>7, <2>0, ReplyType
    <2> HIDE DEF f
    <2>2. wire' = Append(wire, f)
      BY <1>7, <2>1, SendAppends DEF Answer, f
    <2>3. TaskOf(u, r) /\ u.part = part  BY <1>2, <1>3, <1>7, OpenType
    <2>4. tasks' = tasks \cup {u}  BY <1>7
    <2> HIDE DEF u
    <2>5. Blank(f) \/ f.body.off = Len(u.part)  BY <1>7, <2>1, <2>3 DEF Blank
    <2>6. SoundDigest(f)  BY <1>7, <2>1 DEF SoundDigest
    <2> QED BY <1>3, <1>7, <2>1, <2>2, <2>3, <2>4, <2>5, <2>6 DEF RequestEffect, r
  <1>8. CASE r.cmd \in Singles /\ HandleSingle(r)
    <2>1. PICK result \in {"success", "fail", "none", "continue"},
               part \in {"data", "pathless", "malformed"} :
            /\ Defect(part # "data" \/ result \in {"none", "continue"})
            /\ Send(<<Reply(r, result, [NoBody EXCEPT !.part = part])>>)
            /\ tasks' = tasks \cup (IF result = "continue" THEN {Open(r, <<>>)} ELSE {})
            /\ stored' = IF r.cmd = "FILE_DEL" /\ result = "success" THEN <<>> ELSE stored
      BY <1>8 DEF HandleSingle
    <2>2. /\ [NoBody EXCEPT !.part = part] \in Bodies
          /\ [NoBody EXCEPT !.part = part].size = 0 /\ [NoBody EXCEPT !.part = part].md5 = <<>>
      BY BodyTypes
    <2>3. stored' \in Seq(Blocks) /\ (UNCHANGED stored \/ r.cmd = "FILE_DEL")
          /\ r.cmd \notin Streams
      BY <1>4, <1>8, <2>1 DEF Singles, Streams
    <2>4. CountKept  BY <2>1, DefectType
    <2>5. RequestEffect
      <3>1. CASE result = "continue"
        BY <1>4, <1>7, <2>1, <2>2, <2>3, <3>1
      <3>2. CASE result # "continue"
        BY <1>6, <2>1, <2>2, <2>3, <3>2
      <3> QED BY <3>1, <3>2
    <2> QED BY <2>3, <2>4, <2>5
  <1>9. CASE r.cmd \in Streams /\ HandleStream(r)
    <2>1. UNCHANGED stored /\ CountKept  BY <1>9, SameCount DEF HandleStream
    <2>2. CASE \E cmd \in {cmdtype(r.cmd), "none"} :
                 Send(<<[Reply(r, "fail", NoBody) EXCEPT !.cmd = cmd]>>) /\ UNCHANGED tasks
      <3>1. PICK cmd \in {cmdtype(r.cmd), "none"} :
                 Send(<<[Reply(r, "fail", NoBody) EXCEPT !.cmd = cmd]>>) /\ UNCHANGED tasks
        BY <2>2
      <3> DEFINE f == [Reply(r, "fail", NoBody) EXCEPT !.cmd = cmd]
      <3>2. Answer(f, r) /\ f.result = "fail" /\ f.body = NoBody
        <4>1. "fail" \in Results /\ NoBody \in Bodies  BY BodyTypes DEF Results
        <4>2. CASE cmd = "none"  BY <1>2, <1>3, <4>1, <4>2, ReplyWithoutCommand
        <4>3. CASE cmd = cmdtype(r.cmd)
          <5>1. f = Reply(r, "fail", NoBody)  BY <4>3 DEF Reply
          <5> QED BY <1>2, <1>3, <4>1, <5>1, ReplyType
        <4> QED BY <4>2, <4>3
      <3> HIDE DEF f
      <3>3. wire' = Append(wire, f)  BY <3>1, <3>2, SendAppends DEF Answer, f
      <3>4. Blank(f) /\ SoundDigest(f)  BY <3>2, BodyTypes DEF Blank, SoundDigest
      <3>5. RequestEffect
        BY <1>3, <2>1, <3>1, <3>2, <3>3, <3>4 DEF RequestEffect, r
      <3> QED BY <1>4, <2>1, <3>5
    <2>3. CASE tasks' = tasks \cup {Open(r, <<>>)} /\ UNCHANGED wire
      <3>1. PICK u : u = Open(r, <<>>)  OBVIOUS
      <3>2. TaskOf(u, r) /\ (u.cmd = "SUB_FILE" => u.sent = 0)  BY <1>5, <3>1 DEF TaskOf
      <3>3. RequestEffect
        BY <1>3, <1>9, <2>1, <2>3, <3>1, <3>2 DEF RequestEffect, r
      <3> QED BY <1>4, <2>1, <3>3
    <2> QED BY <1>9, <2>2, <2>3 DEF HandleStream
  <1>10. CASE r.cmd = "FILE_UPLOAD" /\ HandleInit(r)
    <2>1. UNCHANGED stored /\ r.cmd \notin Streams  BY <1>10 DEF HandleInit, Streams
    <2>2. CASE \E result \in {"success", "fail", "none"} :
                 Send(<<Reply(r, result, NoBody)>>) /\ UNCHANGED <<tasks, defects>>
      BY <1>4, <1>6, <2>1, <2>2, BodyTypes, SameCount
    <2>3. CASE \E off \in 0..FileLen, len \in 0..(FrameLimit + 1), result \in {"continue", "exist"},
                  old \in {Garbage, 1} :
                 /\ Send(<<Reply(r, result, [NoBody EXCEPT !.off = off, !.size = len])>>)
                 /\ tasks' = tasks \cup {Open(r,
                                 [i \in 1..off |-> IF old = Garbage THEN Garbage ELSE File[i]])}
                 /\ Defect(len \notin 1..FrameLimit \/ off = FileLen)
      <3>1. PICK off \in 0..FileLen, len \in 0..(FrameLimit + 1), result \in {"continue", "exist"},
                 old \in {Garbage, 1} :
                 /\ Send(<<Reply(r, result, [NoBody EXCEPT !.off = off, !.size = len])>>)
                 /\ tasks' = tasks \cup {Open(r,
                                 [i \in 1..off |-> IF old = Garbage THEN Garbage ELSE File[i]])}
                 /\ Defect(len \notin 1..FrameLimit \/ off = FileLen)
        BY <2>3
      <3>2. off \in Nat /\ len \in Nat  BY FileTunnelConstants
      <3>3. [i \in 1..off |-> IF old = Garbage THEN Garbage ELSE File[i]] \in Seq(Blocks)
        <4>1. \A i \in 1..off : (IF old = Garbage THEN Garbage ELSE File[i]) \in Blocks
          BY FileTunnelConstants DEF Garbage, Blocks, File
        <4>2. [i \in 1..off |-> IF old = Garbage THEN Garbage ELSE File[i]] \in [1..off -> Blocks]
          BY <4>1
        <4> QED BY <3>2, <4>2, SeqDef
      <3>4. RequestEffect
        <4> DEFINE b == [NoBody EXCEPT !.off = off, !.size = len]
                   part == [i \in 1..off |-> IF old = Garbage THEN Garbage ELSE File[i]]
        <4>1. b \in Bodies /\ b.off = off /\ b.md5 = <<>>  BY <3>2, BodyTypes
        <4>2. Len(part) = off  BY <3>2
        <4>3. Send(<<Reply(r, result, b)>>) /\ tasks' = tasks \cup {Open(r, part)}  BY <3>1
        <4> HIDE DEF b
        <4>4. part \in Seq(Blocks)  BY <3>3
        <4> HIDE DEF part
        <4> QED BY <1>7, <1>10, <2>1, <4>1, <4>2, <4>3, <4>4
      <3>5. CountKept  BY <3>1, DefectType
      <3> QED BY <1>4, <2>1, <3>4, <3>5
    <2>4. CASE /\ Send(<<Reply(r, "continue", [NoBody EXCEPT !.part = "malformed"])>>)
               /\ tasks' = tasks \cup {Open(r, <<>>)}
               /\ Defect(TRUE)
      <3>1. CountKept  BY <2>4, DefectType
      <3>2. /\ [NoBody EXCEPT !.part = "malformed"] \in Bodies
            /\ [NoBody EXCEPT !.part = "malformed"].size = 0
            /\ [NoBody EXCEPT !.part = "malformed"].md5 = <<>>
        BY BodyTypes
      <3>3. RequestEffect  BY <1>4, <1>7, <2>1, <2>4, <3>2
      <3> QED BY <1>4, <2>1, <3>1, <3>3
    <2> QED BY <1>10, <2>2, <2>3, <2>4 DEF HandleInit
  <1> QED BY <1>8, <1>9, <1>10 DEF r

LEMMA ChunkHandled ==
    ASSUME Typed, inbox # <<>>, inbox' = Tail(inbox), Head(inbox).cmd = "CHUNK",
           HandleChunk(Head(inbox))
    PROVE  ChunkEffect /\ stored' \in Seq(Blocks) /\ CountKept
  <1> DEFINE r == Head(inbox)
             mine == {t \in tasks : t.seq = r.seq /\ t.cmd = "FILE_UPLOAD"}
  <1>1. r \in MsgType /\ r.data \in Seq(Blocks)
    <2>1. r \in MsgType  BY TailEntries DEF Typed
    <2> QED BY <2>1 DEF MsgType
  <1>2. stored \in Seq(Blocks) /\ CountKept /\ tasks \subseteq TaskType
    BY SameCount DEF Typed, HandleChunk
  <1>3. CASE mine = {}
    <2>1. UNCHANGED <<tasks, wire, stored>>  BY <1>3 DEF HandleChunk
    <2>2. \A t \in tasks : t.cmd = "FILE_UPLOAD" => t.seq # r.seq  BY <1>3
    <2> QED BY <1>2, <2>1, <2>2 DEF ChunkEffect
  <1>4. CASE mine # {}
    <2> DEFINE t == CHOOSE t \in mine : TRUE
               content == t.part \o r.data
    <2>1. t \in mine  BY <1>4
    <2>2. \/ /\ tasks' = (tasks \ {t}) \cup {[t EXCEPT !.part = content]}
             /\ r.md5 = <<>> /\ UNCHANGED <<wire, stored>>
          \/ /\ tasks' = tasks \ {t} /\ r.md5 # <<>> /\ stored' = r.md5 /\ stored' = content
             /\ Send(<<Reply(t, "success", NoBody)>>)
          \/ /\ tasks' = tasks \ {t} /\ UNCHANGED stored
             /\ Send(<<Reply(t, "fail", NoBody)>>)
      BY <1>4 DEF HandleChunk
    <2>3. t \in tasks /\ t \in TaskType /\ t.seq = r.seq /\ t.cmd = "FILE_UPLOAD"  BY <1>2, <2>1
    <2> HIDE DEF t
    <2>4. /\ t.part \in Seq(Blocks) /\ t.id \in Nat /\ t.seq \in 0..SeqMax
          /\ t.cmd \in Commands \cup {"TASK_CANCEL"}
      BY <2>3 DEF TaskType
    <2>5. content \in Seq(Blocks)  BY <1>1, <2>4, ConcatProperties
    <2>6. CASE /\ tasks' = (tasks \ {t}) \cup {[t EXCEPT !.part = content]}
               /\ r.md5 = <<>> /\ UNCHANGED <<wire, stored>>
      <3>1. PICK u : u = [t EXCEPT !.part = content]  OBVIOUS
      <3>2. TaskOf(u, t) /\ u.part = t.part \o r.data
        <4>1. u \in TaskType /\ u.part = content  BY <2>3, <2>5, <3>1 DEF TaskType
        <4>2. SameNumber(u, t) /\ u.cmd = t.cmd  BY <2>3, <3>1 DEF TaskType, SameNumber
        <4> QED BY <4>1, <4>2 DEF TaskOf
      <3>3. tasks' = (tasks \ {t}) \cup {u}  BY <2>6, <3>1
      <3> QED BY <1>2, <2>3, <2>6, <3>2, <3>3 DEF ChunkEffect
    <2> HIDE DEF content
    <2>7. ASSUME NEW result \in {"success", "fail"}, tasks' = tasks \ {t},
                 Send(<<Reply(t, result, NoBody)>>),
                 result = "success" => r.md5 # <<>> /\ stored' = r.md5,
                 result = "fail" => UNCHANGED stored
          PROVE  ChunkEffect
      <3> DEFINE f == Reply(t, result, NoBody)
      <3>1. Answer(f, t) /\ f.result = result /\ f.body = NoBody
        <4>1. result \in Results /\ NoBody \in Bodies  BY <2>7, BodyTypes DEF Results
        <4> QED BY <2>4, <4>1, ReplyType
      <3> HIDE DEF f
      <3>2. wire' = Append(wire, f)
        BY <2>7, <3>1, SendAppends DEF Answer, f
      <3>3. Blank(f) /\ SoundDigest(f)  BY <3>1, BodyTypes DEF Blank, SoundDigest
      <3> QED BY <2>3, <2>7, <3>1, <3>2, <3>3 DEF ChunkEffect
    <2> QED BY <1>2, <2>2, <2>5, <2>6, <2>7
  <1> QED BY <1>3, <1>4

LEMMA CancelHandled ==
    ASSUME Typed, inbox # <<>>, inbox' = Tail(inbox), Head(inbox).cmd = "TASK_CANCEL",
           HandleCancel(Head(inbox))
    PROVE  StopTaskEffect /\ stored' \in Seq(Blocks) /\ CountKept
  <1> DEFINE r == Head(inbox)
  <1>1. r.id \in Nat /\ r.seq \in 0..SeqMax /\ r.cmd \in Commands \cup {"TASK_CANCEL"}
    <2>1. r \in MsgType  BY TailEntries DEF Typed
    <2> QED BY <2>1 DEF MsgType
  <1>2. stored' \in Seq(Blocks) /\ CountKept /\ UNCHANGED stored
    BY SameCount DEF Typed, HandleCancel
  <1> HIDE DEF r
  <1>3. ASSUME NEW result \in {"success", "fail"}, Send(<<Reply(r, result, NoBody)>>),
               tasks' \subseteq tasks, result = "success" => tasks' = {t \in tasks : t.seq # r.task}
        PROVE  StopTaskEffect
    <2> DEFINE f == Reply(r, result, NoBody)
    <2>1. Answer(f, r) /\ f.result = result /\ f.body = NoBody
      <3>1. result \in Results /\ NoBody \in Bodies  BY <1>3, BodyTypes DEF Results
      <3> QED BY <1>1, <3>1, ReplyType
    <2> HIDE DEF f
    <2>2. wire' = Append(wire, f)
      BY <1>3, <2>1, SendAppends DEF Answer, f
    <2>3. SoundDigest(f)  BY <2>1, BodyTypes DEF SoundDigest
    <2> QED BY <1>2, <1>3, <2>1, <2>2, <2>3 DEF StopTaskEffect, r
  <1>4. \/ tasks' = {t \in tasks : t.seq # r.task} /\ Send(<<Reply(r, "success", NoBody)>>)
        \/ Send(<<Reply(r, "fail", NoBody)>>) /\ UNCHANGED tasks
        \/ UNCHANGED <<tasks, wire>>
    BY DEF HandleCancel, r
  <1>5. CASE tasks' = {t \in tasks : t.seq # r.task} /\ Send(<<Reply(r, "success", NoBody)>>)
    BY <1>2, <1>3, <1>5
  <1>6. CASE Send(<<Reply(r, "fail", NoBody)>>) /\ UNCHANGED tasks
    BY <1>2, <1>3, <1>6
  <1>7. CASE UNCHANGED <<tasks, wire>>
    BY <1>2, <1>7 DEF StopTaskEffect
  <1> QED BY <1>4, <1>5, <1>6, <1>7

\* A frame of a task as the printer makes it up.
Fragments == [result : Results, body : Bodies]

LEMMA FragmentTypes ==
    ASSUME NEW t \in TaskType, t.sent \in 0..(FileLen - 1)
    PROVE  /\ \A f \in {Fragment(t)} \cup WrongFragments(t) \cup MemberVariants(t) :
                f \in Fragments /\ f.result # "exist" /\ SoundDigest(f)
           /\ t.cmd = "SUB_FILE" =>
                \A f \in {Fragment(t)} \cup MemberVariants(t) : Blank(f) \/ Piece(f, t.sent)
  <1> DEFINE F == Fragment(t)
             B == F.body
  <1>1. /\ t.sent \in Nat /\ t.sent + 1 \in 1..FileLen /\ FileLen \in Nat /\ FileLen - 1 \in Nat
    BY FileTunnelConstants
  <1>2. /\ File \in Seq(Blocks) /\ <<>> \in Seq(Blocks) /\ <<File[t.sent + 1]>> \in Seq(Blocks)
        /\ <<Garbage>> \in Seq(Blocks) /\ File[t.sent + 1] # Garbage
    <2>1. File[t.sent + 1] \in Blocks /\ File[t.sent + 1] # Garbage
      BY <1>1 DEF File, Blocks, Garbage
    <2> QED BY <2>1, FileSeq, EmptySeq
  <1>3. B \in Bodies /\ F = [result |-> F.result, body |-> B]
        /\ F.result \in {"success", "continue"}
    BY <1>1, <1>2 DEF Fragment, Bodies
  <1>4. B.off \in Nat /\ B.off + 1 \in Nat /\ B.total - 1 \in Nat
    BY <1>1 DEF Fragment
  <1>5. /\ B.off = t.sent /\ B.size = 1 /\ B.data = <<File[t.sent + 1]>> /\ B.md5 \in {<<>>, File}
        /\ (F.result = "continue" /\ B.more) \/ t.sent + 1 = FileLen
        /\ B.more \/ t.sent + 1 = FileLen
    BY DEF Fragment
  <1>6. Len(B.data) = 1 /\ B.data[1] # Garbage
    <2>1. Len(<<File[t.sent + 1]>>) = 1 /\ <<File[t.sent + 1]>>[1] = File[t.sent + 1]  OBVIOUS
    <2> QED BY <1>2, <1>5, <2>1
  <1> HIDE DEF F
  <1>7. ASSUME NEW b \in Bodies, b.md5 \in {<<>>, File} \/ b = [B EXCEPT !.md5 = <<Garbage>>]
        PROVE  /\ [F EXCEPT !.body = b] \in Fragments /\ [F EXCEPT !.body = b].result # "exist"
               /\ SoundDigest([F EXCEPT !.body = b])
    <2>1. [F EXCEPT !.body = b] = [result |-> F.result, body |-> b]  BY <1>3
    <2>2. b = [B EXCEPT !.md5 = <<Garbage>>] =>
            b.size = B.size /\ b.data = B.data /\ b.md5 = <<Garbage>>
      BY <1>3 DEF Bodies
    <2>3. SoundDigest([result |-> F.result, body |-> b])
      BY <1>5, <1>6, <1>7, <2>2 DEF SoundDigest
    <2> QED BY <1>3, <1>7, <2>1, <2>3 DEF Fragments, Results
  <1>8. ASSUME NEW r \in {"success", "continue", "none"}
        PROVE  /\ [F EXCEPT !.result = r] \in Fragments /\ [F EXCEPT !.result = r].result # "exist"
               /\ SoundDigest([F EXCEPT !.result = r])
    <2>1. [F EXCEPT !.result = r] = [result |-> r, body |-> B]  BY <1>3
    <2>2. SoundDigest([result |-> r, body |-> B])  BY <1>5 DEF SoundDigest
    <2> QED BY <1>3, <1>8, <2>1, <2>2 DEF Fragments, Results
  <1>9. ASSUME NEW f \in WrongFragments(t) PROVE f \in Fragments /\ f.result # "exist" /\ SoundDigest(f)
    <2>1. /\ [B EXCEPT !.part = "malformed"] \in Bodies /\ [B EXCEPT !.off = B.off + 1] \in Bodies
          /\ [B EXCEPT !.size = 2] \in Bodies /\ [B EXCEPT !.data = <<Garbage>>] \in Bodies
          /\ [B EXCEPT !.total = B.total - 1] \in Bodies /\ [B EXCEPT !.md5 = <<>>] \in Bodies
          /\ [B EXCEPT !.md5 = <<Garbage>>] \in Bodies
      BY <1>2, <1>3, <1>4 DEF Bodies
    <2>2. /\ [B EXCEPT !.part = "malformed"].md5 = B.md5 /\ [B EXCEPT !.off = B.off + 1].md5 = B.md5
          /\ [B EXCEPT !.size = 2].md5 = B.md5 /\ [B EXCEPT !.data = <<Garbage>>].md5 = B.md5
          /\ [B EXCEPT !.total = B.total - 1].md5 = B.md5 /\ [B EXCEPT !.md5 = <<>>].md5 = <<>>
      BY <1>3 DEF Bodies
    <2>3. \/ \E r \in {"success", "continue", "none"} : f = [F EXCEPT !.result = r]
          \/ f = [F EXCEPT !.body = [B EXCEPT !.part = "malformed"]]
          \/ f = [F EXCEPT !.body = [B EXCEPT !.off = B.off + 1]]
          \/ f = [F EXCEPT !.body = [B EXCEPT !.size = 2]]
          \/ f = [F EXCEPT !.body = [B EXCEPT !.data = <<Garbage>>]]
          \/ f = [F EXCEPT !.body = [B EXCEPT !.total = B.total - 1]]
          \/ f = [F EXCEPT !.body = [B EXCEPT !.md5 = <<>>]]
          \/ f = [F EXCEPT !.body = [B EXCEPT !.md5 = <<Garbage>>]]
      BY <1>9 DEF WrongFragments, F
    <2>4. CASE \E r \in {"success", "continue", "none"} : f = [F EXCEPT !.result = r]
      BY <1>8, <2>4
    <2>5. PICK b : b = B  OBVIOUS
    <2> QED BY <1>5, <1>7, <2>1, <2>2, <2>3, <2>4
  <1>10. ASSUME NEW f \in MemberVariants(t)
         PROVE  /\ f \in Fragments /\ f.result # "exist" /\ SoundDigest(f)
                /\ Blank(f) \/ Piece(f, t.sent)
    <2>1. \/ \E r \in {"success", "continue"} : f = [result |-> r, body |-> NoBody]
          \/ f = [F EXCEPT !.result = "continue"]
      BY <1>10 DEF MemberVariants, F
    <2>2. ASSUME NEW r \in {"success", "continue"}, f = [result |-> r, body |-> NoBody]
          PROVE  f \in Fragments /\ f.result # "exist" /\ SoundDigest(f) /\ Blank(f)
      BY <2>2, BodyTypes DEF Fragments, Results, SoundDigest, Blank
    <2>3. CASE f = [F EXCEPT !.result = "continue"]
      <3>1. f.body = B /\ f.result = "continue"  BY <1>3, <2>3
      <3>2. Piece(f, t.sent)  BY <1>5, <3>1 DEF Piece
      <3> QED BY <1>8, <2>3, <3>2
    <2> QED BY <2>1, <2>2, <2>3
  <1>11. F \in Fragments /\ F.result # "exist" /\ SoundDigest(F) /\ Piece(F, t.sent)
    BY <1>3, <1>5 DEF Fragments, Results, SoundDigest, Piece
  <1> QED BY <1>9, <1>10, <1>11 DEF F

LEMMA TaskSends ==
    ASSUME Typed, NEW t \in tasks, NEW f \in Fragments, f.result # "exist", SoundDigest(f),
           t.cmd \in Streams, t.cmd = "SUB_FILE" /\ defects' = 0 => Blank(f) \/ Piece(f, t.sent),
           SendNext(t, f), UNCHANGED <<inbox, stored>>
    PROVE  TaskEffect
  <1>1. /\ t \in TaskType /\ t.id \in Nat /\ t.seq \in 0..SeqMax /\ t.sent + 1 \in Int
        /\ t.cmd \in Commands \cup {"TASK_CANCEL"} /\ t.cmd # "FILE_UPLOAD"
    BY DEF Typed, TaskType, Streams
  <1>2. f.result \in Results /\ f.body \in Bodies  BY DEF Fragments
  <1> DEFINE g == Reply(t, f.result, f.body)
  <1>3. Answer(g, t) /\ g.result = f.result /\ g.body = f.body  BY <1>1, <1>2, ReplyType
  <1> HIDE DEF g
  <1>4. wire' = Append(wire, g)  BY <1>3, SendAppends DEF SendNext, Answer, g
  <1>5. /\ SoundDigest(g) /\ g.result # "exist"
        /\ t.cmd = "SUB_FILE" /\ defects' = 0 => Blank(g) \/ Piece(g, t.sent)
    BY <1>3 DEF SoundDigest, Blank, Piece
  <1>6. CASE f.result = "continue"
    <2>1. PICK u : u = [t EXCEPT !.sent = t.sent + 1]  OBVIOUS
    <2>2. tasks' = (tasks \ {t}) \cup {u}
      BY <1>6, <2>1 DEF SendNext
    <2>3. TaskOf(u, t) /\ u.part = t.part /\ u.sent = t.sent + 1
      <3>1. u \in TaskType  BY <1>1, <2>1 DEF TaskType
      <3>2. SameNumber(u, t) /\ u.cmd = t.cmd  BY <1>1, <2>1 DEF TaskType, SameNumber
      <3>3. u.part = t.part /\ u.sent = t.sent + 1  BY <1>1, <2>1 DEF TaskType
      <3> QED BY <3>1, <3>2, <3>3 DEF TaskOf
    <2> QED BY <1>1, <1>3, <1>4, <1>5, <1>6, <2>2, <2>3 DEF TaskEffect
  <1>7. CASE f.result # "continue"
    <2>1. tasks' = tasks \ {t}  BY <1>7 DEF SendNext
    <2> QED BY <1>1, <1>3, <1>4, <1>5, <2>1 DEF TaskEffect
  <1> QED BY <1>6, <1>7

LEMMA PrinterSendsEffect ==
    ASSUME Typed, PrinterSends
    PROVE  PrinterEffect
  <1>1. UNCHANGED <<client, inbox, stored, torn, history>>  BY DEF PrinterSends
  <1>2. stored \in Seq(Blocks)  BY DEF Typed
  <1>3. ASSUME TaskEffect, CountKept PROVE PrinterEffect
    BY <1>1, <1>2, <1>3 DEF PrinterEffect, PrinterKeepsRest
  <1>4. PICK t \in tasks :
          \/ /\ t.cmd \in Streams /\ t.sent = -1
             /\ \E f \in Statuses : SendNext(t, f) /\ Defect(f.body.part = "status_malformed")
          \/ /\ t.cmd \in Streams /\ t.sent \in 0..(FileLen - 1)
             /\ \/ \E f \in {Fragment(t)} \cup MemberVariants(t) :
                      SendNext(t, f) /\ UNCHANGED defects
                \/ \E f \in WrongFragments(t) : SendNext(t, f) /\ Defect(TRUE)
          \/ /\ t.cmd \in Streams /\ t.sent = FileLen
             /\ SendNext(t, [result |-> "success", body |-> NoBody]) /\ UNCHANGED defects
          \/ /\ t.cmd \notin Streams
             /\ Send(<<Reply(t, "continue", NoBody)>>) /\ UNCHANGED <<tasks, defects>>
    BY DEF PrinterSends
  <1>5. t \in TaskType  BY DEF Typed
  <1>6. CASE t.cmd \in Streams /\ \E f \in Statuses : SendNext(t, f) /\ Defect(f.body.part = "status_malformed")
    <2>1. PICK f \in Statuses : SendNext(t, f) /\ Defect(f.body.part = "status_malformed")
      BY <1>6
    <2>2. PICK r \in {"continue", "success"}, p \in {"status", "status_refused", "status_malformed"} :
              f = [result |-> r, body |-> [NoBody EXCEPT !.part = p]]
      BY DEF Statuses
    <2>3. /\ [NoBody EXCEPT !.part = p] \in Bodies
          /\ [NoBody EXCEPT !.part = p].size = 0 /\ [NoBody EXCEPT !.part = p].md5 = <<>>
      BY BodyTypes
    <2>4. /\ f.result = r /\ f.body \in Bodies /\ f.body.size = 0 /\ f.body.md5 = <<>>
          /\ f = [result |-> f.result, body |-> f.body]
      BY <2>2, <2>3
    <2>5. f \in Fragments /\ f.result # "exist" /\ SoundDigest(f) /\ Blank(f)
      BY <2>4 DEF Fragments, Results, SoundDigest, Blank
    <2>6. TaskEffect  BY <1>1, <1>6, <2>1, <2>5, TaskSends
    <2>7. CountKept  BY <2>1, DefectType
    <2> QED BY <1>3, <2>6, <2>7
  <1>7. CASE /\ t.cmd \in Streams /\ t.sent \in 0..(FileLen - 1)
             /\ \/ \E f \in {Fragment(t)} \cup MemberVariants(t) :
                      SendNext(t, f) /\ UNCHANGED defects
                \/ \E f \in WrongFragments(t) : SendNext(t, f) /\ Defect(TRUE)
    <2>1. /\ \A f \in {Fragment(t)} \cup WrongFragments(t) \cup MemberVariants(t) :
               f \in Fragments /\ f.result # "exist" /\ SoundDigest(f)
          /\ t.cmd = "SUB_FILE" =>
               \A f \in {Fragment(t)} \cup MemberVariants(t) : Blank(f) \/ Piece(f, t.sent)
      BY <1>5, <1>7, FragmentTypes
    <2>2. CASE \E f \in {Fragment(t)} \cup MemberVariants(t) : SendNext(t, f) /\ UNCHANGED defects
      <3>1. PICK f \in Fragments :
                /\ f.result # "exist" /\ SoundDigest(f) /\ SendNext(t, f) /\ UNCHANGED defects
                /\ t.cmd = "SUB_FILE" => Blank(f) \/ Piece(f, t.sent)
        BY <2>1, <2>2
      <3>2. TaskEffect  BY <1>1, <1>7, <3>1, TaskSends
      <3> QED BY <1>3, <3>1, <3>2, SameCount
    <2>3. CASE \E f \in WrongFragments(t) : SendNext(t, f) /\ Defect(TRUE)
      <3>1. PICK f \in Fragments :
                f.result # "exist" /\ SoundDigest(f) /\ SendNext(t, f) /\ Defect(TRUE)
        BY <2>1, <2>3
      <3>2. CountKept /\ defects' # 0
        <4>1. defects \in Nat /\ defects' = defects + 1  BY <3>1 DEF Typed, Defect
        <4>2. defects' # 0  BY <4>1
        <4> QED BY <3>1, <4>2, DefectType
      <3>3. TaskEffect  BY <1>1, <1>7, <3>1, <3>2, TaskSends
      <3> QED BY <1>3, <3>2, <3>3
    <2> QED BY <1>7, <2>2, <2>3
  <1>8. CASE /\ t.cmd \in Streams
             /\ SendNext(t, [result |-> "success", body |-> NoBody]) /\ UNCHANGED defects
    <2>1. PICK f : f = [result |-> "success", body |-> NoBody]  OBVIOUS
    <2>2. f \in Fragments /\ f.result # "exist" /\ SoundDigest(f) /\ Blank(f)
      BY <2>1, BodyTypes DEF Fragments, Results, SoundDigest, Blank
    <2>3. TaskEffect  BY <1>1, <1>8, <2>1, <2>2, TaskSends
    <2> QED BY <1>3, <1>8, <2>3, SameCount
  <1>9. CASE Send(<<Reply(t, "continue", NoBody)>>) /\ UNCHANGED <<tasks, defects>> /\ t.cmd \notin Streams
    <2>1. /\ t.id \in Nat /\ t.seq \in 0..SeqMax /\ t.cmd \in Commands \cup {"TASK_CANCEL"}
          /\ t.cmd # "SUB_FILE"
      BY <1>5, <1>9 DEF TaskType, Streams
    <2>2. "continue" \in Results /\ NoBody \in Bodies  BY BodyTypes DEF Results
    <2> DEFINE g == Reply(t, "continue", NoBody)
    <2>3. Answer(g, t) /\ g.result = "continue" /\ g.body = NoBody  BY <2>1, <2>2, ReplyType
    <2> HIDE DEF g
    <2>4. wire' = Append(wire, g)  BY <1>9, <2>3, SendAppends DEF Answer, g
    <2>5. TaskOf(t, t) /\ tasks' = (tasks \ {t}) \cup {t}
      BY <1>5, <1>9 DEF TaskOf, SameNumber
    <2>6. Blank(g) /\ SoundDigest(g)  BY <2>3, BodyTypes DEF Blank, SoundDigest
    <2>7. TaskEffect  BY <1>1, <2>1, <2>3, <2>4, <2>5, <2>6 DEF TaskEffect
    <2> QED BY <1>3, <1>9, <2>7, SameCount
  <1> QED BY <1>4, <1>6, <1>7, <1>8, <1>9

LEMMA PrinterInterjectsEffect ==
    ASSUME Typed, PrinterInterjects
    PROVE  PrinterEffect
  <1>1. UNCHANGED <<client, inbox, tasks, stored, torn, history>>  BY DEF PrinterInterjects
  <1>2. stored \in Seq(Blocks)  BY DEF Typed
  <1>3. PICK kind \in {"notify", "reject", "garbled"} :
             Send(<<[Notify EXCEPT !.kind = kind]>>) /\ (UNCHANGED defects \/ Defect(TRUE))
    <2>1. Notify = [Notify EXCEPT !.kind = "notify"]  BY DEF Notify
    <2> QED BY <2>1 DEF PrinterInterjects
  <1> DEFINE f == [Notify EXCEPT !.kind = kind]
  <1>4. f = [kind |-> kind, id |-> 0, seq |-> 0, cmd |-> "none", result |-> "none", body |-> NoBody]
    BY DEF Notify
  <1> HIDE DEF f
  <1>5. f \in FrameType /\ ~IsReply(f) /\ SoundDigest(f)
    <2>1. 0 \in 0..SeqMax /\ 0 \in Nat  BY FileTunnelConstants
    <2>2. NoBody \in Bodies /\ NoBody.md5 = <<>>  BY BodyTypes
    <2>3. SoundDigest(f)  BY <1>4, <2>2 DEF SoundDigest
    <2> QED BY <1>4, <2>1, <2>2, <2>3 DEF FrameType, Results, IsReply
  <1>6. wire' = Append(wire, f)  BY <1>3, <1>5, SendAppends DEF f
  <1>7. CountKept  BY <1>3, DefectType, SameCount
  <1> QED BY <1>1, <1>2, <1>5, <1>6, <1>7 DEF PrinterEffect, PrinterKeepsRest, NotifyEffect

LEMMA PrinterReceivesEffect ==
    ASSUME Typed, PrinterReceives
    PROVE  PrinterEffect
  <1>1. /\ inbox # <<>> /\ inbox' = Tail(inbox)
        /\ UNCHANGED <<client, torn, history>>
    BY DEF PrinterReceives
  <1>2. RequestEffect \/ ChunkEffect \/ StopTaskEffect
    BY <1>1, RequestHandled, ChunkHandled, CancelHandled DEF PrinterReceives
  <1>3. stored' \in Seq(Blocks) /\ CountKept
    BY <1>1, RequestHandled, ChunkHandled, CancelHandled DEF PrinterReceives
  <1> QED BY <1>1, <1>2, <1>3 DEF PrinterEffect, PrinterKeepsRest

----------------------------------------------------------------------------
(* The theorems                                                              *)

LEMMA ReadKeeps ==
    ASSUME SessionInv, ReadEffect
    PROVE  SessionInv' /\ (TunnelRoom /\ OwnInv => OwnInv')
  BY ReadKeepsTyped, ReadKeepsNext, ReadKeepsClean, ReadKeepsOwn DEF SessionInv

LEMMA SessionNext ==
    ASSUME SessionInv, [Next]_vars
    PROVE  SessionInv' /\ (TunnelRoom /\ OwnInv => OwnInv')
  <1>0. Typed  BY DEF SessionInv
  <1>1. CASE ensure_file_tunnel \/ Handshake \/ disconnect_file_tunnel
    BY <1>1, SlotKeeps
  <1>2. CASE Request
    BY <1>2, RequestKeeps
  <1>3. CASE FrameWritten
    BY <1>0, <1>3, FrameWrittenEffect, WriteKeeps
  <1>4. CASE WriteFailed \/ ReadFailed \/ Drop
    BY <1>4, BrokenKeeps, EndKeeps
  <1>5. CASE SourceFailed
    BY <1>5, SourceKeeps, BrokenKeeps, EndKeeps
  <1>6. CASE SkipFrame \/ ReadBroken
    BY <1>0, <1>6, SkipEffect, BrokenReadEffect, ReadKeeps
  <1>7. CASE SingleReply \/ receive_download \/ read_file_member
    BY <1>0, <1>7, SingleEffect, DownloadEffect, MemberEffect, ReadKeeps
  <1>8. CASE UploadInit \/ UploadFinal \/ CancelReply
    BY <1>0, <1>8, InitEffect, FinalEffect, CancelEffect, ReadKeeps
  <1>9. CASE PrinterStep
    BY <1>0, <1>9, PrinterReceivesEffect, PrinterSendsEffect, PrinterInterjectsEffect, PrinterKeeps
       DEF PrinterStep
  <1>10. CASE UNCHANGED vars
    <2>1. UNCHANGED <<tunnel, poisoned, next_sequence, op, got, last, inbox, tasks, stored, wire,
                      torn, asked, defects, dropped, unread, foreign>>
      BY <1>10 DEF vars, client, printer, history
    <2>2. Typed'  BY <1>0, <2>1 DEF Typed
    <2>3. NextInv' /\ CleanInv'
      BY <2>1 DEF SessionInv, NextInv, CleanInv, AfterSequence
    <2>4. OwnInv => OwnInv'  BY <2>1 DEF OwnInv, Numbered
    <2> QED BY <2>2, <2>3, <2>4 DEF SessionInv
  <1> QED BY <1>1, <1>2, <1>3, <1>4, <1>5, <1>6, <1>7, <1>8, <1>9, <1>10 DEF Next, ClientStep

LEMMA SessionInvSafe == SessionInv => SessionKept
  <1> SUFFICES ASSUME SessionInv PROVE SessionKept  OBVIOUS
  <1>1. TypeOK  BY TypedImpliesTypeOK DEF SessionInv
  <1>2. UsableIsClean
    <2> SUFFICES ASSUME op.at = "idle", ~poisoned, ~dropped, ~unread
                 PROVE  tasks = {} /\ \A i \in 1..Len(wire) : wire[i].kind # "reply"
      BY DEF UsableIsClean
    <2>1. CleanIdle(inbox, tasks, wire)  BY DEF SessionInv, CleanInv, CleanAt
    <2>2. DOMAIN wire = 1..Len(wire)  BY LenProperties DEF SessionInv, Typed
    <2> QED BY <2>1, <2>2 DEF CleanIdle, NoReplies, IsReply
  <1> QED BY <1>1, <1>2 DEF SessionKept

\* FileTunnelClient (client.rs) leaves a session usable only when nothing of an earlier
\* operation is left on it: whatever cut the operation short, a task it leaves open or a
\* reply it leaves unread has poisoned the session or been cancelled first.  The counter
\* stays a sequence the wire can carry.
THEOREM SessionTheorem == Spec => []SessionKept
  <1>1. Init => SessionInv  BY SessionInit
  <1>2. SessionInv /\ [Next]_vars => SessionInv'  BY SessionNext
  <1> QED BY <1>1, <1>2, SessionInvSafe, PTL DEF Spec

\* read_reply (client.rs) matches a frame by its sequence: until the counter comes round, a
\* frame it accepts answers the running request, also after operations that were dropped with
\* frames of theirs still to come.
THEOREM OwnFramesTheorem == TunnelRoom /\ Spec => []OwnFrames
  <1>1. Init => SessionInv /\ OwnInv  BY SessionInit
  <1>2. OwnInv => OwnFrames  BY DEF OwnInv, OwnFrames
  <1>3. CASE TunnelRoom
    <2>1. SessionInv /\ OwnInv /\ [Next]_vars => (SessionInv /\ OwnInv)'  BY <1>3, SessionNext
    <2> QED BY <1>1, <1>2, <2>1, PTL DEF Spec
  <1>4. CASE ~TunnelRoom
    BY <1>4
  <1> QED BY <1>3, <1>4

----------------------------------------------------------------------------
(* Whole transfers.  Whose work is at the printer: every request is taken up *)
(* once, and what is there of the running operation is what it asked for.    *)

\* Nothing of request n has reached the printer.
Untouched(n, q, ts, w) ==
    /\ \A i \in DOMAIN q : q[i].id # n
    /\ \A t \in ts : t.id # n
    /\ \A i \in DOMAIN w : IsReply(w[i]) => w[i].id # n

OneTaskEach(ts) == \A t, u \in ts : t.id = u.id => t = u

\* A request that is still on its way has no task and no answer.
OneEach(q, ts, w) ==
    /\ \A i \in DOMAIN q : q[i].cmd # "CHUNK" =>
         /\ \A j \in DOMAIN q : q[j].id = q[i].id => j = i
         /\ \A t \in ts : t.id # q[i].id
         /\ \A j \in DOMAIN w : IsReply(w[j]) => w[j].id # q[i].id
    /\ OneTaskEach(ts)

OwnWork(o, q, ts, w) ==
    /\ o.at \in {"send", "csend"} => Untouched(o.id, q, ts, w)
    /\ o.at = "reply" => \A i \in DOMAIN q : q[i].id = o.id => q[i].cmd = o.cmd
    /\ o.at \in {"chunk", "final"} =>
         o.cmd = "FILE_UPLOAD" /\ \A i \in DOMAIN q : q[i].id = o.id => q[i].cmd = "CHUNK"
    /\ o.at \in {"reply", "chunk", "final"} =>
         /\ \A t \in ts : t.id = o.id => t.cmd = o.cmd
         /\ \A i \in DOMAIN w : IsReply(w[i]) /\ w[i].id = o.id =>
              w[i].cmd \in {cmdtype(o.cmd), "none"}

WorkInv == OneEach(inbox, tasks, wire) /\ OwnWork(op, inbox, tasks, wire)

\* What a step of the printer leaves: the inbox without its first d messages, tasks and answers
\* of earlier tasks and of the request that was taken up.
TaskFrom(u, d, q, ts) ==
    \/ \E t \in ts : u.id = t.id /\ u.cmd = t.cmd
    \/ d = 1 /\ q[1].cmd # "CHUNK" /\ u.id = q[1].id /\ u.cmd = q[1].cmd
FrameFrom(f, d, q, ts) ==
    \/ \E t \in ts : f.id = t.id /\ f.cmd \in {cmdtype(t.cmd), "none"}
    \/ d = 1 /\ q[1].cmd # "CHUNK" /\ f.id = q[1].id /\ f.cmd \in {cmdtype(q[1].cmd), "none"}
Shifted(d, p, q) == \A i \in DOMAIN p : i \in Nat \ {0} /\ i + d \in DOMAIN q /\ p[i] = q[i + d]
Moves(d, p, us, v, q, ts, w) ==
    /\ d \in {0, 1} /\ Shifted(d, p, q) /\ (d = 1 => 1 \in DOMAIN q)
    /\ \A u \in us : TaskFrom(u, d, q, ts)
    /\ \A i \in DOMAIN v : IsReply(v[i]) =>
         (\E k \in DOMAIN w : v[i] = w[k]) \/ FrameFrom(v[i], d, q, ts)

LEMMA ShiftedTail ==
    ASSUME NEW S, NEW q \in Seq(S)
    PROVE  /\ Shifted(0, q, q)
           /\ q # <<>> => Shifted(1, Tail(q), q) /\ 1 \in DOMAIN q /\ Head(q) = q[1]
  <1>1. Shifted(0, q, q)
    <2>1. DOMAIN q = 1..Len(q) /\ Len(q) \in Nat  BY SeqEntries
    <2> QED BY <2>1 DEF Shifted
  <1>2. ASSUME q # <<>> PROVE Shifted(1, Tail(q), q) /\ 1 \in DOMAIN q /\ Head(q) = q[1]
    <2>1. /\ 1 \in DOMAIN q /\ Head(q) = q[1] /\ Tail(q) \in Seq(S)
          /\ \A i \in DOMAIN Tail(q) : i + 1 \in DOMAIN q /\ Tail(q)[i] = q[i + 1]
      BY <1>2, TailEntries
    <2>2. DOMAIN Tail(q) = 1..Len(Tail(q)) /\ Len(Tail(q)) \in Nat  BY <2>1, SeqEntries
    <2>3. \A i \in DOMAIN Tail(q) : i \in Nat \ {0}  BY <2>2
    <2> QED BY <2>1, <2>3 DEF Shifted
  <1> QED BY <1>1, <1>2

LEMMA MovesKeepWork ==
    ASSUME NEW o, NEW d, NEW p, NEW us, NEW v, NEW q, NEW ts, NEW w,
           Moves(d, p, us, v, q, ts, w), OneTaskEach(us),
           OneEach(q, ts, w), OwnWork(o, q, ts, w)
    PROVE  OneEach(p, us, v) /\ OwnWork(o, p, us, v)
  <1>0. /\ d \in {0, 1} /\ (d = 1 => 1 \in DOMAIN q)
        /\ \A i \in DOMAIN p : i \in Nat \ {0} /\ i + d \in DOMAIN q /\ p[i] = q[i + d]
    BY DEF Moves, Shifted
  <1>1. \A i, j \in DOMAIN p : (i + d = j + d => i = j) /\ (d = 1 => 1 # i + d)
    BY <1>0
  <1>2. \A u \in us : (\E t \in ts : u.id = t.id) \/ (d = 1 /\ u.id = q[1].id)
    BY DEF Moves, TaskFrom
  <1>3. \A i \in DOMAIN v : IsReply(v[i]) =>
          \/ \E k \in DOMAIN w : IsReply(w[k]) /\ v[i].id = w[k].id
          \/ \E t \in ts : v[i].id = t.id
          \/ d = 1 /\ v[i].id = q[1].id
    BY DEF Moves, FrameFrom, IsReply
  <1>4. ASSUME NEW i \in DOMAIN p, p[i].cmd # "CHUNK"
        PROVE  /\ \A j \in DOMAIN p : p[j].id = p[i].id => j = i
               /\ \A u \in us : u.id # p[i].id
               /\ \A j \in DOMAIN v : IsReply(v[j]) => v[j].id # p[i].id
    <2>1. PICK k \in DOMAIN q : k = i + d /\ p[i] = q[k]  BY <1>0
    <2>2. /\ \A j \in DOMAIN q : q[j].id = q[k].id => j = k
          /\ \A t \in ts : t.id # q[k].id
          /\ \A j \in DOMAIN w : IsReply(w[j]) => w[j].id # q[k].id
      BY <1>4, <2>1 DEF OneEach
    <2>3. d = 1 => q[1].id # q[k].id
      <3>1. d = 1 => 1 # k  BY <1>1, <2>1
      <3> QED BY <1>0, <2>2, <3>1
    <2>4. \A j \in DOMAIN p : p[j].id = p[i].id => j = i
      BY <1>0, <1>1, <2>1, <2>2
    <2> QED BY <1>2, <1>3, <2>1, <2>2, <2>3, <2>4
  <1>5. OneEach(p, us, v)  BY <1>4 DEF OneEach
  <1>6. \A n : Untouched(n, q, ts, w) => Untouched(n, p, us, v)
    BY <1>0, <1>2, <1>3 DEF Untouched
  <1>7. /\ o.at = "reply" => \A i \in DOMAIN p : p[i].id = o.id => p[i].cmd = o.cmd
        /\ o.at \in {"chunk", "final"} =>
             o.cmd = "FILE_UPLOAD" /\ \A i \in DOMAIN p : p[i].id = o.id => p[i].cmd = "CHUNK"
    BY <1>0 DEF OwnWork
  <1>8. ASSUME o.at \in {"reply", "chunk", "final"}
        PROVE  /\ \A u \in us : u.id = o.id => u.cmd = o.cmd
               /\ \A i \in DOMAIN v : IsReply(v[i]) /\ v[i].id = o.id =>
                    v[i].cmd \in {cmdtype(o.cmd), "none"}
    <2>1. /\ \A t \in ts : t.id = o.id => t.cmd = o.cmd
          /\ \A i \in DOMAIN w : IsReply(w[i]) /\ w[i].id = o.id =>
               w[i].cmd \in {cmdtype(o.cmd), "none"}
      BY <1>8 DEF OwnWork
    <2>2. d = 1 /\ q[1].cmd # "CHUNK" /\ q[1].id = o.id => q[1].cmd = o.cmd
      BY <1>0, <1>8 DEF OwnWork
    <2>3. \A u \in us : u.id = o.id => u.cmd = o.cmd
      BY <2>1, <2>2 DEF Moves, TaskFrom
    <2>4. ASSUME NEW i \in DOMAIN v, IsReply(v[i]), v[i].id = o.id
          PROVE  v[i].cmd \in {cmdtype(o.cmd), "none"}
      <3>1. CASE \E k \in DOMAIN w : v[i] = w[k]  BY <2>1, <2>4, <3>1
      <3>2. CASE \E t \in ts : v[i].id = t.id /\ v[i].cmd \in {cmdtype(t.cmd), "none"}
        BY <2>1, <2>4, <3>2
      <3>3. CASE d = 1 /\ q[1].cmd # "CHUNK" /\ v[i].id = q[1].id
                 /\ v[i].cmd \in {cmdtype(q[1].cmd), "none"}
        BY <2>2, <2>4, <3>3
      <3> QED BY <2>4, <3>1, <3>2, <3>3 DEF Moves, FrameFrom
    <2> QED BY <2>3, <2>4
  <1> QED BY <1>5, <1>6, <1>7, <1>8 DEF OwnWork

\* Every step of the printer moves work on in this way.
LEMMA PrinterMoves ==
    ASSUME Typed, PrinterEffect, OneEach(inbox, tasks, wire)
    PROVE  /\ \E d \in {0, 1} : Moves(d, inbox', tasks', wire', inbox, tasks, wire)
           /\ OneTaskEach(tasks')
  <1>1. inbox \in Seq(MsgType) /\ wire \in Seq(FrameType)  BY DEF Typed
  <1>2. /\ Shifted(0, inbox, inbox)
        /\ inbox # <<>> => Shifted(1, Tail(inbox), inbox) /\ 1 \in DOMAIN inbox /\ Head(inbox) = inbox[1]
    BY <1>1, ShiftedTail
  <1>3. \A f \in FrameType : \A i \in DOMAIN Append(wire, f) :
          (\E k \in DOMAIN wire : Append(wire, f)[i] = wire[k]) \/ Append(wire, f)[i] = f
    BY <1>1, AppendEntries
  <1>4. OneTaskEach(tasks)  BY DEF OneEach
  <1>5. \A d : \A t \in tasks : TaskFrom(t, d, inbox, tasks)  BY DEF TaskFrom
  <1>6. \A d, f, t : t \in tasks /\ Answer(f, t) => f \in FrameType /\ FrameFrom(f, d, inbox, tasks)
    BY DEF Answer, SameNumber, FrameFrom
  <1>7. \A d, u, t : t \in tasks /\ TaskOf(u, t) => TaskFrom(u, d, inbox, tasks) /\ u.id = t.id
    BY DEF TaskOf, SameNumber, TaskFrom
  <1>8. "CHUNK" \notin Commands  BY DEF Commands, Singles, Streams
  <1>9. \A t \in tasks : \A u : u.id = t.id => OneTaskEach((tasks \ {t}) \cup {u})
    BY <1>4 DEF OneTaskEach
  <1>10. \A us : us \subseteq tasks => OneTaskEach(us)  BY <1>4 DEF OneTaskEach
  <1>11. ASSUME NEW d \in {0, 1}, Shifted(d, inbox', inbox), d = 1 => 1 \in DOMAIN inbox,
                \A u \in tasks' : TaskFrom(u, d, inbox, tasks),
                \/ wire' = wire
                \/ \E f \in FrameType : /\ wire' = Append(wire, f)
                                        /\ IsReply(f) => FrameFrom(f, d, inbox, tasks)
         PROVE  Moves(d, inbox', tasks', wire', inbox, tasks, wire)
    <2>1. CASE wire' = wire  BY <1>11, <2>1 DEF Moves
    <2>2. CASE \E f \in FrameType : /\ wire' = Append(wire, f)
                                    /\ IsReply(f) => FrameFrom(f, d, inbox, tasks)
      <3>1. PICK f \in FrameType : /\ wire' = Append(wire, f)
                                   /\ IsReply(f) => FrameFrom(f, d, inbox, tasks)
        BY <2>2
      <3>2. \A i \in DOMAIN wire' : IsReply(wire'[i]) =>
              (\E k \in DOMAIN wire : wire'[i] = wire[k]) \/ FrameFrom(wire'[i], d, inbox, tasks)
        BY <1>3, <3>1
      <3> QED BY <1>11, <3>2 DEF Moves
    <2> QED BY <1>11, <2>1, <2>2
  <1>12. CASE RequestEffect \/ StopTaskEffect
    <2>1. /\ inbox # <<>> /\ inbox' = Tail(inbox) /\ Head(inbox).cmd # "CHUNK"
      BY <1>8, <1>12 DEF RequestEffect, StopTaskEffect
    <2>2. \A f : Answer(f, Head(inbox)) => f \in FrameType /\ FrameFrom(f, 1, inbox, tasks)
      BY <1>2, <2>1 DEF Answer, SameNumber, FrameFrom
    <2>3. \A u : TaskOf(u, Head(inbox)) => TaskFrom(u, 1, inbox, tasks) /\ u.id = Head(inbox).id
      BY <1>2, <2>1 DEF TaskOf, SameNumber, TaskFrom
    <2>4. \/ tasks' \subseteq tasks
          \/ \E u : TaskOf(u, Head(inbox)) /\ tasks' = tasks \cup {u}
      BY <1>12 DEF RequestEffect, StopTaskEffect
    <2>5. \A u \in tasks' : TaskFrom(u, 1, inbox, tasks)
      BY <1>5, <2>3, <2>4
    <2>6. \A t \in tasks : t.id # Head(inbox).id
      BY <1>2, <2>1 DEF OneEach
    <2>7. OneTaskEach(tasks')
      <3>1. CASE tasks' \subseteq tasks  BY <1>10, <3>1
      <3>2. CASE \E u : TaskOf(u, Head(inbox)) /\ tasks' = tasks \cup {u}
        BY <1>4, <2>3, <2>6, <3>2 DEF OneTaskEach
      <3> QED BY <2>4, <3>1, <3>2
    <2>8. \/ wire' = wire
          \/ \E f \in FrameType : /\ wire' = Append(wire, f)
                                  /\ IsReply(f) => FrameFrom(f, 1, inbox, tasks)
      BY <1>12, <2>2 DEF RequestEffect, StopTaskEffect
    <2>9. Shifted(1, inbox', inbox) /\ 1 \in DOMAIN inbox  BY <1>2, <2>1
    <2> QED BY <1>11, <2>5, <2>7, <2>8, <2>9
  <1>13. CASE ChunkEffect
    <2>1. Shifted(1, inbox', inbox) /\ 1 \in DOMAIN inbox  BY <1>2, <1>13 DEF ChunkEffect
    <2>2. \/ tasks' \subseteq tasks
          \/ \E t \in tasks : \E u : TaskOf(u, t) /\ tasks' = (tasks \ {t}) \cup {u}
      BY <1>13 DEF ChunkEffect
    <2>3. (\A u \in tasks' : TaskFrom(u, 1, inbox, tasks)) /\ OneTaskEach(tasks')
      BY <1>5, <1>7, <1>9, <1>10, <2>2
    <2>4. \/ wire' = wire
          \/ \E f \in FrameType : /\ wire' = Append(wire, f)
                                  /\ IsReply(f) => FrameFrom(f, 1, inbox, tasks)
      BY <1>6, <1>13 DEF ChunkEffect
    <2> QED BY <1>11, <2>1, <2>3, <2>4
  <1>14. CASE TaskEffect \/ NotifyEffect
    <2>1. Shifted(0, inbox', inbox)  BY <1>2, <1>14 DEF TaskEffect, NotifyEffect
    <2>2. \/ tasks' \subseteq tasks
          \/ \E t \in tasks : \E u : TaskOf(u, t) /\ tasks' = (tasks \ {t}) \cup {u}
      <3>1. CASE TaskEffect  BY <3>1 DEF TaskEffect
      <3>2. CASE NotifyEffect  BY <3>2 DEF NotifyEffect
      <3> QED BY <1>14, <3>1, <3>2
    <2>3. (\A u \in tasks' : TaskFrom(u, 0, inbox, tasks)) /\ OneTaskEach(tasks')
      BY <1>5, <1>7, <1>9, <1>10, <2>2
    <2>4. \E f \in FrameType : /\ wire' = Append(wire, f)
                               /\ IsReply(f) => FrameFrom(f, 0, inbox, tasks)
      BY <1>6, <1>14 DEF TaskEffect, NotifyEffect
    <2> QED BY <1>11, <2>1, <2>3, <2>4
  <1> QED BY <1>12, <1>13, <1>14 DEF PrinterEffect

\* Requests are told apart by their number: equal sequences are one request, and a new one is
\* like none before.
LEMMA IdFacts ==
    ASSUME Typed, OwnInv
    PROVE  /\ op.at # "idle" => op.id <= asked
           /\ \A i \in DOMAIN inbox : inbox[i].id <= asked
           /\ \A t \in tasks : t.id <= asked
           /\ \A i \in DOMAIN wire : IsReply(wire[i]) => wire[i].id <= asked
           /\ op.at # "idle" => \A i \in DOMAIN wire : IsReply(wire[i]) =>
                (wire[i].seq = op.seq <=> wire[i].id = op.id)
           /\ inbox # <<>> => \A t \in tasks : t.seq = Head(inbox).seq <=> t.id = Head(inbox).id
  <1>1. PICK base \in 0..asked : Owned(base, asked - base, op, inbox, tasks, wire)
    BY DEF OwnInv
  <1>2. asked \in Nat /\ base \in Nat  BY DEF Typed
  <1>3. \A x : OwnNumber(base, asked - base, x) => x.id <= asked
    BY <1>1, <1>2 DEF OwnNumber
  <1>4. \A x, y : OwnNumber(base, asked - base, x) /\ OwnNumber(base, asked - base, y) =>
          (x.seq = y.seq <=> x.id = y.id)
    BY <1>2 DEF OwnNumber
  <1>5. inbox # <<>> => Head(inbox) = inbox[1] /\ 1 \in DOMAIN inbox
    BY TailEntries DEF Typed
  <1> QED BY <1>1, <1>3, <1>4, <1>5 DEF Owned

LEMMA NewIsUntouched ==
    ASSUME Typed, OwnInv
    PROVE  Untouched(asked + 1, inbox, tasks, wire)
  <1>1. asked \in Nat /\ \A n : n <= asked => n # asked + 1
    BY DEF Typed
  <1> QED BY <1>1, IdFacts DEF Untouched

\* The work of an operation with the same number, command and step is the same.
LEMMA SameWork ==
    ASSUME NEW o, NEW o2, NEW q, NEW ts, NEW w, OwnWork(o, q, ts, w),
           o2.at = o.at, o2.id = o.id, o2.cmd = o.cmd
    PROVE  OwnWork(o2, q, ts, w)
  BY DEF OwnWork

LEMMA TailKeepsWork ==
    ASSUME NEW o, NEW q \in Seq(MsgType), NEW ts, NEW w \in Seq(FrameType), w # <<>>,
           OneEach(q, ts, w), OwnWork(o, q, ts, w)
    PROVE  OneEach(q, ts, Tail(w)) /\ OwnWork(o, q, ts, Tail(w))
  <1>1. Shifted(0, q, q)  BY ShiftedTail
  <1>2. \A i \in DOMAIN Tail(w) : \E k \in DOMAIN w : Tail(w)[i] = w[k]  BY TailEntries
  <1>3. Moves(0, q, ts, Tail(w), q, ts, w)
    BY <1>1, <1>2 DEF Moves, TaskFrom
  <1>4. OneTaskEach(ts)  BY DEF OneEach
  <1> QED BY <1>3, <1>4, MovesKeepWork

\* The answer to an upload's request: no message of it is on its way any more.
LEMMA StartKeepsWork ==
    ASSUME NEW o, NEW o2, NEW q, NEW ts, NEW w, 1 \in DOMAIN w, IsReply(w[1]), w[1].id = o.id,
           OneEach(q, ts, w), OwnWork(o, q, ts, w), o.at = "reply", o.cmd = "FILE_UPLOAD",
           o2.at = "chunk", o2.id = o.id, o2.cmd = o.cmd
    PROVE  OwnWork(o2, q, ts, w) /\ \A i \in DOMAIN q : q[i].id # o.id
  <1>1. \A i \in DOMAIN q : q[i].id # o.id
    BY DEF OneEach, OwnWork
  <1> QED BY <1>1 DEF OwnWork

LEMMA WrittenKeepsWork ==
    ASSUME NEW o, NEW o2, NEW q \in Seq(MsgType), NEW m \in MsgType, NEW ts, NEW w,
           OneEach(q, ts, w), OwnWork(o, q, ts, w), m.id = o.id,
           \/ o.at = "send" /\ m.cmd = o.cmd
           \/ o.at = "csend" /\ m.cmd = "TASK_CANCEL"
           \/ o.at = "chunk" /\ m.cmd = "CHUNK",
           \/ o.at = "send" /\ o2.at = "reply" /\ o2.id = o.id /\ o2.cmd = o.cmd
           \/ o.at = "chunk" /\ o2.at \in {"chunk", "final"} /\ o2.id = o.id /\ o2.cmd = o.cmd
           \/ o2.at \in {"idle", "creply"}
    PROVE  /\ OneEach(Append(q, m), ts, w) /\ OwnWork(o2, Append(q, m), ts, w)
           /\ OwnWork(o2, q, ts, w)
  <1> DEFINE p == Append(q, m)
  <1>1. /\ DOMAIN q = 1..Len(q) /\ DOMAIN p = 1..(Len(q) + 1) /\ Len(q) \in Nat
        /\ \A i \in DOMAIN p : (i \in DOMAIN q /\ p[i] = q[i]) \/ (i = Len(q) + 1 /\ p[i] = m)
    BY AppendEntries
  <1>2. \A i \in DOMAIN q : i # Len(q) + 1  BY <1>1
  <1> HIDE DEF p
  <1>3. OneEach(p, ts, w)
    <2>1. CASE Untouched(o.id, q, ts, w)
      <3>1. ASSUME NEW i \in DOMAIN p, p[i].cmd # "CHUNK"
            PROVE  /\ \A j \in DOMAIN p : p[j].id = p[i].id => j = i
                   /\ \A t \in ts : t.id # p[i].id
                   /\ \A j \in DOMAIN w : IsReply(w[j]) => w[j].id # p[i].id
        <4>1. CASE i \in DOMAIN q /\ p[i] = q[i]
          BY <1>1, <2>1, <3>1, <4>1 DEF OneEach, Untouched
        <4>2. CASE i = Len(q) + 1 /\ p[i] = m
          BY <1>1, <2>1, <4>2 DEF Untouched
        <4> QED BY <1>1, <4>1, <4>2
      <3> QED BY <3>1 DEF OneEach
    <2>2. CASE o.at = "chunk" /\ m.cmd = "CHUNK"
      <3>1. \A i \in DOMAIN q : q[i].cmd # "CHUNK" => q[i].id # m.id  BY <2>2 DEF OwnWork
      <3> QED BY <1>1, <2>2, <3>1 DEF OneEach
    <2> QED BY <2>1, <2>2 DEF OwnWork
  <1>4. OwnWork(o2, q, ts, w)
    BY DEF OwnWork, Untouched
  <1>5. OwnWork(o2, p, ts, w)
    BY <1>1, <1>4 DEF OwnWork
  <1> QED BY <1>3, <1>4, <1>5 DEF p

----------------------------------------------------------------------------
(* A member's pieces arrive in order: each follows what was read, or a       *)
(* frame before it, whatever other frames lie between them.                  *)

Mine(w, n, i) == i \in DOMAIN w /\ IsReply(w[i]) /\ w[i].id = n

\* Block a is the one to come after the first k blocks and the frames of request n before the i-th.
Follows(w, n, i, k, a) ==
    /\ a \in Nat /\ a >= k
    /\ a = k \/ \E j \in DOMAIN w : j < i /\ Mine(w, n, j) /\ (Blank(w[j]) \/ w[j].body.off + 1 = a)
    /\ \A j \in DOMAIN w : j < i /\ Mine(w, n, j) /\ ~Blank(w[j]) => w[j].body.off < a

Prefix(s) == Len(s) <= FileLen /\ \A k \in 1..Len(s) : s[k] = File[k]

PieceAt(w, n, i, k) == Piece(w[i], w[i].body.off) /\ Follows(w, n, i, k, w[i].body.off)

MemberAt(n, g, q, ts, w) ==
    /\ Prefix(g)
    /\ (\E i \in DOMAIN q : q[i].id = n) => g = <<>>
    /\ \A i \in DOMAIN w : Mine(w, n, i) => Blank(w[i]) \/ PieceAt(w, n, i, Len(g))
    /\ \A t \in ts : t.id = n => Follows(w, n, Len(w) + 1, Len(g), t.sent)

\* A member read whose frames were sound has a prefix of the file, and all of it when the read is over.
MemberInv ==
    defects = 0 /\ op.cmd = "SUB_FILE" =>
       /\ op.at = "send" => got = <<>>
       /\ op.at = "reply" => MemberAt(op.id, got, inbox, tasks, wire)
       /\ op.at \in {"csend", "creply"} /\ op.ret = "ok" => got = File

LEMMA FrameNumbers ==
    ASSUME NEW w \in Seq(FrameType)
    PROVE  \A i \in DOMAIN w : w[i].body.off \in Nat /\ w[i].body.size \in Nat /\ i \in Nat
  <1>1. \A i \in DOMAIN w : w[i] \in FrameType /\ i \in Nat
    BY SeqEntries
  <1>2. \A f \in FrameType : f.body \in Bodies  BY DEF FrameType
  <1>3. \A b \in Bodies : b.off \in Nat /\ b.size \in Nat  BY DEF Bodies
  <1> QED BY <1>1, <1>2, <1>3

LEMMA FollowsAppend ==
    ASSUME NEW w \in Seq(FrameType), NEW f \in FrameType, NEW n, NEW i \in Nat, i <= Len(w) + 1,
           NEW k \in Nat, NEW a, Follows(w, n, i, k, a)
    PROVE  Follows(Append(w, f), n, i, k, a)
  <1> DEFINE v == Append(w, f)
  <1>1. /\ DOMAIN w = 1..Len(w) /\ DOMAIN v = 1..(Len(w) + 1) /\ Len(w) \in Nat
        /\ \A j \in DOMAIN w : v[j] = w[j]
    BY AppendEntries
  <1>2. \A j \in DOMAIN v : j < i => j \in DOMAIN w  BY <1>1
  <1>3. \A j \in DOMAIN w : j \in DOMAIN v  BY <1>1
  <1> HIDE DEF v
  <1> QED BY <1>1, <1>2, <1>3 DEF Follows, Mine, v

\* A frame of another request is read.
LEMMA FollowsTailOther ==
    ASSUME NEW w \in Seq(FrameType), w # <<>>, NEW n, ~Mine(w, n, 1), NEW i \in Nat, NEW k \in Nat, NEW a,
           Follows(w, n, i + 1, k, a)
    PROVE  Follows(Tail(w), n, i, k, a)
  <1>1. \A j \in DOMAIN Tail(w) : j + 1 \in DOMAIN w /\ Tail(w)[j] = w[j + 1] /\ j \in Nat \ {0}
    BY ShiftedTail DEF Shifted
  <1>2. \A j \in DOMAIN w : j \in Nat /\ (j # 1 => j - 1 \in DOMAIN Tail(w) /\ Tail(w)[j - 1] = w[j])
    <2>1. DOMAIN w = 1..Len(w) /\ Len(w) \in Nat \ {0} /\ DOMAIN Tail(w) = 1..(Len(w) - 1)
      BY LenProperties, EmptySeq, HeadTailProperties
    <2>2. \A j \in DOMAIN w : j # 1 => j - 1 \in DOMAIN Tail(w) /\ j - 1 + 1 = j  BY <2>1
    <2> QED BY <1>1, <2>1, <2>2
  <1> DEFINE v == Tail(w)
  <1>3. a = k \/ \E j \in DOMAIN v : j < i /\ Mine(v, n, j) /\ (Blank(v[j]) \/ v[j].body.off + 1 = a)
    <2>1. CASE a = k  BY <2>1
    <2>2. CASE a # k
      <3>1. PICK j \in DOMAIN w : j < i + 1 /\ Mine(w, n, j) /\ (Blank(w[j]) \/ w[j].body.off + 1 = a)
        BY <2>2 DEF Follows
      <3>2. j # 1 /\ j - 1 < i  BY <1>2, <3>1
      <3>3. j - 1 \in DOMAIN v /\ v[j - 1] = w[j]  BY <1>2, <3>2
      <3>4. Mine(v, n, j - 1)  BY <3>1, <3>3 DEF Mine
      <3> QED BY <3>1, <3>2, <3>3, <3>4
    <2> QED BY <2>1, <2>2
  <1>4. ASSUME NEW j \in DOMAIN v, j < i, Mine(v, n, j), ~Blank(v[j]) PROVE v[j].body.off < a
    <2>1. j + 1 \in DOMAIN w /\ v[j] = w[j + 1] /\ j + 1 < i + 1  BY <1>1, <1>4
    <2>2. Mine(w, n, j + 1)  BY <1>4, <2>1 DEF Mine
    <2> QED BY <1>4, <2>1, <2>2 DEF Follows
  <1> HIDE DEF v
  <1>5. a \in Nat /\ a >= k  BY DEF Follows
  <1> QED BY <1>3, <1>4, <1>5 DEF Follows, v

\* The piece that comes next is read.
LEMMA FollowsTailOwn ==
    ASSUME NEW w \in Seq(FrameType), w # <<>>, NEW n, Mine(w, n, 1), NEW i \in Nat \ {0}, NEW k \in Nat,
           ~Blank(w[1]), w[1].body.off = k, NEW a, Follows(w, n, i + 1, k, a)
    PROVE  Follows(Tail(w), n, i, k + 1, a)
  <1>1. \A j \in DOMAIN Tail(w) : j + 1 \in DOMAIN w /\ Tail(w)[j] = w[j + 1] /\ j \in Nat \ {0}
    BY ShiftedTail DEF Shifted
  <1>2. \A j \in DOMAIN w : j \in Nat /\ (j # 1 => j - 1 \in DOMAIN Tail(w) /\ Tail(w)[j - 1] = w[j])
    <2>1. DOMAIN w = 1..Len(w) /\ Len(w) \in Nat \ {0} /\ DOMAIN Tail(w) = 1..(Len(w) - 1)
      BY LenProperties, EmptySeq, HeadTailProperties
    <2>2. \A j \in DOMAIN w : j # 1 => j - 1 \in DOMAIN Tail(w) /\ j - 1 + 1 = j  BY <2>1
    <2> QED BY <1>1, <2>1, <2>2
  <1> DEFINE v == Tail(w)
  <1>3. a \in Nat /\ a >= k + 1
    <2>1. 1 \in DOMAIN w /\ 1 < i + 1  BY DEF Mine
    <2>2. w[1].body.off < a /\ a \in Nat  BY <2>1 DEF Follows
    <2> QED BY <2>2
  <1>4. a = k + 1 \/ \E j \in DOMAIN v : j < i /\ Mine(v, n, j) /\ (Blank(v[j]) \/ v[j].body.off + 1 = a)
    <2>1. a # k  BY <1>3
    <2>2. PICK j \in DOMAIN w : j < i + 1 /\ Mine(w, n, j) /\ (Blank(w[j]) \/ w[j].body.off + 1 = a)
      BY <2>1 DEF Follows
    <2>3. CASE j = 1  BY <2>2, <2>3
    <2>4. CASE j # 1
      <3>1. j - 1 < i  BY <1>2, <2>2
      <3>2. j - 1 \in DOMAIN v /\ v[j - 1] = w[j]  BY <1>2, <2>4
      <3>3. Mine(v, n, j - 1)  BY <2>2, <3>2 DEF Mine
      <3> QED BY <2>2, <3>1, <3>2, <3>3
    <2> QED BY <2>3, <2>4
  <1>5. ASSUME NEW j \in DOMAIN v, j < i, Mine(v, n, j), ~Blank(v[j]) PROVE v[j].body.off < a
    <2>1. j + 1 \in DOMAIN w /\ v[j] = w[j + 1] /\ j + 1 < i + 1  BY <1>1, <1>5
    <2>2. Mine(w, n, j + 1)  BY <1>5, <2>1 DEF Mine
    <2> QED BY <1>5, <2>1, <2>2 DEF Follows
  <1> HIDE DEF v
  <1> QED BY <1>3, <1>4, <1>5 DEF Follows, v

LEMMA MemberUntouched ==
    ASSUME NEW n, NEW p, NEW ts, NEW w, Untouched(n, p, ts, w)
    PROVE  \A q : MemberAt(n, <<>>, q, ts, w)
  <1>1. Prefix(<<>>)
    <2>1. Len(<<>>) = 0  OBVIOUS
    <2> QED BY <2>1, FileTunnelConstants DEF Prefix
  <1> QED BY <1>1 DEF Untouched, MemberAt, Mine

LEMMA MemberTailOther ==
    ASSUME NEW n, NEW g \in Seq(Blocks), NEW q, NEW ts, NEW w \in Seq(FrameType), w # <<>>,
           ~Mine(w, n, 1), MemberAt(n, g, q, ts, w)
    PROVE  MemberAt(n, g, q, ts, Tail(w))
  <1> DEFINE v == Tail(w)
  <1>0. Len(g) \in Nat  BY LenProperties
  <1>1. \A i \in DOMAIN v : i + 1 \in DOMAIN w /\ v[i] = w[i + 1] /\ i \in Nat
    BY TailEntries
  <1>2. Len(v) + 1 = Len(w) /\ Len(w) \in Nat  BY LenProperties, EmptySeq, HeadTailProperties
  <1>3. ASSUME NEW i \in DOMAIN v, Mine(v, n, i) PROVE Blank(v[i]) \/ PieceAt(v, n, i, Len(g))
    <2>1. Mine(w, n, i + 1)  BY <1>1, <1>3 DEF Mine
    <2>2. Blank(w[i + 1]) \/ PieceAt(w, n, i + 1, Len(g))  BY <1>1, <2>1 DEF MemberAt
    <2>3. Follows(w, n, i + 1, Len(g), w[i + 1].body.off) => Follows(v, n, i, Len(g), w[i + 1].body.off)
      BY <1>0, <1>1, FollowsTailOther
    <2> QED BY <1>1, <2>2, <2>3 DEF PieceAt
  <1>4. ASSUME NEW t \in ts, t.id = n PROVE Follows(v, n, Len(v) + 1, Len(g), t.sent)
    <2>1. Follows(w, n, Len(w) + 1, Len(g), t.sent)  BY <1>4 DEF MemberAt
    <2>2. Follows(v, n, Len(w), Len(g), t.sent)  BY <1>0, <1>2, <2>1, FollowsTailOther
    <2> QED BY <1>2, <2>2
  <1> HIDE DEF v
  <1> QED BY <1>3, <1>4 DEF MemberAt, v

LEMMA ReadsPiece ==
    ASSUME NEW g \in Seq(Blocks), Prefix(g), NEW f, Piece(f, Len(g)), NEW h,
           h = g \o SubSeq(f.body.data, 1, f.body.size)
    PROVE  /\ h \in Seq(Blocks) /\ Len(h) = Len(g) + 1 /\ Prefix(h) /\ f.body.size <= Len(f.body.data)
           /\ Len(h) = FileLen => h = File
  <1>1. Len(g) \in 0..(FileLen - 1) /\ f.body.size = 1 /\ f.body.data = <<File[Len(g) + 1]>>
    BY DEF Piece
  <1>2. FileLen \in Nat /\ Len(g) \in Nat /\ Len(g) + 1 \in 1..FileLen
    BY <1>1, FileTunnelConstants
  <1>3. PICK x : x = File[Len(g) + 1]  OBVIOUS
  <1>4. x \in Blocks  BY <1>2, <1>3 DEF File, Blocks
  <1>5. SubSeq(<<x>>, 1, 1) = <<x>> /\ Len(<<x>>) = 1
    <2>1. <<x>> \in Seq(Blocks)  BY <1>4
    <2>2. Len(<<x>>) = 1 /\ <<x>>[1] = x  OBVIOUS
    <2>3. /\ SubSeq(<<x>>, 1, 1) \in Seq(Blocks) /\ Len(SubSeq(<<x>>, 1, 1)) = 1
          /\ SubSeq(<<x>>, 1, 1)[1] = x
      BY <2>1, <2>2, SubSeqProperties
    <2>4. \A k \in 1..1 : SubSeq(<<x>>, 1, 1)[k] = <<x>>[k]  BY <2>2, <2>3
    <2> QED BY <2>1, <2>2, <2>3, <2>4, SeqEqual
  <1>6. h = Append(g, x)
    BY <1>1, <1>3, <1>4, <1>5, AppendEntries
  <1>7. /\ h \in Seq(Blocks) /\ Len(h) = Len(g) + 1
        /\ \A k \in 1..Len(g) : h[k] = g[k]
        /\ h[Len(g) + 1] = x
    <2>1. /\ Append(g, x) \in Seq(Blocks) /\ Len(Append(g, x)) = Len(g) + 1
          /\ \A k \in 1..Len(g) : Append(g, x)[k] = g[k]
          /\ Append(g, x)[Len(g) + 1] = x
      BY <1>4, AppendProperties
    <2> QED BY <1>6, <2>1
  <1>8. \A k \in 1..(Len(g) + 1) : k \in 1..Len(g) \/ k = Len(g) + 1  BY <1>2
  <1>9. Prefix(h)
    <2>1. Len(h) <= FileLen  BY <1>2, <1>7
    <2>2. \A k \in 1..Len(g) : h[k] = File[k]  BY <1>7 DEF Prefix
    <2>3. h[Len(g) + 1] = File[Len(g) + 1]  BY <1>3, <1>7
    <2>4. \A k \in 1..Len(h) : h[k] = File[k]
      <3>1. \A k \in 1..Len(h) : k \in 1..Len(g) \/ k = Len(g) + 1  BY <1>7, <1>8
      <3> QED BY <2>2, <2>3, <3>1
    <2> QED BY <2>1, <2>4 DEF Prefix
  <1>10. ASSUME Len(h) = FileLen PROVE h = File
    <2>1. File \in Seq(Blocks) /\ Len(File) = FileLen  BY FileSeq
    <2>2. \A k \in 1..Len(h) : h[k] = File[k]  BY <1>9 DEF Prefix
    <2> QED BY <1>7, <1>10, <2>1, <2>2, SeqEqual
  <1> QED BY <1>1, <1>3, <1>5, <1>7, <1>9, <1>10

\* What was read, with what a frame brings.
Content(g, f) == g \o SubSeq(f.body.data, 1, f.body.size)

LEMMA MemberTakes ==
    ASSUME NEW n, NEW g \in Seq(Blocks), NEW q, NEW ts, NEW w \in Seq(FrameType), w # <<>>,
           Mine(w, n, 1), ~Blank(w[1]), \A i \in DOMAIN q : q[i].id # n,
           MemberAt(n, g, q, ts, w), NEW h, h = Content(g, w[1])
    PROVE  /\ MemberAt(n, h, q, ts, Tail(w)) /\ h \in Seq(Blocks)
           /\ (w[1].result = "continue" /\ w[1].body.more) \/ h = File
  <1> DEFINE v == Tail(w)
  <1>0. Len(g) \in Nat /\ 1 \in DOMAIN w  BY LenProperties DEF Mine
  <1>1. \A i \in DOMAIN v : i + 1 \in DOMAIN w /\ v[i] = w[i + 1] /\ i \in Nat \ {0}
    BY ShiftedTail DEF Shifted
  <1>2. Len(v) + 1 = Len(w) /\ Len(w) \in Nat \ {0}  BY LenProperties, EmptySeq, HeadTailProperties
  <1>3. PieceAt(w, n, 1, Len(g))  BY <1>0 DEF MemberAt
  <1>4. w[1].body.off = Len(g)
    <2>1. \A j \in DOMAIN w : ~(j < 1)
      <3>1. DOMAIN w = 1..Len(w)  BY LenProperties
      <3> QED BY <1>2, <3>1
    <2> QED BY <1>3, <2>1 DEF PieceAt, Follows
  <1>5. Piece(w[1], Len(g)) /\ Prefix(g)  BY <1>3, <1>4 DEF PieceAt, MemberAt
  <1>6. h \in Seq(Blocks) /\ Len(h) = Len(g) + 1 /\ Prefix(h) /\ (Len(h) = FileLen => h = File)
    <2>1. PICK f : f = w[1]  OBVIOUS
    <2>2. Piece(f, Len(g)) /\ h = g \o SubSeq(f.body.data, 1, f.body.size)  BY <1>5, <2>1 DEF Content
    <2>3. Prefix(g)  BY <1>5
    <2> QED BY <2>2, <2>3, ReadsPiece
  <1>7. (w[1].result = "continue" /\ w[1].body.more) \/ h = File
    BY <1>5, <1>6 DEF Piece
  <1>8. ASSUME NEW i \in DOMAIN v, Mine(v, n, i) PROVE Blank(v[i]) \/ PieceAt(v, n, i, Len(h))
    <2>1. Mine(w, n, i + 1)  BY <1>1, <1>8 DEF Mine
    <2>2. Blank(w[i + 1]) \/ PieceAt(w, n, i + 1, Len(g))  BY <1>1, <2>1 DEF MemberAt
    <2>3. Follows(w, n, i + 1, Len(g), w[i + 1].body.off) => Follows(v, n, i, Len(g) + 1, w[i + 1].body.off)
      BY <1>0, <1>1, <1>4, FollowsTailOwn
    <2> QED BY <1>1, <1>6, <2>2, <2>3 DEF PieceAt
  <1>9. ASSUME NEW t \in ts, t.id = n PROVE Follows(v, n, Len(v) + 1, Len(h), t.sent)
    <2>1. Follows(w, n, Len(w) + 1, Len(g), t.sent)  BY <1>9 DEF MemberAt
    <2>2. Follows(v, n, Len(w), Len(g) + 1, t.sent)  BY <1>0, <1>2, <1>4, <2>1, FollowsTailOwn
    <2> QED BY <1>2, <1>6, <2>2
  <1> HIDE DEF v
  <1> QED BY <1>6, <1>7, <1>8, <1>9 DEF MemberAt, v

\* A frame of another request, or one of this that brings nothing.
LEMMA MemberOther ==
    ASSUME NEW n, NEW g \in Seq(Blocks), NEW q, NEW ts, NEW w \in Seq(FrameType), NEW f \in FrameType,
           MemberAt(n, g, q, ts, w), IsReply(f) /\ f.id = n => Blank(f)
    PROVE  MemberAt(n, g, q, ts, Append(w, f))
  <1> DEFINE v == Append(w, f)
  <1>0. Len(g) \in Nat  BY LenProperties
  <1>1. /\ DOMAIN w = 1..Len(w) /\ DOMAIN v = 1..(Len(w) + 1) /\ Len(w) \in Nat
        /\ \A i \in DOMAIN v : (i \in DOMAIN w /\ v[i] = w[i]) \/ (i = Len(w) + 1 /\ v[i] = f)
        /\ v \in Seq(FrameType)
    BY AppendEntries
  <1>2. Len(v) = Len(w) + 1  BY AppendProperties
  <1>3. ASSUME NEW i \in DOMAIN v, Mine(v, n, i) PROVE Blank(v[i]) \/ PieceAt(v, n, i, Len(g))
    <2>1. CASE i = Len(w) + 1 /\ v[i] = f  BY <1>3, <2>1 DEF Mine
    <2>2. CASE i \in DOMAIN w /\ v[i] = w[i]
      <3>1. Blank(w[i]) \/ PieceAt(w, n, i, Len(g))  BY <1>3, <2>2 DEF MemberAt, Mine
      <3>2. Follows(w, n, i, Len(g), w[i].body.off) => Follows(v, n, i, Len(g), w[i].body.off)
        <4>1. i \in Nat /\ i <= Len(w) + 1  BY <1>1
        <4> QED BY <1>0, <4>1, FollowsAppend
      <3> QED BY <2>2, <3>1, <3>2 DEF PieceAt
    <2> QED BY <1>1, <2>1, <2>2
  <1>4. ASSUME NEW u \in ts, u.id = n PROVE Follows(v, n, Len(v) + 1, Len(g), u.sent)
    <2>1. Follows(w, n, Len(w) + 1, Len(g), u.sent)  BY <1>4 DEF MemberAt
    <2>2. Follows(v, n, Len(w) + 1, Len(g), u.sent)
      <3>1. Len(w) + 1 \in Nat /\ Len(w) + 1 <= Len(w) + 1  BY <1>1
      <3> QED BY <1>0, <2>1, <3>1, FollowsAppend
    <2>3. \A j \in DOMAIN v : (j < Len(w) + 1 => j < Len(v) + 1) /\ (j < Len(w) + 1 \/ v[j] = f)
      BY <1>1, <1>2
    <2>4. \A j \in DOMAIN v : j < Len(v) + 1 /\ Mine(v, n, j) /\ ~Blank(v[j]) => j < Len(w) + 1
      BY <2>3 DEF Mine
    <2> QED BY <2>2, <2>3, <2>4 DEF Follows
  <1> HIDE DEF v
  <1> QED BY <1>3, <1>4 DEF MemberAt, v

\* The member's task sends its next frame.
LEMMA MemberSends ==
    ASSUME NEW n, NEW g \in Seq(Blocks), NEW q, NEW ts, NEW t \in ts, NEW w \in Seq(FrameType), NEW us,
           NEW f \in FrameType, MemberAt(n, g, q, ts, w), OneTaskEach(ts), t.id = n, IsReply(f), f.id = n,
           Blank(f) \/ Piece(f, t.sent),
           \/ us = ts \ {t}
           \/ \E u : us = (ts \ {t}) \cup {u} /\ u.id = n /\ u.sent = t.sent + 1
    PROVE  MemberAt(n, g, q, us, Append(w, f))
  <1> DEFINE v == Append(w, f)
  <1>0. Len(g) \in Nat  BY LenProperties
  <1>1. /\ DOMAIN w = 1..Len(w) /\ DOMAIN v = 1..(Len(w) + 1) /\ Len(w) \in Nat
        /\ \A i \in DOMAIN v : (i \in DOMAIN w /\ v[i] = w[i]) \/ (i = Len(w) + 1 /\ v[i] = f)
        /\ v[Len(w) + 1] = f
    BY AppendEntries
  <1>2. Len(v) = Len(w) + 1  BY AppendProperties
  <1>3. Follows(w, n, Len(w) + 1, Len(g), t.sent)  BY DEF MemberAt
  <1>4. Follows(v, n, Len(w) + 1, Len(g), t.sent)
    <2>1. Len(w) + 1 \in Nat /\ Len(w) + 1 <= Len(w) + 1  BY <1>1
    <2> QED BY <1>0, <1>3, <2>1, FollowsAppend
  <1>5. ASSUME NEW i \in DOMAIN v, Mine(v, n, i) PROVE Blank(v[i]) \/ PieceAt(v, n, i, Len(g))
    <2>1. CASE i = Len(w) + 1 /\ v[i] = f  BY <1>4, <2>1 DEF PieceAt, Piece
    <2>2. CASE i \in DOMAIN w /\ v[i] = w[i]
      <3>1. Blank(w[i]) \/ PieceAt(w, n, i, Len(g))  BY <1>5, <2>2 DEF MemberAt, Mine
      <3>2. Follows(w, n, i, Len(g), w[i].body.off) => Follows(v, n, i, Len(g), w[i].body.off)
        <4>1. i \in Nat /\ i <= Len(w) + 1  BY <1>1
        <4> QED BY <1>0, <4>1, FollowsAppend
      <3> QED BY <2>2, <3>1, <3>2 DEF PieceAt
    <2> QED BY <1>1, <2>1, <2>2
  <1>6. ASSUME NEW u \in us, u.id = n PROVE Follows(v, n, Len(v) + 1, Len(g), u.sent)
    <2>1. u.sent = t.sent + 1
      BY <1>6 DEF OneTaskEach
    <2>2. t.sent \in Nat /\ t.sent >= Len(g)  BY <1>3 DEF Follows
    <2>3. u.sent \in Nat /\ u.sent >= Len(g)  BY <1>0, <2>1, <2>2
    <2>4. Len(w) + 1 \in DOMAIN v /\ Len(w) + 1 < Len(v) + 1 /\ Mine(v, n, Len(w) + 1)
      BY <1>1, <1>2 DEF Mine
    <2>5. Blank(v[Len(w) + 1]) \/ v[Len(w) + 1].body.off + 1 = u.sent
      BY <1>1, <2>1 DEF Piece
    <2>6. ASSUME NEW j \in DOMAIN v, Mine(v, n, j), ~Blank(v[j]) PROVE v[j].body.off < u.sent
      <3>1. CASE j = Len(w) + 1 /\ v[j] = f
        BY <2>1, <2>2, <2>6, <3>1 DEF Piece
      <3>2. CASE j \in DOMAIN w /\ v[j] = w[j]
        <4>1. Mine(w, n, j) /\ ~Blank(w[j]) /\ j < Len(w) + 1  BY <1>1, <2>6, <3>2 DEF Mine
        <4>2. w[j].body.off < t.sent  BY <1>3, <3>2, <4>1 DEF Follows
        <4>3. w[j].body.off \in Nat  BY <3>2, FrameNumbers
        <4> QED BY <2>1, <2>2, <3>2, <4>2, <4>3
      <3> QED BY <1>1, <3>1, <3>2
    <2> QED BY <2>3, <2>4, <2>5, <2>6 DEF Follows
  <1> HIDE DEF v
  <1> QED BY <1>5, <1>6 DEF MemberAt, v

LEMMA PrinterKeepsMember ==
    ASSUME Typed, OwnInv, WorkInv, MemberInv, PrinterEffect
    PROVE  MemberInv'
  <1>1. /\ inbox \in Seq(MsgType) /\ wire \in Seq(FrameType) /\ got \in Seq(Blocks)
        /\ UNCHANGED <<op, got>>
    BY DEF Typed, PrinterEffect, PrinterKeepsRest, client
  <1>2. defects' = 0 => defects = 0
    <2>1. defects \in 0..MaxDefects /\ MaxDefects \in Nat  BY FileTunnelConstants DEF Typed
    <2>2. defects <= defects'  BY DEF PrinterEffect, PrinterKeepsRest, CountKept
    <2> QED BY <2>1, <2>2
  <1> SUFFICES ASSUME defects' = 0, defects = 0, op.cmd = "SUB_FILE", op.at = "reply",
                      MemberAt(op.id, got, inbox, tasks, wire)
               PROVE  MemberAt(op.id, got, inbox', tasks', wire')
    BY <1>1, <1>2 DEF MemberInv
  <1>3. /\ Shifted(0, inbox, inbox)
        /\ inbox # <<>> => Shifted(1, Tail(inbox), inbox) /\ 1 \in DOMAIN inbox /\ Head(inbox) = inbox[1]
    BY <1>1, ShiftedTail
  <1>4. inbox' = inbox \/ (inbox # <<>> /\ inbox' = Tail(inbox))
    BY DEF PrinterEffect, RequestEffect, ChunkEffect, StopTaskEffect, TaskEffect, NotifyEffect
  <1>5. \A i \in DOMAIN inbox' : \E j \in DOMAIN inbox : inbox[j].id = inbox'[i].id
    BY <1>3, <1>4 DEF Shifted
  <1>6. /\ \A i \in DOMAIN inbox : inbox[i].id = op.id => inbox[i].cmd = "SUB_FILE"
        /\ \A t \in tasks : t.id = op.id => t.cmd = "SUB_FILE"
        /\ OneEach(inbox, tasks, wire)
    BY DEF WorkInv, OwnWork
  <1>7. ASSUME \A u \in tasks' : u.id = op.id => \E t \in tasks : t.id = op.id /\ t.sent = u.sent,
               \/ wire' = wire
               \/ \E f \in FrameType :
                    wire' = Append(wire, f) /\ (IsReply(f) /\ f.id = op.id => Blank(f))
        PROVE  MemberAt(op.id, got, inbox', tasks', wire')
    <2>1. PICK n, p, us, v : n = op.id /\ p = inbox' /\ us = tasks' /\ v = wire'  OBVIOUS
    <2>2. MemberAt(n, got, inbox, tasks, wire)  BY <2>1
    <2>3. \A i \in DOMAIN p : \E j \in DOMAIN inbox : inbox[j].id = p[i].id  BY <1>5, <2>1
    <2>4. /\ \A u \in us : u.id = n => \E t \in tasks : t.id = n /\ t.sent = u.sent
          /\ \/ v = wire
             \/ \E f \in FrameType : v = Append(wire, f) /\ (IsReply(f) /\ f.id = n => Blank(f))
      BY <1>7, <2>1
    <2>5. MemberAt(n, got, p, us, wire)  BY <2>2, <2>3, <2>4 DEF MemberAt
    <2>6. ASSUME NEW f \in FrameType, v = Append(wire, f), IsReply(f) /\ f.id = n => Blank(f)
          PROVE  MemberAt(n, got, p, us, v)
      BY <1>1, <2>5, <2>6, MemberOther
    <2> QED BY <2>1, <2>4, <2>5, <2>6
  <1>8. CASE RequestEffect
    <2>0. inbox # <<>> /\ inbox' = Tail(inbox) /\ Head(inbox).cmd \in Commands  BY <1>8 DEF RequestEffect
    <2>1. CASE Head(inbox).id = op.id
      <3>1. Head(inbox).cmd = "SUB_FILE" /\ Head(inbox).cmd # "CHUNK"
        BY <1>3, <1>6, <2>0, <2>1
      <3>2. got = <<>>  BY <1>3, <2>0, <2>1 DEF MemberAt
      <3>3. /\ \A j \in DOMAIN inbox : inbox[j].id = op.id => j = 1
            /\ \A t \in tasks : t.id # op.id
            /\ \A j \in DOMAIN wire : IsReply(wire[j]) => wire[j].id # op.id
        BY <1>3, <1>6, <2>0, <2>1, <3>1 DEF OneEach
      <3>4. \A i \in DOMAIN inbox' : inbox'[i].id # op.id
        <4>1. \A i \in DOMAIN inbox' : i + 1 \in DOMAIN inbox /\ i + 1 # 1 /\ inbox'[i] = inbox[i + 1]
          BY <1>3, <2>0 DEF Shifted
        <4> QED BY <3>3, <4>1
      <3>5. MemberAt(op.id, <<>>, inbox', tasks, wire)
        <4>1. Untouched(op.id, inbox', tasks, wire)  BY <3>3, <3>4 DEF Untouched
        <4> QED BY <4>1, MemberUntouched
      <3>6. CASE \E f : Answer(f, Head(inbox)) /\ Blank(f) /\ wire' = Append(wire, f) /\ UNCHANGED tasks
        BY <1>7, <3>6 DEF Answer
      <3>7. CASE \E u : TaskOf(u, Head(inbox)) /\ u.sent = 0 /\ tasks' = tasks \cup {u} /\ UNCHANGED wire
        <4>1. PICK u : TaskOf(u, Head(inbox)) /\ u.sent = 0 /\ tasks' = tasks \cup {u} /\ UNCHANGED wire
          BY <3>7
        <4>2. Len(got) = 0  BY <3>2
        <4>3. Follows(wire, op.id, Len(wire) + 1, Len(got), u.sent)
          BY <3>3, <4>1, <4>2 DEF Follows, Mine
        <4>4. \A t \in tasks' : t.id = op.id => t = u  BY <3>3, <4>1
        <4> QED BY <3>2, <3>5, <4>1, <4>3, <4>4 DEF MemberAt
      <3>8. Head(inbox).cmd \in Streams /\ \A u : TaskOf(u, Head(inbox)) => u.cmd = "SUB_FILE"
        BY <3>1 DEF Streams, TaskOf
      <3> QED BY <1>8, <3>6, <3>7, <3>8 DEF RequestEffect
    <2>2. CASE Head(inbox).id # op.id
      <3>1. \A f : Answer(f, Head(inbox)) => f \in FrameType /\ f.id # op.id
        BY <2>2 DEF Answer, SameNumber
      <3>2. \A u : TaskOf(u, Head(inbox)) => u.id # op.id
        BY <2>2 DEF TaskOf, SameNumber
      <3>3. \A u \in tasks' : u.id = op.id => u \in tasks
        BY <1>8, <3>2 DEF RequestEffect
      <3>4. wire' = wire \/ \E f \in FrameType : wire' = Append(wire, f) /\ f.id # op.id
        BY <1>8, <3>1 DEF RequestEffect
      <3> QED BY <1>7, <3>3, <3>4
    <2> QED BY <2>1, <2>2
  <1>9. CASE ChunkEffect
    <2>1. \A t \in tasks : t.cmd = "FILE_UPLOAD" => t.id # op.id  BY <1>6
    <2>2. \A u, t : t \in tasks /\ t.cmd = "FILE_UPLOAD" /\ TaskOf(u, t) => u.id # op.id
      BY <2>1 DEF TaskOf, SameNumber
    <2>3. \A f, t : t \in tasks /\ t.cmd = "FILE_UPLOAD" /\ Answer(f, t) => f \in FrameType /\ f.id # op.id
      BY <2>1 DEF Answer, SameNumber
    <2>4. \A u \in tasks' : u.id = op.id => u \in tasks
      BY <1>9, <2>2 DEF ChunkEffect
    <2>5. wire' = wire \/ \E f \in FrameType : wire' = Append(wire, f) /\ f.id # op.id
      BY <1>9, <2>3 DEF ChunkEffect
    <2> QED BY <1>7, <2>4, <2>5
  <1>10. CASE StopTaskEffect
    <2>1. Head(inbox).id # op.id
      BY <1>3, <1>6, <1>10 DEF StopTaskEffect
    <2>2. \A f : Answer(f, Head(inbox)) => f \in FrameType /\ f.id # op.id
      BY <2>1 DEF Answer, SameNumber
    <2>3. tasks' \subseteq tasks  BY <1>10 DEF StopTaskEffect
    <2>4. wire' = wire \/ \E f \in FrameType : wire' = Append(wire, f) /\ f.id # op.id
      BY <1>10, <2>2 DEF StopTaskEffect
    <2> QED BY <1>7, <2>3, <2>4
  <1>11. CASE TaskEffect
    <2>1. PICK t \in tasks, f \in FrameType :
            /\ Answer(f, t) /\ wire' = Append(wire, f)
            /\ t.cmd = "SUB_FILE" => Blank(f) \/ Piece(f, t.sent)
            /\ \/ tasks' = tasks \ {t}
               \/ \E u : /\ TaskOf(u, t) /\ (u.cmd = "SUB_FILE" => u.sent = t.sent + 1)
                         /\ tasks' = (tasks \ {t}) \cup {u}
      BY <1>11 DEF TaskEffect, Answer
    <2>2. IsReply(f) /\ f.id = t.id /\ \A u : TaskOf(u, t) => u.id = t.id /\ u.cmd = t.cmd
      BY <2>1 DEF Answer, TaskOf, SameNumber
    <2>3. CASE t.id = op.id
      <3>1. t.cmd = "SUB_FILE" /\ OneTaskEach(tasks)  BY <1>6, <2>3 DEF OneEach
      <3>2. \/ tasks' = tasks \ {t}
            \/ \E u : tasks' = (tasks \ {t}) \cup {u} /\ u.id = op.id /\ u.sent = t.sent + 1
        BY <2>1, <2>2, <2>3, <3>1
      <3>3. MemberAt(op.id, got, inbox, tasks', Append(wire, f))
        BY <1>1, <2>1, <2>2, <2>3, <3>1, <3>2, MemberSends
      <3> QED BY <1>11, <2>1, <3>3 DEF TaskEffect
    <2>4. CASE t.id # op.id
      <3>1. \A u \in tasks' : u.id = op.id => u \in tasks  BY <2>1, <2>2, <2>4
      <3> QED BY <1>7, <2>1, <2>2, <2>4, <3>1
    <2> QED BY <2>3, <2>4
  <1>12. CASE NotifyEffect
    BY <1>7, <1>12 DEF NotifyEffect
  <1> QED BY <1>8, <1>9, <1>10, <1>11, <1>12 DEF PrinterEffect

----------------------------------------------------------------------------
(* Chunks reach the printer in order, each where the one before it ended.    *)

End(m) == m.off + Len(m.data)

\* A chunk is a part of the source, and the one with the digest is the source's end.
SoundChunk(m) ==
    /\ Len(m.data) >= 1 /\ End(m) <= FileLen /\ m.data = SubSeq(File, m.off + 1, End(m))
    /\ m.md5 = <<>> \/ (m.md5 = File /\ End(m) = FileLen)

IsChunk(q, n, i) == i \in DOMAIN q /\ q[i].cmd = "CHUNK" /\ q[i].id = n

\* Upload n has a blocks at the printer; with the chunks before the i-th message it has b.
Reaches(q, n, i, a, b) ==
    a <= b /\ (a = b \/ \E j \in DOMAIN q : j < i /\ IsChunk(q, n, j) /\ End(q[j]) = b)

ChunkFlow(q, ts) ==
    /\ \A i \in DOMAIN q : q[i].cmd = "CHUNK" => SoundChunk(q[i])
    /\ \A i, j \in DOMAIN q : i < j /\ q[i].cmd = "CHUNK" /\ q[j].cmd = "CHUNK" /\ q[i].id = q[j].id =>
         End(q[i]) <= q[j].off
    /\ \A t \in ts, i \in DOMAIN q : t.cmd = "FILE_UPLOAD" /\ IsChunk(q, t.id, i) =>
         Reaches(q, t.id, i, Len(t.part), q[i].off)

\* The next chunk of the running upload will follow what is on its way.
Position(o) == o.start + o.index * o.len
NextChunk(n, b, q, ts) ==
    /\ \A i \in DOMAIN q : q[i].id = n => End(q[i]) <= b
    /\ \A t \in ts : t.id = n => Reaches(q, n, Len(q) + 1, Len(t.part), b)
Sending(o, q, ts) ==
    /\ o.len \in 1..FrameLimit /\ o.start < FileLen
    /\ o.index <= chunk_count(o.start, o.len) - 1
    /\ NextChunk(o.id, Position(o), q, ts)

ChunkInv ==
    /\ ChunkFlow(inbox, tasks)
    /\ op.at = "chunk" /\ "up" \notin torn => Sending(op, inbox, tasks)

LEMMA MsgNumbers ==
    ASSUME NEW q \in Seq(MsgType)
    PROVE  \A i \in DOMAIN q : q[i].off \in Nat /\ Len(q[i].data) \in Nat /\ End(q[i]) \in Nat /\ i \in Nat
  <1>1. \A i \in DOMAIN q : q[i] \in MsgType /\ i \in Nat
    BY SeqEntries
  <1>2. \A m \in MsgType : m.off \in Nat /\ m.data \in Seq(Blocks)  BY DEF MsgType
  <1>3. \A m \in MsgType : Len(m.data) \in Nat  BY <1>2, LenProperties
  <1> QED BY <1>1, <1>2, <1>3 DEF End

LEMMA ReachesAppend ==
    ASSUME NEW q \in Seq(MsgType), NEW m \in MsgType, NEW n, NEW i, NEW a, NEW b, Reaches(q, n, i, a, b)
    PROVE  Reaches(Append(q, m), n, i, a, b)
  <1> DEFINE p == Append(q, m)
  <1>1. \A j \in DOMAIN q : j \in DOMAIN p /\ p[j] = q[j]
    <2>1. /\ DOMAIN q = 1..Len(q) /\ DOMAIN p = 1..(Len(q) + 1) /\ Len(q) \in Nat
          /\ \A j \in DOMAIN q : p[j] = q[j]
      BY AppendEntries
    <2> QED BY <2>1
  <1> HIDE DEF p
  <1> QED BY <1>1 DEF Reaches, IsChunk, p

LEMMA TailIndex ==
    ASSUME NEW S, NEW q \in Seq(S), q # <<>>
    PROVE  /\ \A j \in DOMAIN q : j \in Nat /\ (j # 1 => j - 1 \in DOMAIN Tail(q) /\ Tail(q)[j - 1] = q[j])
           /\ Len(Tail(q)) + 1 = Len(q) /\ Len(q) \in Nat \ {0}
           /\ DOMAIN q = 1..Len(q) /\ DOMAIN Tail(q) = 1..(Len(q) - 1)
           /\ \A j \in DOMAIN Tail(q) : j + 1 \in DOMAIN q /\ Tail(q)[j] = q[j + 1] /\ j \in Nat \ {0}
  <1>1. \A j \in DOMAIN Tail(q) : j + 1 \in DOMAIN q /\ Tail(q)[j] = q[j + 1] /\ j \in Nat \ {0}
    BY ShiftedTail DEF Shifted
  <1>2. DOMAIN q = 1..Len(q) /\ Len(q) \in Nat \ {0} /\ DOMAIN Tail(q) = 1..(Len(q) - 1)
        /\ Len(Tail(q)) + 1 = Len(q)
    BY LenProperties, EmptySeq, HeadTailProperties
  <1>3. \A j \in DOMAIN q : j # 1 => j - 1 \in DOMAIN Tail(q) /\ j - 1 + 1 = j  BY <1>2
  <1> QED BY <1>1, <1>2, <1>3

\* The message taken off the inbox is no chunk of the upload.
LEMMA ReachesTailOther ==
    ASSUME NEW q \in Seq(MsgType), q # <<>>, NEW n, ~IsChunk(q, n, 1), NEW i \in Nat, NEW a, NEW b,
           Reaches(q, n, i + 1, a, b)
    PROVE  Reaches(Tail(q), n, i, a, b)
  <1> DEFINE p == Tail(q)
  <1>1. CASE a = b  BY <1>1 DEF Reaches
  <1>2. CASE a # b
    <2>1. PICK j \in DOMAIN q : j < i + 1 /\ IsChunk(q, n, j) /\ End(q[j]) = b  BY <1>2 DEF Reaches
    <2>2. j # 1 /\ j \in Nat /\ j - 1 \in DOMAIN p /\ p[j - 1] = q[j]  BY <2>1, TailIndex
    <2>3. j - 1 < i /\ IsChunk(p, n, j - 1) /\ End(p[j - 1]) = b  BY <2>1, <2>2 DEF IsChunk
    <2> HIDE DEF p
    <2> QED BY <2>2, <2>3 DEF Reaches, p
  <1> QED BY <1>1, <1>2

\* It is the upload's next chunk, and is added to what the printer has.
LEMMA ReachesTailOwn ==
    ASSUME NEW q \in Seq(MsgType), q # <<>>, NEW n, IsChunk(q, n, 1), NEW i \in Nat, NEW a \in Nat,
           NEW b \in Nat, q[1].off = a, Len(q[1].data) >= 1, End(q[1]) <= b, Reaches(q, n, i + 1, a, b)
    PROVE  Reaches(Tail(q), n, i, End(q[1]), b)
  <1> DEFINE p == Tail(q)
  <1>0. End(q[1]) = a + Len(q[1].data) /\ Len(q[1].data) \in Nat
    BY MsgNumbers DEF End, IsChunk
  <1>1. a # b  BY <1>0
  <1>2. PICK j \in DOMAIN q : j < i + 1 /\ IsChunk(q, n, j) /\ End(q[j]) = b  BY <1>1 DEF Reaches
  <1>3. CASE j = 1  BY <1>2, <1>3 DEF Reaches
  <1>4. CASE j # 1
    <2>2. j \in Nat /\ j - 1 \in DOMAIN p /\ p[j - 1] = q[j]  BY <1>2, <1>4, TailIndex
    <2>3. j - 1 < i /\ IsChunk(p, n, j - 1) /\ End(p[j - 1]) = b  BY <1>2, <2>2 DEF IsChunk
    <2> HIDE DEF p
    <2> QED BY <2>2, <2>3 DEF Reaches, p
  <1> QED BY <1>3, <1>4

\* The first chunk of an upload's task begins where its part ends.
LEMMA FirstChunk ==
    ASSUME NEW q \in Seq(MsgType), q # <<>>, NEW ts, ChunkFlow(q, ts), NEW t \in ts,
           t.cmd = "FILE_UPLOAD", IsChunk(q, t.id, 1)
    PROVE  q[1].off = Len(t.part) /\ SoundChunk(q[1])
  <1>1. Reaches(q, t.id, 1, Len(t.part), q[1].off) /\ SoundChunk(q[1])
    BY DEF ChunkFlow, IsChunk
  <1>2. \A j \in DOMAIN q : ~(j < 1)
    <2>1. DOMAIN q = 1..Len(q) /\ Len(q) \in Nat  BY LenProperties
    <2> QED BY <2>1
  <1> QED BY <1>1, <1>2 DEF Reaches

\* The inbox loses its first message, which adds nothing to the tasks that are left.
LEMMA FlowTailOther ==
    ASSUME NEW q \in Seq(MsgType), q # <<>>, NEW ts, NEW us, ChunkFlow(q, ts),
           \A u \in us : u.cmd = "FILE_UPLOAD" =>
              \/ \A i \in DOMAIN q : IsChunk(q, u.id, i) => FALSE
              \/ /\ ~IsChunk(q, u.id, 1)
                 /\ \E t \in ts : t.cmd = "FILE_UPLOAD" /\ t.id = u.id /\ Len(t.part) = Len(u.part)
    PROVE  ChunkFlow(Tail(q), us)
  <1> DEFINE p == Tail(q)
  <1>1. \A j \in DOMAIN p : j + 1 \in DOMAIN q /\ p[j] = q[j + 1] /\ j \in Nat \ {0}
    BY TailIndex
  <1> HIDE DEF p
  <1>2. \A i \in DOMAIN p : p[i].cmd = "CHUNK" => SoundChunk(p[i])  BY <1>1 DEF ChunkFlow
  <1>3. ASSUME NEW i \in DOMAIN p, NEW j \in DOMAIN p, i < j, p[i].cmd = "CHUNK", p[j].cmd = "CHUNK",
               p[i].id = p[j].id
        PROVE  End(p[i]) <= p[j].off
    <2>1. i + 1 < j + 1  BY <1>1, <1>3
    <2> QED BY <1>1, <1>3, <2>1 DEF ChunkFlow
  <1>4. ASSUME NEW u \in us, NEW i \in DOMAIN p, u.cmd = "FILE_UPLOAD", IsChunk(p, u.id, i)
        PROVE  Reaches(p, u.id, i, Len(u.part), p[i].off)
    <2>1. IsChunk(q, u.id, i + 1)  BY <1>1, <1>4 DEF IsChunk
    <2>2. PICK t \in ts : t.cmd = "FILE_UPLOAD" /\ t.id = u.id /\ Len(t.part) = Len(u.part)
      BY <1>1, <1>4, <2>1
    <2>3. ~IsChunk(q, u.id, 1)  BY <1>1, <1>4, <2>1
    <2>4. Reaches(q, u.id, i + 1, Len(u.part), q[i + 1].off)
      BY <1>1, <2>1, <2>2 DEF ChunkFlow
    <2> QED BY <1>1, <2>3, <2>4, ReachesTailOther DEF p
  <1> QED BY <1>2, <1>3, <1>4 DEF ChunkFlow, p

\* An upload's next chunk is added to its task.
LEMMA FlowTailOwn ==
    ASSUME NEW q \in Seq(MsgType), q # <<>>, NEW ts, ChunkFlow(q, ts), OneTaskEach(ts), NEW t \in ts,
           t.cmd = "FILE_UPLOAD", IsChunk(q, t.id, 1), Len(t.part) \in Nat,
           NEW u, u.id = t.id, Len(u.part) = End(q[1])
    PROVE  ChunkFlow(Tail(q), (ts \ {t}) \cup {u})
  <1> DEFINE p == Tail(q)
  <1>0. q[1].off = Len(t.part) /\ SoundChunk(q[1]) /\ 1 \in DOMAIN q
    BY FirstChunk DEF IsChunk
  <1>1. \A j \in DOMAIN p : j + 1 \in DOMAIN q /\ p[j] = q[j + 1] /\ j \in Nat \ {0}
    BY TailIndex
  <1> HIDE DEF p
  <1>2. \A i \in DOMAIN p : p[i].cmd = "CHUNK" => SoundChunk(p[i])  BY <1>1 DEF ChunkFlow
  <1>3. ASSUME NEW i \in DOMAIN p, NEW j \in DOMAIN p, i < j, p[i].cmd = "CHUNK", p[j].cmd = "CHUNK",
               p[i].id = p[j].id
        PROVE  End(p[i]) <= p[j].off
    <2>1. i + 1 < j + 1  BY <1>1, <1>3
    <2> QED BY <1>1, <1>3, <2>1 DEF ChunkFlow
  <1>4. ASSUME NEW i \in DOMAIN p, IsChunk(p, t.id, i)
        PROVE  Reaches(p, t.id, i, End(q[1]), p[i].off)
    <2>1. IsChunk(q, t.id, i + 1) /\ 1 < i + 1  BY <1>1, <1>4 DEF IsChunk
    <2>2. Reaches(q, t.id, i + 1, Len(t.part), q[i + 1].off)
      BY <1>1, <2>1 DEF ChunkFlow
    <2>3. End(q[1]) <= q[i + 1].off
      BY <1>0, <1>1, <2>1 DEF ChunkFlow, IsChunk
    <2>4. q[i + 1].off \in Nat  BY <1>1, MsgNumbers
    <2>5. Len(q[1].data) >= 1  BY <1>0 DEF SoundChunk
    <2>6. PICK n : n = t.id  OBVIOUS
    <2>7. PICK a \in Nat, b \in Nat : a = Len(t.part) /\ b = q[i + 1].off  BY <2>4
    <2>8. Reaches(Tail(q), n, i, End(q[1]), b)
      <3>1. IsChunk(q, n, 1) /\ q[1].off = a /\ End(q[1]) <= b /\ Reaches(q, n, i + 1, a, b) /\ i \in Nat
        BY <1>0, <1>1, <2>2, <2>3, <2>6, <2>7
      <3> QED BY <2>5, <3>1, ReachesTailOwn
    <2> QED BY <1>1, <2>6, <2>7, <2>8 DEF p
  <1>5. ASSUME NEW x \in ts \ {t}, NEW i \in DOMAIN p, x.cmd = "FILE_UPLOAD", IsChunk(p, x.id, i)
        PROVE  Reaches(p, x.id, i, Len(x.part), p[i].off)
    <2>1. ~IsChunk(q, x.id, 1)  BY <1>5 DEF OneTaskEach, IsChunk
    <2>2. IsChunk(q, x.id, i + 1)  BY <1>1, <1>5 DEF IsChunk
    <2>3. Reaches(q, x.id, i + 1, Len(x.part), q[i + 1].off)
      BY <1>1, <1>5, <2>2 DEF ChunkFlow
    <2> QED BY <1>1, <2>1, <2>3, ReachesTailOther DEF p
  <1>6. \A x \in (ts \ {t}) \cup {u}, i \in DOMAIN p : x.cmd = "FILE_UPLOAD" /\ IsChunk(p, x.id, i) =>
           Reaches(p, x.id, i, Len(x.part), p[i].off)
    BY <1>4, <1>5
  <1> QED BY <1>2, <1>3, <1>6 DEF ChunkFlow, p

\* What the next chunk follows, when the printer takes up another message ...
LEMMA NextTailOther ==
    ASSUME NEW q \in Seq(MsgType), q # <<>>, NEW ts, NEW us, NEW n, NEW b, NextChunk(n, b, q, ts),
           \A u \in us : u.id = n =>
              ~IsChunk(q, n, 1) /\ \E t \in ts : t.id = n /\ Len(t.part) = Len(u.part)
    PROVE  NextChunk(n, b, Tail(q), us)
  <1>1. \A j \in DOMAIN Tail(q) : j + 1 \in DOMAIN q /\ Tail(q)[j] = q[j + 1]
    BY TailIndex
  <1>2. Len(Tail(q)) + 1 = Len(q) /\ Len(q) \in Nat  BY TailIndex
  <1>3. ASSUME NEW u \in us, u.id = n PROVE Reaches(Tail(q), n, Len(Tail(q)) + 1, Len(u.part), b)
    <2>1. Reaches(q, n, Len(q) + 1, Len(u.part), b)  BY <1>3 DEF NextChunk
    <2>2. ~IsChunk(q, n, 1)  BY <1>3
    <2> QED BY <1>2, <2>1, <2>2, ReachesTailOther
  <1> QED BY <1>1, <1>3 DEF NextChunk

\* ... and when it takes up the upload's own next chunk.
LEMMA NextTailOwn ==
    ASSUME NEW q \in Seq(MsgType), q # <<>>, NEW ts, OneTaskEach(ts), NEW t \in ts, NEW n, NEW b \in Nat,
           NextChunk(n, b, q, ts), ChunkFlow(q, ts), IsChunk(q, n, 1), t.id = n, t.cmd = "FILE_UPLOAD",
           Len(t.part) \in Nat, NEW u, u.id = t.id, Len(u.part) = End(q[1])
    PROVE  NextChunk(n, b, Tail(q), (ts \ {t}) \cup {u})
  <1>1. \A j \in DOMAIN Tail(q) : j + 1 \in DOMAIN q /\ Tail(q)[j] = q[j + 1]
    BY TailIndex
  <1>2. Len(Tail(q)) + 1 = Len(q) /\ Len(q) \in Nat  BY TailIndex
  <1>3. q[1].off = Len(t.part) /\ SoundChunk(q[1]) /\ 1 \in DOMAIN q
    BY FirstChunk DEF IsChunk
  <1>4. Len(q[1].data) >= 1 /\ End(q[1]) <= b  BY <1>3 DEF SoundChunk, NextChunk, IsChunk
  <1>5. Reaches(q, n, Len(q) + 1, Len(t.part), b)  BY DEF NextChunk
  <1>6. Reaches(Tail(q), n, Len(q), End(q[1]), b)
    <2>1. PICK a \in Nat : a = Len(t.part)  OBVIOUS
    <2>2. q[1].off = a /\ Reaches(q, n, Len(q) + 1, a, b)  BY <1>3, <1>5, <2>1
    <2> QED BY <1>2, <1>4, <2>2, ReachesTailOwn
  <1>7. \A x \in (ts \ {t}) \cup {u} : x.id = n => x = u  BY DEF OneTaskEach
  <1> QED BY <1>1, <1>2, <1>6, <1>7 DEF NextChunk

LEMMA FlowAppend ==
    ASSUME NEW q \in Seq(MsgType), NEW m \in MsgType, NEW ts, ChunkFlow(q, ts),
           m.cmd = "CHUNK" => SoundChunk(m) /\ NextChunk(m.id, m.off, q, ts)
    PROVE  ChunkFlow(Append(q, m), ts)
  <1> DEFINE p == Append(q, m)
  <1>1. /\ DOMAIN q = 1..Len(q) /\ DOMAIN p = 1..(Len(q) + 1) /\ Len(q) \in Nat
        /\ \A i \in DOMAIN p : (i \in DOMAIN q /\ p[i] = q[i]) \/ (i = Len(q) + 1 /\ p[i] = m)
    BY AppendEntries
  <1>2. \A i, j \in DOMAIN p : i < j => i \in DOMAIN q /\ p[i] = q[i]
    BY <1>1
  <1>3. \A n, i, a, b : Reaches(q, n, i, a, b) => Reaches(p, n, i, a, b)  BY ReachesAppend
  <1> HIDE DEF p
  <1>4. \A i \in DOMAIN p : p[i].cmd = "CHUNK" => SoundChunk(p[i])  BY <1>1 DEF ChunkFlow
  <1>5. ASSUME NEW i \in DOMAIN p, NEW j \in DOMAIN p, i < j, p[i].cmd = "CHUNK", p[j].cmd = "CHUNK",
               p[i].id = p[j].id
        PROVE  End(p[i]) <= p[j].off
    <2>1. i \in DOMAIN q /\ p[i] = q[i]  BY <1>2, <1>5
    <2>2. CASE j \in DOMAIN q /\ p[j] = q[j]  BY <1>5, <2>1, <2>2 DEF ChunkFlow
    <2>3. CASE p[j] = m  BY <1>5, <2>1, <2>3 DEF NextChunk
    <2> QED BY <1>1, <2>2, <2>3
  <1>6. ASSUME NEW t \in ts, NEW i \in DOMAIN p, t.cmd = "FILE_UPLOAD", IsChunk(p, t.id, i)
        PROVE  Reaches(p, t.id, i, Len(t.part), p[i].off)
    <2>1. CASE i \in DOMAIN q /\ p[i] = q[i]
      <3>1. IsChunk(q, t.id, i)  BY <1>6, <2>1 DEF IsChunk
      <3>2. Reaches(q, t.id, i, Len(t.part), q[i].off)  BY <1>6, <2>1, <3>1 DEF ChunkFlow
      <3> QED BY <1>3, <2>1, <3>2
    <2>2. CASE i = Len(q) + 1 /\ p[i] = m
      <3>1. m.cmd = "CHUNK" /\ m.id = t.id  BY <1>6, <2>2 DEF IsChunk
      <3>2. Reaches(q, t.id, Len(q) + 1, Len(t.part), m.off)  BY <3>1 DEF NextChunk
      <3> QED BY <1>3, <2>2, <3>2
    <2> QED BY <1>1, <2>1, <2>2
  <1> QED BY <1>4, <1>5, <1>6 DEF ChunkFlow, p

LEMMA NextAppend ==
    ASSUME NEW q \in Seq(MsgType), NEW m \in MsgType, NEW ts, m.cmd = "CHUNK",
           NextChunk(m.id, m.off, q, ts), \A t \in ts : Len(t.part) \in Nat
    PROVE  NextChunk(m.id, End(m), Append(q, m), ts)
  <1> DEFINE p == Append(q, m)
  <1>0. m.off \in Nat /\ End(m) \in Nat /\ m.off <= End(m)
    <2>1. m.off \in Nat /\ m.data \in Seq(Blocks)  BY DEF MsgType
    <2>2. Len(m.data) \in Nat  BY <2>1, LenProperties
    <2> QED BY <2>1, <2>2 DEF End
  <1>1. /\ DOMAIN q = 1..Len(q) /\ DOMAIN p = 1..(Len(q) + 1) /\ Len(q) \in Nat
        /\ \A i \in DOMAIN p : (i \in DOMAIN q /\ p[i] = q[i]) \/ (i = Len(q) + 1 /\ p[i] = m)
        /\ p[Len(q) + 1] = m
    BY AppendEntries
  <1>2. Len(p) = Len(q) + 1  BY AppendProperties
  <1> HIDE DEF p
  <1>3. ASSUME NEW i \in DOMAIN p, p[i].id = m.id PROVE End(p[i]) <= End(m)
    <2>1. CASE i \in DOMAIN q /\ p[i] = q[i]
      <3>1. End(q[i]) <= m.off  BY <1>3, <2>1 DEF NextChunk
      <3>2. End(q[i]) \in Nat  BY <2>1, MsgNumbers
      <3> QED BY <1>0, <2>1, <3>1, <3>2
    <2>2. CASE p[i] = m  BY <1>0, <2>2
    <2> QED BY <1>1, <2>1, <2>2
  <1>4. ASSUME NEW t \in ts, t.id = m.id PROVE Reaches(p, m.id, Len(p) + 1, Len(t.part), End(m))
    <2>1. Len(t.part) <= m.off  BY <1>4 DEF NextChunk, Reaches
    <2>2. Len(t.part) <= End(m)  BY <1>0, <2>1
    <2>3. Len(q) + 1 \in DOMAIN p /\ Len(q) + 1 < Len(p) + 1  BY <1>1, <1>2
    <2>4. IsChunk(p, m.id, Len(q) + 1) /\ End(p[Len(q) + 1]) = End(m)  BY <1>1, <2>3 DEF IsChunk
    <2> QED BY <2>2, <2>3, <2>4 DEF Reaches
  <1> QED BY <1>3, <1>4 DEF NextChunk, p

\* The number of chunks is right: none is empty, and the last one ends the source.
LEMMA ChunkArithmetic ==
    ASSUME NEW start \in Nat, start < FileLen, NEW len \in Nat \ {0}, NEW index \in Nat,
           index <= chunk_count(start, len) - 1
    PROVE  /\ chunk_count(start, len) \in Nat /\ index * len \in Nat
           /\ start + index * len < FileLen
           /\ index = chunk_count(start, len) - 1 => start + index * len + len >= FileLen
           /\ index # chunk_count(start, len) - 1 =>
                start + index * len + len < FileLen /\ start + index * len + len = start + (index + 1) * len
  <1>0. FileLen \in Nat  BY FileTunnelConstants
  <1>1. PICK x \in Nat : x = FileLen - start + len - 1  BY <1>0
  <1>2. PICK c : c = x \div len  OBVIOUS
  <1>3. c \in Nat /\ c * len <= x /\ x < c * len + len  BY <1>2
  <1>4. chunk_count(start, len) = c  BY <1>1, <1>2 DEF chunk_count
  <1>5. ASSUME NEW i \in Nat, i <= c - 1 PROVE i * len \in Nat /\ start + i * len < FileLen
    <2>1. PICK d \in Nat : c = i + d + 1
      <3>1. c - 1 - i \in Nat /\ c = i + (c - 1 - i) + 1  BY <1>3, <1>5
      <3> QED BY <3>1
    <2>2. c * len = i * len + d * len + len /\ i * len \in Nat /\ d * len \in Nat  BY <2>1
    <2> QED BY <1>0, <1>1, <1>3, <2>2
  <1>6. (index + 1) * len = index * len + len /\ index * len \in Nat  OBVIOUS
  <1>7. start + index * len < FileLen  BY <1>4, <1>5
  <1>8. ASSUME index = c - 1 PROVE start + index * len + len >= FileLen
    <2>1. c * len = index * len + len  BY <1>3, <1>6, <1>8
    <2> QED BY <1>0, <1>1, <1>3, <1>6, <2>1
  <1>9. ASSUME index # c - 1 PROVE start + index * len + len < FileLen
    <2>1. index + 1 \in Nat /\ index + 1 <= c - 1  BY <1>3, <1>4, <1>9
    <2>2. start + (index + 1) * len < FileLen  BY <1>5, <2>1
    <2> QED BY <1>6, <2>2
  <1> QED BY <1>3, <1>4, <1>6, <1>7, <1>8, <1>9

LEMMA PrinterKeepsChunks ==
    ASSUME Typed, OwnInv, WorkInv, ChunkInv, PrinterEffect
    PROVE  ChunkInv'
  <1>1. /\ inbox \in Seq(MsgType) /\ UNCHANGED <<op, torn>> /\ \A t \in tasks : t.part \in Seq(Blocks)
    BY DEF Typed, PrinterEffect, PrinterKeepsRest, client, TaskType
  <1>2. \A t \in tasks : Len(t.part) \in Nat  BY <1>1, LenProperties
  <1>3. Position(op) \in Nat
    <2>1. op.start \in Nat /\ op.index \in Nat /\ op.len \in Nat  BY DEF Typed, OpType
    <2>2. op.index * op.len \in Nat  BY <2>1
    <2> QED BY <2>1, <2>2 DEF Position
  <1>4. ChunkFlow(inbox, tasks) /\ OneEach(inbox, tasks, wire) /\ OneTaskEach(tasks)
    BY DEF ChunkInv, WorkInv, OneEach
  <1>5. inbox # <<>> => 1 \in DOMAIN inbox /\ Head(inbox) = inbox[1]  BY <1>1, TailEntries
  <1>6. PICK n, b : n = op.id /\ b = Position(op)  OBVIOUS
  <1>7. op.at = "chunk" /\ "up" \notin torn => NextChunk(n, b, inbox, tasks)
    BY <1>6 DEF ChunkInv, Sending
  <1>8. op.at = "chunk" =>
          /\ \A i \in DOMAIN inbox : inbox[i].id = n => inbox[i].cmd = "CHUNK"
          /\ \A t \in tasks : t.id = n => t.cmd = "FILE_UPLOAD"
    BY <1>6 DEF WorkInv, OwnWork
  <1> SUFFICES /\ ChunkFlow(inbox', tasks')
               /\ op.at = "chunk" /\ NextChunk(n, b, inbox, tasks) => NextChunk(n, b, inbox', tasks')
    BY <1>1, <1>6, <1>7 DEF ChunkInv, Sending, Position, chunk_count
  <1>9. CASE RequestEffect \/ StopTaskEffect
    <2>1. inbox # <<>> /\ inbox' = Tail(inbox) /\ inbox[1].cmd # "CHUNK" /\ 1 \in DOMAIN inbox
      BY <1>5, <1>9 DEF RequestEffect, StopTaskEffect, Commands, Singles, Streams
    <2>2. \/ tasks' \subseteq tasks
          \/ \E u : u.id = inbox[1].id /\ tasks' = tasks \cup {u}
      BY <1>5, <1>9 DEF RequestEffect, StopTaskEffect, TaskOf, SameNumber
    <2>3. \A u \in tasks' : u \in tasks \/ u.id = inbox[1].id  BY <2>2
    <2>4. \A x : ~IsChunk(inbox, x, 1)  BY <2>1 DEF IsChunk
    <2>5. \A i \in DOMAIN inbox : ~IsChunk(inbox, inbox[1].id, i)
      BY <1>4, <2>1 DEF OneEach, IsChunk
    <2>6. ChunkFlow(inbox', tasks')
      <3>1. \A u \in tasks' : u.cmd = "FILE_UPLOAD" =>
              \/ \A i \in DOMAIN inbox : IsChunk(inbox, u.id, i) => FALSE
              \/ /\ ~IsChunk(inbox, u.id, 1)
                 /\ \E t \in tasks : t.cmd = "FILE_UPLOAD" /\ t.id = u.id /\ Len(t.part) = Len(u.part)
        BY <2>3, <2>4, <2>5
      <3>2. PICK us : us = tasks'  OBVIOUS
      <3> QED BY <1>1, <1>4, <2>1, <3>1, <3>2, FlowTailOther
    <2>7. ASSUME op.at = "chunk", NextChunk(n, b, inbox, tasks) PROVE NextChunk(n, b, inbox', tasks')
      <3>1. inbox[1].id # n  BY <1>8, <2>1, <2>7
      <3>2. \A u \in tasks' : u.id = n =>
              ~IsChunk(inbox, n, 1) /\ \E t \in tasks : t.id = n /\ Len(t.part) = Len(u.part)
        BY <2>3, <2>4, <3>1
      <3>3. PICK us : us = tasks'  OBVIOUS
      <3> QED BY <1>1, <2>1, <2>7, <3>2, <3>3, NextTailOther
    <2> QED BY <2>6, <2>7
  <1>10. CASE ChunkEffect
    <2>1. /\ inbox # <<>> /\ inbox' = Tail(inbox) /\ inbox[1].cmd = "CHUNK" /\ 1 \in DOMAIN inbox
          /\ Head(inbox) = inbox[1]
      BY <1>5, <1>10 DEF ChunkEffect
    <2>2. \A t \in tasks : t.seq = inbox[1].seq <=> t.id = inbox[1].id  BY <2>1, IdFacts
    <2>3. CASE tasks' \subseteq tasks /\ \A u \in tasks' : u.cmd = "FILE_UPLOAD" => u.id # inbox[1].id
      <3>0. PICK us : us = tasks'  OBVIOUS
      <3>1. \A u \in us : u.cmd = "FILE_UPLOAD" =>
              \/ \A i \in DOMAIN inbox : IsChunk(inbox, u.id, i) => FALSE
              \/ /\ ~IsChunk(inbox, u.id, 1)
                 /\ \E t \in tasks : t.cmd = "FILE_UPLOAD" /\ t.id = u.id /\ Len(t.part) = Len(u.part)
        BY <2>3, <3>0 DEF IsChunk
      <3>2. ChunkFlow(Tail(inbox), us)  BY <1>1, <1>4, <2>1, <3>1, FlowTailOther
      <3>3. ASSUME op.at = "chunk", NextChunk(n, b, inbox, tasks) PROVE NextChunk(n, b, Tail(inbox), us)
        <4>1. \A u \in us : u.id = n =>
                ~IsChunk(inbox, n, 1) /\ \E t \in tasks : t.id = n /\ Len(t.part) = Len(u.part)
          BY <1>8, <2>3, <3>0, <3>3 DEF IsChunk
        <4> QED BY <1>1, <2>1, <3>3, <4>1, NextTailOther
      <3> QED BY <2>1, <3>0, <3>2, <3>3
    <2>4. CASE \E t \in tasks : \E u :
            /\ t.seq = Head(inbox).seq /\ t.cmd = "FILE_UPLOAD"
            /\ TaskOf(u, t) /\ u.part = t.part \o Head(inbox).data
            /\ tasks' = (tasks \ {t}) \cup {u}
      <3>1. PICK t \in tasks : \E u :
            /\ t.id = inbox[1].id /\ t.cmd = "FILE_UPLOAD"
            /\ TaskOf(u, t) /\ u.part = t.part \o inbox[1].data
            /\ tasks' = (tasks \ {t}) \cup {u}
        BY <2>1, <2>2, <2>4
      <3>0. PICK u : /\ TaskOf(u, t) /\ u.part = t.part \o inbox[1].data
                     /\ tasks' = (tasks \ {t}) \cup {u}
        BY <3>1
      <3>2. u.id = t.id  BY <3>0 DEF TaskOf, SameNumber
      <3>3. IsChunk(inbox, t.id, 1)  BY <2>1, <3>1 DEF IsChunk
      <3>4. Len(u.part) = End(inbox[1])
        <4>1. inbox[1].off = Len(t.part)  BY <1>1, <1>4, <2>1, <3>1, <3>3, FirstChunk
        <4>2. inbox[1] \in MsgType /\ t.part \in Seq(Blocks)  BY <1>1, <2>1, SeqEntries
        <4>3. inbox[1].data \in Seq(Blocks)  BY <4>2 DEF MsgType
        <4>4. Len(t.part \o inbox[1].data) = Len(t.part) + Len(inbox[1].data)
          BY <4>2, <4>3, ConcatProperties
        <4> QED BY <3>0, <4>1, <4>4 DEF End
      <3>5. ChunkFlow(Tail(inbox), (tasks \ {t}) \cup {u})
        BY <1>1, <1>2, <1>4, <2>1, <3>1, <3>2, <3>3, <3>4, FlowTailOwn
      <3>6. ASSUME op.at = "chunk", NextChunk(n, b, inbox, tasks)
            PROVE  NextChunk(n, b, Tail(inbox), (tasks \ {t}) \cup {u})
        <4>1. CASE t.id = n
          <5>1. IsChunk(inbox, n, 1) /\ b \in Nat  BY <1>3, <1>6, <3>3, <4>1
          <5> QED BY <1>1, <1>2, <1>4, <2>1, <3>1, <3>2, <3>4, <3>6, <4>1, <5>1, NextTailOwn
        <4>2. CASE t.id # n
          <5>1. PICK us : us = (tasks \ {t}) \cup {u}  OBVIOUS
          <5>2. \A x \in us : x.id = n =>
                  ~IsChunk(inbox, n, 1) /\ \E y \in tasks : y.id = n /\ Len(y.part) = Len(x.part)
            BY <3>1, <3>2, <4>2, <5>1 DEF IsChunk
          <5>3. NextChunk(n, b, Tail(inbox), us)  BY <1>1, <2>1, <3>6, <5>2, NextTailOther
          <5> QED BY <5>1, <5>3
        <4> QED BY <4>1, <4>2
      <3> QED BY <2>1, <3>0, <3>5, <3>6
    <2>5. CASE \E t \in tasks : t.seq = Head(inbox).seq /\ tasks' = tasks \ {t}
      BY <1>4, <2>1, <2>2, <2>3, <2>5 DEF OneTaskEach
    <2>6. CASE (\A t \in tasks : t.cmd = "FILE_UPLOAD" => t.seq # Head(inbox).seq) /\ UNCHANGED tasks
      BY <2>1, <2>2, <2>3, <2>6
    <2> QED BY <1>10, <2>4, <2>5, <2>6 DEF ChunkEffect
  <1>11. CASE TaskEffect \/ NotifyEffect
    <2>1. inbox' = inbox  BY <1>11 DEF TaskEffect, NotifyEffect
    <2>2. \A u \in tasks' : \E t \in tasks : t.id = u.id /\ t.cmd = u.cmd /\ t.part = u.part
      <3>1. CASE TaskEffect  BY <3>1 DEF TaskEffect, TaskOf, SameNumber
      <3>2. CASE NotifyEffect  BY <3>2 DEF NotifyEffect
      <3> QED BY <1>11, <3>1, <3>2
    <2>3. ChunkFlow(inbox, tasks')
      <3>1. ASSUME NEW u \in tasks', NEW i \in DOMAIN inbox, u.cmd = "FILE_UPLOAD", IsChunk(inbox, u.id, i)
            PROVE  Reaches(inbox, u.id, i, Len(u.part), inbox[i].off)
        <4>1. PICK t \in tasks : t.id = u.id /\ t.cmd = u.cmd /\ t.part = u.part  BY <2>2
        <4>2. Reaches(inbox, t.id, i, Len(t.part), inbox[i].off)  BY <1>4, <3>1, <4>1 DEF ChunkFlow
        <4> QED BY <4>1, <4>2
      <3> QED BY <1>4, <3>1 DEF ChunkFlow
    <2>4. ASSUME NextChunk(n, b, inbox, tasks) PROVE NextChunk(n, b, inbox, tasks')
      <3>1. ASSUME NEW u \in tasks', u.id = n PROVE Reaches(inbox, n, Len(inbox) + 1, Len(u.part), b)
        <4>1. PICK t \in tasks : t.id = u.id /\ t.part = u.part  BY <2>2
        <4>2. Reaches(inbox, n, Len(inbox) + 1, Len(t.part), b)  BY <2>4, <3>1, <4>1 DEF NextChunk
        <4> QED BY <4>1, <4>2
      <3> QED BY <2>4, <3>1 DEF NextChunk
    <2> QED BY <2>1, <2>3, <2>4
  <1> QED BY <1>9, <1>10, <1>11 DEF PrinterEffect

----------------------------------------------------------------------------
(* An upload is over when the printer has stored the source.                 *)

\* An upload's answer: one that ends it is alone, and the offset it names is what its task has.
InitAt(n, ts, w) ==
    /\ \A i \in DOMAIN w : Mine(w, n, i) /\ w[i].result = "success" =>
         (\A t \in ts : t.id # n) /\ \A j \in DOMAIN w : Mine(w, n, j) => j = i
    /\ \A i \in DOMAIN w, t \in ts : Mine(w, n, i) /\ t.id = n =>
         Blank(w[i]) \/ w[i].body.off = Len(t.part)

\* While chunks are to be sent the printer has no digest, so it has not stored anything ...
NotStored(n, q, w) ==
    /\ \A i \in DOMAIN w : Mine(w, n, i) => w[i].result # "success"
    /\ \A i \in DOMAIN q : q[i].id = n => q[i].md5 = <<>>
\* ... and it says so only when it has taken up the last one.
StoredAt(n, q, w, s) ==
    /\ \A i \in DOMAIN w : Mine(w, n, i) /\ w[i].result = "success" => s = File /\ q = <<>>
    /\ \A i \in DOMAIN q : q[i].id = n /\ q[i].md5 # <<>> => i = Len(q)

UploadInv ==
    /\ op.at = "reply" /\ op.cmd = "FILE_UPLOAD" => InitAt(op.id, tasks, wire)
    /\ op.at = "chunk" => NotStored(op.id, inbox, wire)
    /\ op.at = "final" => StoredAt(op.id, inbox, wire, stored)
    /\ last.cmd = "FILE_UPLOAD" /\ last.res = "ok" => stored = File /\ inbox = <<>>

LEMMA InitOther ==
    ASSUME NEW n, NEW ts, NEW us, NEW w \in Seq(FrameType), InitAt(n, ts, w),
           \A u \in us : u.id = n => \E t \in ts : t.id = n /\ Len(t.part) = Len(u.part)
    PROVE  /\ InitAt(n, us, w)
           /\ \A f \in FrameType :
                (IsReply(f) /\ f.id = n => Blank(f) /\ f.result # "success" /\ \E t \in ts : t.id = n) =>
                   InitAt(n, us, Append(w, f))
  <1>1. InitAt(n, us, w)  BY DEF InitAt
  <1>2. ASSUME NEW f \in FrameType,
               IsReply(f) /\ f.id = n => Blank(f) /\ f.result # "success" /\ \E t \in ts : t.id = n
        PROVE  InitAt(n, us, Append(w, f))
    <2> DEFINE v == Append(w, f)
    <2>1. \A i \in DOMAIN v : (i \in DOMAIN w /\ v[i] = w[i]) \/ v[i] = f
      BY AppendEntries
    <2> HIDE DEF v
    <2>2. ASSUME NEW i \in DOMAIN v, Mine(v, n, i), v[i].result = "success"
          PROVE  (\A t \in us : t.id # n) /\ \A j \in DOMAIN v : Mine(v, n, j) => j = i
      <3>1. i \in DOMAIN w /\ v[i] = w[i] /\ Mine(w, n, i)  BY <1>2, <2>1, <2>2 DEF Mine
      <3>2. (\A t \in ts : t.id # n) /\ \A j \in DOMAIN w : Mine(w, n, j) => j = i
        BY <2>2, <3>1 DEF InitAt
      <3>3. \A j \in DOMAIN v : Mine(v, n, j) => j \in DOMAIN w /\ v[j] = w[j] /\ Mine(w, n, j)
        BY <1>2, <2>1, <3>2 DEF Mine
      <3> QED BY <3>2, <3>3
    <2>3. ASSUME NEW i \in DOMAIN v, NEW t \in us, Mine(v, n, i), t.id = n
          PROVE  Blank(v[i]) \/ v[i].body.off = Len(t.part)
      <3>1. CASE v[i] = f  BY <1>2, <2>3, <3>1 DEF Mine
      <3>2. CASE i \in DOMAIN w /\ v[i] = w[i]  BY <1>1, <2>3, <3>2 DEF InitAt, Mine
      <3> QED BY <2>1, <3>1, <3>2
    <2> QED BY <2>2, <2>3 DEF InitAt, v
  <1> QED BY <1>1, <1>2

LEMMA PrinterKeepsInit ==
    ASSUME Typed, OwnInv, WorkInv, PrinterEffect, op.at = "reply", op.cmd = "FILE_UPLOAD",
           InitAt(op.id, tasks, wire)
    PROVE  InitAt(op.id, tasks', wire')
  <1>0. PICK n : n = op.id  OBVIOUS
  <1>1. /\ wire \in Seq(FrameType) /\ inbox \in Seq(MsgType) /\ InitAt(n, tasks, wire)
    BY <1>0 DEF Typed
  <1>2. inbox # <<>> => 1 \in DOMAIN inbox /\ Head(inbox) = inbox[1]  BY <1>1, TailEntries
  <1>3. /\ \A i \in DOMAIN inbox : inbox[i].id = n => inbox[i].cmd = "FILE_UPLOAD"
        /\ \A t \in tasks : t.id = n => t.cmd = "FILE_UPLOAD"
        /\ OneEach(inbox, tasks, wire)
    BY <1>0 DEF WorkInv, OwnWork
  <1> SUFFICES InitAt(n, tasks', wire')  BY <1>0
  <1>4. ASSUME \A u \in tasks' : u.id = n => \E t \in tasks : t.id = n /\ Len(t.part) = Len(u.part),
               \/ wire' = wire
               \/ \E f \in FrameType : /\ wire' = Append(wire, f)
                                       /\ IsReply(f) /\ f.id = n =>
                                            Blank(f) /\ f.result # "success" /\ \E t \in tasks : t.id = n
        PROVE  InitAt(n, tasks', wire')
    <2>1. PICK us : us = tasks'  OBVIOUS
    <2>2. /\ InitAt(n, us, wire)
          /\ \A f \in FrameType :
               (IsReply(f) /\ f.id = n => Blank(f) /\ f.result # "success" /\ \E t \in tasks : t.id = n) =>
                  InitAt(n, us, Append(wire, f))
      BY <1>1, <1>4, <2>1, InitOther
    <2> QED BY <1>4, <2>1, <2>2
  <1>5. CASE RequestEffect
    <2>0. inbox # <<>> /\ Head(inbox).cmd \in Commands  BY <1>5 DEF RequestEffect
    <2>1. CASE Head(inbox).id = n
      <3>1. Head(inbox).cmd = "FILE_UPLOAD"  BY <1>2, <1>3, <2>0, <2>1
      <3>2. /\ \A t \in tasks : t.id # n
            /\ \A j \in DOMAIN wire : ~Mine(wire, n, j)
        BY <1>2, <1>3, <2>0, <2>1, <3>1 DEF OneEach, Mine
      <3>3. \A f \in FrameType : \A i \in DOMAIN Append(wire, f) :
              Mine(Append(wire, f), n, i) => i = Len(wire) + 1 /\ Append(wire, f)[i] = f
        <4>1. ASSUME NEW f \in FrameType, NEW i \in DOMAIN Append(wire, f), Mine(Append(wire, f), n, i)
              PROVE  i = Len(wire) + 1 /\ Append(wire, f)[i] = f
          <5>1. \/ i \in DOMAIN wire /\ Append(wire, f)[i] = wire[i]
                \/ i = Len(wire) + 1 /\ Append(wire, f)[i] = f
            BY <1>1, AppendEntries
          <5> QED BY <3>2, <4>1, <5>1 DEF Mine
        <4> QED BY <4>1
      <3>4. CASE \E f : Answer(f, Head(inbox)) /\ wire' = Append(wire, f) /\ UNCHANGED tasks
        <4>1. PICK f \in FrameType : wire' = Append(wire, f) /\ UNCHANGED tasks  BY <3>4 DEF Answer
        <4>2. \A i, j \in DOMAIN wire' : Mine(wire', n, i) /\ Mine(wire', n, j) => i = j
          BY <3>3, <4>1
        <4> QED BY <3>2, <4>1, <4>2 DEF InitAt
      <3>5. CASE \E f, u : /\ Answer(f, Head(inbox)) /\ f.result \in {"continue", "exist"}
                           /\ Blank(f) \/ f.body.off = Len(u.part)
                           /\ wire' = Append(wire, f) /\ tasks' = tasks \cup {u}
        <4>1. PICK f, u : /\ Answer(f, Head(inbox)) /\ f.result \in {"continue", "exist"}
                          /\ Blank(f) \/ f.body.off = Len(u.part)
                          /\ wire' = Append(wire, f) /\ tasks' = tasks \cup {u}
          BY <3>5
        <4>2. \A i \in DOMAIN wire' : Mine(wire', n, i) => wire'[i] = f
          BY <3>3, <4>1 DEF Answer
        <4>3. \A t \in tasks' : t.id = n => t = u  BY <3>2, <4>1
        <4> QED BY <4>1, <4>2, <4>3 DEF InitAt
      <3>6. Head(inbox).cmd \notin Streams  BY <3>1 DEF Streams
      <3> QED BY <1>5, <3>4, <3>5, <3>6 DEF RequestEffect
    <2>2. CASE Head(inbox).id # n
      <3>1. \A f : Answer(f, Head(inbox)) => f \in FrameType /\ f.id # n
        BY <2>2 DEF Answer, SameNumber
      <3>2. \A u : TaskOf(u, Head(inbox)) => u.id # n
        BY <2>2 DEF TaskOf, SameNumber
      <3>3. \A u \in tasks' : u.id = n => u \in tasks
        BY <1>5, <3>2 DEF RequestEffect
      <3>4. wire' = wire \/ \E f \in FrameType : wire' = Append(wire, f) /\ f.id # n
        BY <1>5, <3>1 DEF RequestEffect
      <3> QED BY <1>4, <3>3, <3>4
    <2> QED BY <2>1, <2>2
  <1>6. CASE ChunkEffect
    <2>1. inbox # <<>> /\ Head(inbox).id # n  BY <1>2, <1>3, <1>6 DEF ChunkEffect
    <2>2. \A t \in tasks : t.seq = Head(inbox).seq => t.id # n  BY <2>1, IdFacts
    <2>3. \A u, t : t \in tasks /\ t.seq = Head(inbox).seq /\ TaskOf(u, t) => u.id # n
      BY <2>2 DEF TaskOf, SameNumber
    <2>4. \A f, t : t \in tasks /\ t.seq = Head(inbox).seq /\ Answer(f, t) => f \in FrameType /\ f.id # n
      BY <2>2 DEF Answer, SameNumber
    <2>5. \A u \in tasks' : u.id = n => u \in tasks  BY <1>6, <2>3 DEF ChunkEffect
    <2>6. wire' = wire \/ \E f \in FrameType : wire' = Append(wire, f) /\ f.id # n
      BY <1>6, <2>4 DEF ChunkEffect
    <2> QED BY <1>4, <2>5, <2>6
  <1>7. CASE StopTaskEffect
    <2>1. Head(inbox).id # n  BY <1>2, <1>3, <1>7 DEF StopTaskEffect
    <2>2. \A f : Answer(f, Head(inbox)) => f \in FrameType /\ f.id # n
      BY <2>1 DEF Answer, SameNumber
    <2>3. tasks' \subseteq tasks  BY <1>7 DEF StopTaskEffect
    <2>4. wire' = wire \/ \E f \in FrameType : wire' = Append(wire, f) /\ f.id # n
      BY <1>7, <2>2 DEF StopTaskEffect
    <2> QED BY <1>4, <2>3, <2>4
  <1>8. CASE TaskEffect
    <2>1. PICK t \in tasks, f \in FrameType :
            /\ Answer(f, t) /\ wire' = Append(wire, f)
            /\ t.cmd = "FILE_UPLOAD" => Blank(f) /\ f.result = "continue"
            /\ \/ tasks' = tasks \ {t}
               \/ \E u : TaskOf(u, t) /\ u.part = t.part /\ tasks' = (tasks \ {t}) \cup {u}
      BY <1>8 DEF TaskEffect, Answer
    <2>2. f.id = t.id /\ \A u : TaskOf(u, t) => u.id = t.id
      BY <2>1 DEF Answer, TaskOf, SameNumber
    <2>3. \A u \in tasks' : u.id = n => \E x \in tasks : x.id = n /\ Len(x.part) = Len(u.part)
      BY <2>1, <2>2
    <2>4. f.id = n => Blank(f) /\ f.result # "success" /\ \E x \in tasks : x.id = n
      BY <1>3, <2>1, <2>2
    <2> QED BY <1>4, <2>1, <2>3, <2>4
  <1>9. CASE NotifyEffect
    BY <1>4, <1>9 DEF NotifyEffect
  <1> QED BY <1>5, <1>6, <1>7, <1>8, <1>9 DEF PrinterEffect

LEMMA PrinterKeepsUpload ==
    ASSUME Typed, OwnInv, WorkInv, ChunkInv, UploadInv, PrinterEffect
    PROVE  UploadInv'
  <1>1. /\ inbox \in Seq(MsgType) /\ wire \in Seq(FrameType) /\ UNCHANGED <<op, last>>
    BY DEF Typed, PrinterEffect, PrinterKeepsRest, client
  <1>2. inbox # <<>> => 1 \in DOMAIN inbox /\ Head(inbox) = inbox[1]  BY <1>1, TailEntries
  <1>3. PICK n : n = op.id  OBVIOUS
  <1>4. inbox = <<>> => UNCHANGED <<inbox, stored>>
    BY DEF PrinterEffect, RequestEffect, ChunkEffect, StopTaskEffect, TaskEffect, NotifyEffect
  <1>5. inbox' = inbox \/ (inbox # <<>> /\ inbox' = Tail(inbox))
    BY DEF PrinterEffect, RequestEffect, ChunkEffect, StopTaskEffect, TaskEffect, NotifyEffect
  <1>6. ASSUME op.at \in {"chunk", "final"}
        PROVE  \/ wire' = wire
               \/ \E f \in FrameType :
                    /\ wire' = Append(wire, f)
                    /\ IsReply(f) /\ f.id = n /\ f.result = "success" =>
                         /\ inbox # <<>> /\ inbox' = Tail(inbox) /\ inbox[1].id = n
                         /\ inbox[1].md5 # <<>> /\ stored' = inbox[1].md5 /\ inbox[1].cmd = "CHUNK"
    <2>1. /\ \A i \in DOMAIN inbox : inbox[i].id = n => inbox[i].cmd = "CHUNK"
          /\ \A t \in tasks : t.id = n => t.cmd = "FILE_UPLOAD"
      BY <1>3, <1>6 DEF WorkInv, OwnWork
    <2>2. \A f, x : Answer(f, x) => f \in FrameType /\ f.id = x.id  BY DEF Answer, SameNumber
    <2>3. CASE RequestEffect \/ StopTaskEffect
      <3>1. inbox # <<>> /\ Head(inbox).id # n
        BY <1>2, <2>1, <2>3 DEF RequestEffect, StopTaskEffect, Commands, Singles, Streams
      <3> QED BY <2>2, <2>3, <3>1 DEF RequestEffect, StopTaskEffect
    <2>4. CASE ChunkEffect
      <3>1. /\ inbox # <<>> /\ inbox' = Tail(inbox) /\ Head(inbox) = inbox[1] /\ inbox[1].cmd = "CHUNK"
        BY <1>2, <2>4 DEF ChunkEffect
      <3>2. \A t \in tasks : t.seq = inbox[1].seq => t.id = inbox[1].id  BY <3>1, IdFacts
      <3>3. CASE wire' = wire  BY <3>3
      <3>4. CASE \E t \in tasks : \E f :
              /\ t.seq = Head(inbox).seq /\ Answer(f, t) /\ wire' = Append(wire, f)
              /\ f.result = "success" => Head(inbox).md5 # <<>> /\ stored' = Head(inbox).md5
        BY <2>2, <3>1, <3>2, <3>4
      <3> QED BY <2>4, <3>3, <3>4 DEF ChunkEffect
    <2>5. CASE TaskEffect
      <3>1. PICK t \in tasks, f \in FrameType :
              /\ Answer(f, t) /\ wire' = Append(wire, f)
              /\ t.cmd = "FILE_UPLOAD" => f.result = "continue"
        BY <2>5 DEF TaskEffect, Answer
      <3>2. ~(f.id = n /\ f.result = "success")  BY <2>1, <2>2, <3>1
      <3> QED BY <3>1, <3>2
    <2>6. CASE NotifyEffect  BY <2>6 DEF NotifyEffect
    <2> QED BY <2>3, <2>4, <2>5, <2>6 DEF PrinterEffect
  <1>7. \A f \in FrameType : \A i \in DOMAIN Append(wire, f) :
          (i \in DOMAIN wire /\ Append(wire, f)[i] = wire[i]) \/ Append(wire, f)[i] = f
    BY <1>1, AppendEntries
  <1>8. ASSUME op.at = "chunk" PROVE NotStored(n, inbox', wire')
    <2>1. NotStored(n, inbox, wire)  BY <1>3, <1>8 DEF UploadInv
    <2>2. \A i \in DOMAIN inbox' : \E j \in DOMAIN inbox : inbox'[i] = inbox[j]
      BY <1>1, <1>5, TailEntries
    <2>3. \A i \in DOMAIN inbox' : inbox'[i].id = n => inbox'[i].md5 = <<>>
      BY <2>1, <2>2 DEF NotStored
    <2>4. CASE wire' = wire  BY <2>1, <2>3, <2>4 DEF NotStored
    <2>5. CASE \E f \in FrameType : wire' = Append(wire, f)
                 /\ ~(IsReply(f) /\ f.id = n /\ f.result = "success")
      <3>1. PICK f \in FrameType : wire' = Append(wire, f)
                 /\ ~(IsReply(f) /\ f.id = n /\ f.result = "success")
        BY <2>5
      <3>2. \A i \in DOMAIN wire' : (i \in DOMAIN wire /\ wire'[i] = wire[i]) \/ wire'[i] = f
        BY <1>7, <3>1
      <3>3. \A i \in DOMAIN wire' : Mine(wire', n, i) => wire'[i].result # "success"
        BY <2>1, <3>1, <3>2 DEF NotStored, Mine
      <3> QED BY <2>3, <3>3 DEF NotStored
    <2>6. inbox # <<>> /\ inbox[1].id = n => inbox[1].md5 = <<>>  BY <1>2, <2>1 DEF NotStored
    <2>7. CASE wire' # wire
      <3>1. PICK f \in FrameType :
              /\ wire' = Append(wire, f)
              /\ IsReply(f) /\ f.id = n /\ f.result = "success" =>
                   inbox # <<>> /\ inbox[1].id = n /\ inbox[1].md5 # <<>>
        BY <1>6, <1>8, <2>7
      <3>2. ~(IsReply(f) /\ f.id = n /\ f.result = "success")  BY <2>6, <3>1
      <3> QED BY <2>5, <3>1, <3>2
    <2> QED BY <2>4, <2>7
  <1>9. ASSUME op.at = "final" PROVE StoredAt(n, inbox', wire', stored')
    <2>1. StoredAt(n, inbox, wire, stored)  BY <1>3, <1>9 DEF UploadInv
    <2>2. ASSUME NEW i \in DOMAIN inbox', inbox'[i].id = n, inbox'[i].md5 # <<>> PROVE i = Len(inbox')
      <3>1. CASE inbox' = inbox  BY <2>1, <2>2, <3>1 DEF StoredAt
      <3>2. CASE inbox # <<>> /\ inbox' = Tail(inbox)
        <4>1. i + 1 \in DOMAIN inbox /\ inbox'[i] = inbox[i + 1] /\ i \in Nat
          BY <1>1, <2>2, <3>2, TailIndex
        <4>2. i + 1 = Len(inbox)  BY <2>1, <2>2, <4>1 DEF StoredAt
        <4>3. Len(inbox') + 1 = Len(inbox) /\ Len(inbox') \in Nat
          BY <1>1, <3>2, TailIndex, TailEntries, LenProperties
        <4> QED BY <4>1, <4>2, <4>3
      <3> QED BY <1>5, <3>1, <3>2
    <2>3. ASSUME NEW i \in DOMAIN wire', Mine(wire', n, i), wire'[i].result = "success"
          PROVE  stored' = File /\ inbox' = <<>>
      <3>1. CASE i \in DOMAIN wire /\ wire'[i] = wire[i]
        <4>1. stored = File /\ inbox = <<>>  BY <2>1, <2>3, <3>1 DEF StoredAt, Mine
        <4> QED BY <1>4, <4>1
      <3>2. CASE ~(i \in DOMAIN wire /\ wire'[i] = wire[i])
        <4>1. /\ inbox # <<>> /\ inbox' = Tail(inbox) /\ inbox[1].id = n
              /\ inbox[1].md5 # <<>> /\ stored' = inbox[1].md5 /\ inbox[1].cmd = "CHUNK"
          <5>1. wire' # wire  BY <2>3, <3>2
          <5>2. PICK f \in FrameType :
                  /\ wire' = Append(wire, f)
                  /\ IsReply(f) /\ f.id = n /\ f.result = "success" =>
                       /\ inbox # <<>> /\ inbox' = Tail(inbox) /\ inbox[1].id = n
                       /\ inbox[1].md5 # <<>> /\ stored' = inbox[1].md5 /\ inbox[1].cmd = "CHUNK"
            BY <1>6, <1>9, <5>1
          <5>3. (i \in DOMAIN wire /\ Append(wire, f)[i] = wire[i]) \/ Append(wire, f)[i] = f
            <6>1. i \in DOMAIN Append(wire, f)  BY <2>3, <5>2
            <6> QED BY <1>7, <6>1
          <5>4. wire'[i] = f  BY <3>2, <5>2, <5>3
          <5>5. IsReply(f) /\ f.id = n /\ f.result = "success"  BY <2>3, <5>4 DEF Mine
          <5> QED BY <5>2, <5>5
        <4>2. 1 \in DOMAIN inbox  BY <1>2, <4>1
        <4>3. 1 = Len(inbox)  BY <2>1, <4>1, <4>2 DEF StoredAt
        <4>4. inbox' = <<>>
          <5>1. Tail(inbox) \in Seq(MsgType)  BY <1>1, <4>1, TailEntries
          <5>2. Len(Tail(inbox)) + 1 = Len(inbox) /\ Len(Tail(inbox)) \in Nat
            BY <1>1, <4>1, <5>1, TailIndex, LenProperties
          <5>3. Len(Tail(inbox)) = 0  BY <4>3, <5>2
          <5> QED BY <4>1, <5>1, <5>3, EmptySeq
        <4>5. SoundChunk(inbox[1])  BY <4>1, <4>2 DEF ChunkInv, ChunkFlow
        <4> QED BY <4>1, <4>4, <4>5 DEF SoundChunk
      <3> QED BY <3>1, <3>2
    <2> QED BY <2>2, <2>3 DEF StoredAt
  <1>10. op.at = "reply" /\ op.cmd = "FILE_UPLOAD" => InitAt(n, tasks', wire')
    BY <1>3, PrinterKeepsInit DEF UploadInv
  <1>11. last.cmd = "FILE_UPLOAD" /\ last.res = "ok" => stored' = File /\ inbox' = <<>>
    BY <1>4 DEF UploadInv
  <1> QED BY <1>1, <1>3, <1>8, <1>9, <1>10, <1>11 DEF UploadInv

----------------------------------------------------------------------------
(* The steps of the client.                                                  *)

\* What an operation returned is what it did, as far as it reads.
Delivered(l, g, d) ==
    /\ l.res = "ok" /\ l.cmd \in {"FILE_DOWNLOAD", "MEM_DOWNLOAD"} => g = File
    /\ l.res = "ok" /\ l.cmd = "SUB_FILE" /\ d = 0 => g = File
    /\ l.cmd \in {"MEM_DOWNLOAD", "SUB_FILE"} => Len(g) <= l.max

\* Nothing is returned yet while an operation runs; only a member read can end well by a cancel;
\* and no digest in transit is one that a wrong content matches.
RunInv ==
    /\ op.at = "idle" => op = Idle
    /\ op.at # "idle" => last = NoOutcome
    /\ op.at \in {"send", "reply"} => op.index = 0
    /\ op.at \in {"csend", "creply"} /\ op.ret = "ok" => op.cmd = "SUB_FILE"
    /\ op.cmd \in {"MEM_DOWNLOAD", "SUB_FILE"} => op.max \in Nat /\ Len(got) <= op.max
    /\ \A i \in DOMAIN wire : SoundDigest(wire[i])
    /\ Delivered(last, got, defects)

TransferInv == WorkInv /\ RunInv /\ MemberInv /\ UploadInv /\ ChunkInv

LEMMA IdleFacts ==
    /\ Idle.at = "idle" /\ Idle.cmd = "none"
    /\ NoOutcome.cmd = "none" /\ NoOutcome.res = "none"
  BY DEF Idle, NoOutcome

LEMMA TailDigests ==
    ASSUME NEW w \in Seq(FrameType), w # <<>>, \A i \in DOMAIN w : SoundDigest(w[i])
    PROVE  \A i \in DOMAIN Tail(w) : SoundDigest(Tail(w)[i])
  BY TailEntries

\* The printer.
LEMMA PrinterKeepsRun ==
    ASSUME Typed, RunInv, PrinterEffect
    PROVE  RunInv'
  <1>1. /\ UNCHANGED <<op, got, last>> /\ defects' \in Nat /\ defects \in Nat /\ defects <= defects'
        /\ wire \in Seq(FrameType)
    BY FileTunnelConstants DEF Typed, PrinterEffect, PrinterKeepsRest, CountKept, client
  <1>2. wire' = wire \/ \E f \in FrameType : SoundDigest(f) /\ wire' = Append(wire, f)
    BY DEF PrinterEffect, RequestEffect, ChunkEffect, StopTaskEffect, TaskEffect, NotifyEffect, Answer
  <1>3. \A i \in DOMAIN wire' : SoundDigest(wire'[i])
    <2>1. CASE wire' = wire  BY <2>1 DEF RunInv
    <2>2. CASE \E f \in FrameType : SoundDigest(f) /\ wire' = Append(wire, f)
      <3>1. PICK f \in FrameType : SoundDigest(f) /\ wire' = Append(wire, f)  BY <2>2
      <3>2. \A i \in DOMAIN wire' : (i \in DOMAIN wire /\ wire'[i] = wire[i]) \/ wire'[i] = f
        BY <1>1, <3>1, AppendEntries
      <3> QED BY <3>1, <3>2 DEF RunInv
    <2> QED BY <1>2, <2>1, <2>2
  <1>4. defects' = 0 => defects = 0  BY <1>1
  <1>5. Delivered(last', got', defects')  BY <1>1, <1>4 DEF RunInv, Delivered
  <1> QED BY <1>1, <1>3, <1>5 DEF RunInv

LEMMA PrinterKeepsTransfers ==
    ASSUME Typed, OwnInv, TransferInv, PrinterEffect
    PROVE  TransferInv'
  <1>1. RunInv' /\ MemberInv' /\ UploadInv' /\ ChunkInv'
    BY PrinterKeepsRun, PrinterKeepsMember, PrinterKeepsUpload, PrinterKeepsChunks DEF TransferInv
  <1>2. PICK o, p, us, v : o = op /\ p = inbox' /\ us = tasks' /\ v = wire'  OBVIOUS
  <1>3. op' = op /\ OneEach(inbox, tasks, wire) /\ OwnWork(o, inbox, tasks, wire)
    BY <1>2 DEF TransferInv, WorkInv, PrinterEffect, PrinterKeepsRest, client
  <1>4. PICK d : Moves(d, p, us, v, inbox, tasks, wire) /\ OneTaskEach(us)
    BY <1>2, <1>3, PrinterMoves
  <1>5. OneEach(p, us, v) /\ OwnWork(o, p, us, v)
    BY <1>3, <1>4, MovesKeepWork
  <1> QED BY <1>1, <1>2, <1>3, <1>5 DEF TransferInv, WorkInv

\* A new stream: nothing is on it.
LEMMA FreshKeepsTransfers ==
    ASSUME op' = Idle, last' = NoOutcome, inbox' = <<>>, wire' = <<>>, tasks' = {}
    PROVE  TransferInv'
  <1>1. DOMAIN <<>> = {}  BY EmptySeq, LenProperties
  <1>2. WorkInv'
    BY <1>1, IdleFacts DEF WorkInv, OneEach, OneTaskEach, OwnWork
  <1>3. RunInv'
    BY <1>1, IdleFacts DEF RunInv, Delivered
  <1>4. MemberInv' /\ UploadInv'
    BY IdleFacts DEF MemberInv, UploadInv
  <1>5. ChunkInv'
    BY <1>1, IdleFacts DEF ChunkInv, ChunkFlow
  <1> QED BY <1>2, <1>3, <1>4, <1>5 DEF TransferInv

\* A request begins.
LEMMA RequestKeepsTransfers ==
    ASSUME Typed, OwnInv, TransferInv, Request
    PROVE  TransferInv'
  <1>1. PICK cmd, max : /\ Start(cmd, max)
                        /\ cmd \in {"MEM_DOWNLOAD", "SUB_FILE"} => max \in Nat
    BY FileTunnelConstants DEF Request, Commands, Singles, Streams
  <1>2. /\ op' = [Idle EXCEPT !.at = "send", !.cmd = cmd, !.seq = next_sequence,
                              !.id = asked + 1, !.max = max]
        /\ got' = <<>> /\ last' = NoOutcome
        /\ UNCHANGED <<inbox, tasks, stored, wire, torn, defects>>
    BY <1>1 DEF Start, printer
  <1>3. op'.at = "send" /\ op'.cmd = cmd /\ op'.id = asked + 1 /\ op'.max = max /\ op'.index = 0
    BY <1>2 DEF Idle
  <1>4. WorkInv'
    <2>1. Untouched(asked + 1, inbox, tasks, wire)  BY NewIsUntouched
    <2> QED BY <1>2, <1>3, <2>1 DEF TransferInv, WorkInv, OwnWork
  <1>5. RunInv'
    <2>1. Len(<<>>) = 0  BY EmptySeq
    <2>2. \A n \in Nat : 0 <= n  OBVIOUS
    <2> QED BY <1>1, <1>2, <1>3, <2>1, <2>2, IdleFacts DEF TransferInv, RunInv, Delivered
  <1>6. MemberInv' /\ UploadInv' /\ ChunkInv'
    BY <1>2, <1>3, IdleFacts DEF TransferInv, MemberInv, UploadInv, ChunkInv
  <1> QED BY <1>4, <1>5, <1>6 DEF TransferInv

LEMMA FilePart ==
    ASSUME NEW a \in Nat, NEW e \in Nat, a <= e, e <= FileLen
    PROVE  /\ SubSeq(File, a + 1, e) \in Seq(Blocks) /\ Len(SubSeq(File, a + 1, e)) = e - a
           /\ \A k \in 1..(e - a) : SubSeq(File, a + 1, e)[k] = File[a + k]
  <1>1. \A i \in (a + 1)..e : File[i] \in Blocks
    BY FileTunnelConstants DEF File, Blocks
  <1>2. PICK m \in Int : m = a + 1  OBVIOUS
  <1>3. e \in Int /\ \A i \in m..e : File[i] \in Blocks  BY <1>1, <1>2
  <1>4. /\ SubSeq(File, m, e) \in Seq(Blocks)
        /\ Len(SubSeq(File, m, e)) = IF m <= e THEN e - m + 1 ELSE 0
        /\ \A i \in 1..(e - m + 1) : SubSeq(File, m, e)[i] = File[m + i - 1]
    BY <1>3, SubSeqProperties
  <1>5. /\ (IF m <= e THEN e - m + 1 ELSE 0) = e - a /\ e - m + 1 = e - a
        /\ \A k \in 1..(e - a) : m + k - 1 = a + k
    BY <1>2
  <1> QED BY <1>2, <1>4, <1>5

LEMMA WholeFile == SubSeq(File, 1, FileLen) = File
  <1>1. 0 \in Nat /\ FileLen \in Nat /\ 0 <= FileLen /\ FileLen <= FileLen /\ 0 + 1 = 1 /\ FileLen - 0 = FileLen
        /\ \A k \in 1..FileLen : 0 + k = k
    BY FileTunnelConstants
  <1>2. /\ SubSeq(File, 0 + 1, FileLen) \in Seq(Blocks) /\ Len(SubSeq(File, 0 + 1, FileLen)) = FileLen - 0
        /\ \A k \in 1..(FileLen - 0) : SubSeq(File, 0 + 1, FileLen)[k] = File[0 + k]
    BY <1>1, FilePart
  <1>3. /\ SubSeq(File, 1, FileLen) \in Seq(Blocks) /\ Len(SubSeq(File, 1, FileLen)) = FileLen
        /\ \A k \in 1..FileLen : SubSeq(File, 1, FileLen)[k] = File[k]
    BY <1>1, <1>2
  <1> QED BY <1>3, FileSeq, SeqEqual

\* The chunk that is written follows the ones before it, and the last one ends the source.
LEMMA ChunkOut ==
    ASSUME Typed, op.at = "chunk", Sending(op, inbox, tasks)
    PROVE  /\ SoundChunk(Outgoing) /\ NextChunk(Outgoing.id, Outgoing.off, inbox, tasks)
           /\ op.index # chunk_count(op.start, op.len) - 1 =>
                /\ Outgoing.md5 = <<>> /\ End(Outgoing) = op.start + (op.index + 1) * op.len
                /\ op.index + 1 <= chunk_count(op.start, op.len) - 1
  <1> DEFINE offset == op.start + op.index * op.len
             end == IF offset + op.len > FileLen THEN FileLen ELSE offset + op.len
             final == op.index = chunk_count(op.start, op.len) - 1
             md5 == IF final THEN Digest(op.start, end) ELSE <<>>
  <1>1. /\ op.start \in Nat /\ op.index \in Nat /\ op.len \in Nat /\ op.start < FileLen
        /\ op.len \in Nat \ {0} /\ op.index <= chunk_count(op.start, op.len) - 1 /\ FileLen \in Nat
    BY FileTunnelConstants DEF Typed, OpType, Sending
  <1>2. /\ chunk_count(op.start, op.len) \in Nat /\ op.index * op.len \in Nat /\ offset < FileLen
        /\ final => offset + op.len >= FileLen
        /\ ~final => offset + op.len < FileLen /\ offset + op.len = op.start + (op.index + 1) * op.len
    BY <1>1, ChunkArithmetic
  <1>3. offset \in Nat  BY <1>1, <1>2
  <1>4. ~final => op.index + 1 <= chunk_count(op.start, op.len) - 1
    <2>1. PICK c \in Nat : c = chunk_count(op.start, op.len)  BY <1>2
    <2> QED BY <1>1, <2>1
  <1>5. Outgoing = [Message("CHUNK") EXCEPT !.off = offset, !.data = SubSeq(File, offset + 1, end), !.md5 = md5]
    BY DEF Outgoing, Chunk
  <1>6. final <=> op.index = chunk_count(op.start, op.len) - 1  OBVIOUS
  <1>7. offset = Position(op)  BY DEF Position
  <1> HIDE DEF offset, final
  <1>8. end \in Nat /\ offset < end /\ end <= FileLen /\ offset <= end
        /\ (final => end = FileLen) /\ (~final => end = offset + op.len)
    BY <1>1, <1>2, <1>3
  <1>9. md5 = <<>> \/ (final /\ md5 = SubSeq(File, 1, end))  BY DEF Digest
  <1>10. ~final => md5 = <<>>  OBVIOUS
  <1> HIDE DEF end, md5
  <1>11. /\ Outgoing.off = offset /\ Outgoing.data = SubSeq(File, offset + 1, end) /\ Outgoing.md5 = md5
         /\ Outgoing.id = op.id
    BY <1>5 DEF Message
  <1>12. Len(Outgoing.data) = end - offset  BY <1>3, <1>8, <1>11, FilePart
  <1>13. End(Outgoing) = end /\ Len(Outgoing.data) >= 1  BY <1>3, <1>8, <1>11, <1>12 DEF End
  <1>14. md5 = <<>> \/ (md5 = File /\ end = FileLen)  BY <1>8, <1>9, WholeFile
  <1>15. SoundChunk(Outgoing)  BY <1>8, <1>11, <1>13, <1>14 DEF SoundChunk
  <1>16. NextChunk(Outgoing.id, Outgoing.off, inbox, tasks)  BY <1>7, <1>11 DEF Sending
  <1>17. ~final => End(Outgoing) = op.start + (op.index + 1) * op.len  BY <1>2, <1>8, <1>13
  <1> QED BY <1>4, <1>6, <1>10, <1>11, <1>15, <1>16, <1>17

\* The inbox gets what is written.
LEMMA WrittenFlow ==
    ASSUME Typed, Writing, ChunkInv, "up" \notin torn
    PROVE  ChunkFlow(Append(inbox, Outgoing), tasks)
  <1>1. inbox \in Seq(MsgType) /\ ChunkFlow(inbox, tasks)  BY DEF Typed, ChunkInv
  <1>2. PICK m \in MsgType : m = Outgoing  BY OutgoingType
  <1>3. m.cmd = "CHUNK" => SoundChunk(m) /\ NextChunk(m.id, m.off, inbox, tasks)
    <2>1. CASE op.at = "chunk"  BY <1>2, <2>1, ChunkOut DEF ChunkInv
    <2>2. CASE op.at # "chunk"
      <3>1. m.cmd = op.cmd \/ m.cmd = "TASK_CANCEL"  BY <1>2, <2>2, OutgoingType DEF Writing
      <3>2. op.cmd \in Commands  BY DEF Typed, Writing
      <3> QED BY <3>1, <3>2 DEF Commands, Singles, Streams
    <2> QED BY <2>1, <2>2
  <1> QED BY <1>1, <1>2, <1>3, FlowAppend

\* The operation is over.
LEMMA EndKeepsTransfers ==
    ASSUME Typed, TransferInv, op' = Idle, Delivered(last', got', defects'),
           last'.cmd = "FILE_UPLOAD" /\ last'.res = "ok" => stored' = File /\ inbox' = <<>>,
           UNCHANGED tasks,
           \/ UNCHANGED <<inbox, wire>>
           \/ UNCHANGED inbox /\ wire # <<>> /\ wire' = Tail(wire)
           \/ UNCHANGED wire /\ Writing /\ "up" \notin torn /\ inbox' = Append(inbox, Outgoing)
    PROVE  TransferInv'
  <1>1. inbox \in Seq(MsgType) /\ wire \in Seq(FrameType)  BY DEF Typed
  <1>2. PICK o : o = op /\ OneEach(inbox, tasks, wire) /\ OwnWork(o, inbox, tasks, wire)
    BY DEF TransferInv, WorkInv
  <1>3. PICK o2 : o2 = Idle  OBVIOUS
  <1>4. o2.at = "idle" /\ op'.at = "idle" /\ op'.cmd = "none"  BY <1>3, IdleFacts
  <1>5. \A q, ts, w : OwnWork(op', q, ts, w)  BY <1>4 DEF OwnWork
  <1>6. RunInv'
    <2>1. \A i \in DOMAIN wire' : SoundDigest(wire'[i])
      BY <1>1, TailDigests DEF TransferInv, RunInv
    <2> QED BY <1>4, <2>1 DEF RunInv
  <1>7. MemberInv' /\ UploadInv'  BY <1>4 DEF MemberInv, UploadInv
  <1>8. WorkInv'
    <2>1. CASE UNCHANGED <<inbox, wire>>  BY <1>2, <1>5, <2>1 DEF WorkInv
    <2>2. CASE UNCHANGED inbox /\ wire # <<>> /\ wire' = Tail(wire)
      <3>1. OneEach(inbox, tasks, Tail(wire))  BY <1>1, <1>2, <2>2, TailKeepsWork
      <3> QED BY <1>5, <2>2, <3>1 DEF WorkInv
    <2>3. CASE UNCHANGED wire /\ Writing /\ inbox' = Append(inbox, Outgoing)
      <3>1. PICK m \in MsgType : m = Outgoing  BY <2>3, OutgoingType
      <3>2. /\ m.id = o.id
            /\ \/ o.at = "send" /\ m.cmd = o.cmd
               \/ o.at = "csend" /\ m.cmd = "TASK_CANCEL"
               \/ o.at = "chunk" /\ m.cmd = "CHUNK"
        BY <1>2, <2>3, <3>1, OutgoingType DEF Writing
      <3>3. OneEach(Append(inbox, m), tasks, wire)
        BY <1>1, <1>2, <1>4, <3>2, WrittenKeepsWork
      <3> QED BY <1>5, <2>3, <3>1, <3>3 DEF WorkInv
    <2> QED BY <2>1, <2>2, <2>3
  <1>9. ChunkInv'
    <2>1. ChunkFlow(inbox', tasks')
      BY WrittenFlow DEF TransferInv, ChunkInv
    <2> QED BY <1>4, <2>1 DEF ChunkInv
  <1> QED BY <1>6, <1>7, <1>8, <1>9 DEF TransferInv

\* An operation that returns without a frame that says it is done.
LEMMA ReturnDelivers ==
    ASSUME RunInv, MemberInv, op.at # "idle", NEW res, Return(res), UNCHANGED <<got, defects>>,
           res = "ok" => op.cmd \in Singles \/ (op.at \in {"csend", "creply"} /\ op.ret = "ok")
    PROVE  /\ op' = Idle /\ Delivered(last', got', defects')
           /\ ~(last'.cmd = "FILE_UPLOAD" /\ last'.res = "ok")
  <1>1. op' = Idle /\ last'.cmd = op.cmd /\ last'.res = res /\ last'.max = op.max  BY DEF Return
  <1>2. CASE res # "ok"  BY <1>1, <1>2 DEF Delivered, RunInv
  <1>3. CASE op.cmd \in Singles
    BY <1>1, <1>3 DEF Delivered, Singles
  <1>4. CASE op.at \in {"csend", "creply"} /\ op.ret = "ok"
    <2>1. op.cmd = "SUB_FILE" /\ (defects = 0 => got = File)  BY <1>4 DEF RunInv, MemberInv
    <2> QED BY <1>1, <2>1 DEF Delivered, RunInv
  <1> QED BY <1>2, <1>3, <1>4

LEMMA BrokenDelivers ==
    ASSUME RunInv, MemberInv, op.at # "idle", Broken, UNCHANGED <<got, defects>>
    PROVE  /\ op' = Idle /\ Delivered(last', got', defects')
           /\ ~(last'.cmd = "FILE_UPLOAD" /\ last'.res = "ok")
  <1>1. CASE op.at \in {"csend", "creply"}
    <2>1. Return(op.ret)  BY <1>1 DEF Broken, Poison
    <2> QED BY <1>1, <2>1, ReturnDelivers
  <1>2. CASE op.at \notin {"csend", "creply"}
    <2>1. Return("err")  BY <1>2 DEF Broken, Poison
    <2> QED BY <2>1, ReturnDelivers
  <1> QED BY <1>1, <1>2

\* A write, a read or the source fails, or the operation is dropped.
LEMMA BrokenKeepsTransfers ==
    ASSUME Typed, TransferInv, WriteFailed \/ ReadFailed \/ (SourceFailed /\ op.index # 0) \/ Drop
    PROVE  TransferInv'
  <1>0. RunInv /\ MemberInv  BY DEF TransferInv
  <1>1. CASE WriteFailed
    <2>1. op.at # "idle" /\ Broken /\ UNCHANGED <<got, defects, inbox, tasks, stored, wire>>
      BY <1>1 DEF WriteFailed, Writing
    <2> QED BY <1>0, <2>1, BrokenDelivers, EndKeepsTransfers
  <1>2. CASE ReadFailed
    <2>1. op.at # "idle" /\ Broken /\ UNCHANGED <<got, defects, inbox, tasks, stored, wire>>
      BY <1>2 DEF ReadFailed, Reading, printer
    <2> QED BY <1>0, <2>1, BrokenDelivers, EndKeepsTransfers
  <1>3. CASE SourceFailed /\ op.index # 0
    <2>1. op.at # "idle" /\ Return("err") /\ UNCHANGED <<got, defects, inbox, tasks, stored, wire>>
      BY <1>3 DEF SourceFailed, Poison, printer
    <2>2. op' = Idle /\ Delivered(last', got', defects') /\ ~(last'.cmd = "FILE_UPLOAD" /\ last'.res = "ok")
      BY <1>0, <2>1, ReturnDelivers
    <2> QED BY <2>1, <2>2, EndKeepsTransfers
  <1>4. CASE Drop
    <2>1. op' = Idle /\ last' = NoOutcome /\ UNCHANGED <<got, tasks, stored, wire, defects>>
      BY <1>4 DEF Drop
    <2>2. Delivered(last', got', defects') /\ ~(last'.cmd = "FILE_UPLOAD" /\ last'.res = "ok")
      BY <2>1, IdleFacts DEF Delivered
    <2>3. UNCHANGED inbox \/ (Writing /\ "up" \notin torn /\ inbox' = Append(inbox, Outgoing))
      BY <1>4 DEF Drop, Deliver
    <2> QED BY <2>1, <2>2, <2>3, EndKeepsTransfers
  <1> QED BY <1>1, <1>2, <1>3, <1>4

\* A stream is stopped: the cancel is a new request.
LEMMA AbandonKeepsTransfers ==
    ASSUME Typed, OwnInv, TransferInv, NEW res, abandon(res), op.at # "idle",
           UNCHANGED <<inbox, tasks, stored, defects>>,
           op.cmd \in {"MEM_DOWNLOAD", "SUB_FILE"} => Len(got') <= op.max,
           res = "ok" => op.cmd = "SUB_FILE" /\ (defects = 0 => got' = File),
           wire' = wire \/ (wire # <<>> /\ wire' = Tail(wire))
    PROVE  TransferInv'
  <1>1. inbox \in Seq(MsgType) /\ wire \in Seq(FrameType) /\ op \in OpType  BY DEF Typed
  <1>2. /\ op' = [op EXCEPT !.at = "csend", !.task = op.seq, !.seq = next_sequence,
                            !.id = asked + 1, !.skipped = 0, !.ret = res]
        /\ last' = last
    BY DEF abandon
  <1>3. op'.at = "csend" /\ op'.id = asked + 1 /\ op'.cmd = op.cmd /\ op'.max = op.max /\ op'.ret = res
    BY <1>1, <1>2 DEF OpType
  <1>4. WorkInv'
    <2>1. PICK o : o = op'  OBVIOUS
    <2>2. OneEach(inbox, tasks, wire)  BY DEF TransferInv, WorkInv
    <2>3. Untouched(asked + 1, inbox, tasks, wire)  BY NewIsUntouched
    <2>4. OwnWork(o, inbox, tasks, wire)  BY <1>3, <2>1, <2>3 DEF OwnWork
    <2>5. wire # <<>> => OneEach(inbox, tasks, Tail(wire)) /\ OwnWork(o, inbox, tasks, Tail(wire))
      BY <1>1, <2>2, <2>4, TailKeepsWork
    <2> QED BY <2>1, <2>2, <2>4, <2>5 DEF WorkInv
  <1>5. RunInv'
    <2>1. \A i \in DOMAIN wire' : SoundDigest(wire'[i])
      BY <1>1, TailDigests DEF TransferInv, RunInv
    <2>2. last' = NoOutcome  BY <1>2 DEF TransferInv, RunInv
    <2>3. Delivered(last', got', defects')  BY <2>2, IdleFacts DEF Delivered
    <2> QED BY <1>3, <2>1, <2>2, <2>3 DEF TransferInv, RunInv
  <1>6. MemberInv'  BY <1>3 DEF MemberInv
  <1>7. UploadInv' /\ ChunkInv'
    BY <1>2, <1>3 DEF TransferInv, UploadInv, ChunkInv
  <1> QED BY <1>4, <1>5, <1>6, <1>7 DEF TransferInv

LEMMA SourceKeepsTransfers ==
    ASSUME Typed, OwnInv, TransferInv, SourceFailed, op.index = 0
    PROVE  TransferInv'
  <1>1. /\ abandon("err") /\ op.at # "idle"
        /\ UNCHANGED <<got, inbox, tasks, stored, wire, defects>>
    BY DEF SourceFailed, printer
  <1>2. op.cmd \in {"MEM_DOWNLOAD", "SUB_FILE"} => Len(got') <= op.max
    BY <1>1 DEF TransferInv, RunInv
  <1> QED BY <1>1, <1>2, AbandonKeepsTransfers

\* The request is out: nothing of it has come back.
LEMMA RequestOut ==
    ASSUME Typed, TransferInv, op.at = "send", op' = [op EXCEPT !.at = "reply"],
           UNCHANGED <<got, last, tasks, stored, wire, torn, defects>>
    PROVE  RunInv' /\ MemberInv' /\ UploadInv' /\ op'.at = "reply" /\ op'.id = op.id /\ op'.cmd = op.cmd
  <1>1. op \in OpType  BY DEF Typed
  <1>2. op'.at = "reply" /\ op'.id = op.id /\ op'.cmd = op.cmd /\ op'.max = op.max /\ op'.index = op.index
    BY <1>1 DEF OpType
  <1>3. Untouched(op.id, inbox, tasks, wire)  BY DEF TransferInv, WorkInv, OwnWork
  <1>4. RunInv'  BY <1>2 DEF TransferInv, RunInv
  <1>5. MemberInv'
    <2>1. \A q : MemberAt(op.id, <<>>, q, tasks, wire)  BY <1>3, MemberUntouched
    <2>2. defects = 0 /\ op.cmd = "SUB_FILE" => got = <<>>  BY DEF TransferInv, MemberInv
    <2> QED BY <1>2, <2>1, <2>2 DEF MemberInv
  <1>6. InitAt(op.id, tasks, wire)  BY <1>3 DEF InitAt, Mine, Untouched
  <1>7. UploadInv'
    <2>1. last' = NoOutcome  BY DEF TransferInv, RunInv
    <2> QED BY <1>2, <1>6, <2>1, IdleFacts DEF UploadInv
  <1> QED BY <1>2, <1>4, <1>5, <1>7

LEMMA CancelOut ==
    ASSUME Typed, TransferInv, op.at = "csend", op' = [op EXCEPT !.at = "creply"],
           UNCHANGED <<got, last, tasks, stored, wire, torn, defects>>
    PROVE  RunInv' /\ MemberInv' /\ UploadInv' /\ op'.at = "creply"
  <1>1. op \in OpType  BY DEF Typed
  <1>2. op'.at = "creply" /\ op'.ret = op.ret /\ op'.cmd = op.cmd /\ op'.max = op.max
    BY <1>1 DEF OpType
  <1>3. RunInv' /\ MemberInv'  BY <1>2 DEF TransferInv, RunInv, MemberInv
  <1>4. UploadInv'
    <2>1. last' = NoOutcome  BY DEF TransferInv, RunInv
    <2> QED BY <1>2, <2>1, IdleFacts DEF UploadInv
  <1> QED BY <1>2, <1>3, <1>4

\* A chunk is out, and another follows.
LEMMA NextChunkOut ==
    ASSUME Typed, TransferInv, op.at = "chunk", op' = [op EXCEPT !.index = op.index + 1],
           op.index # chunk_count(op.start, op.len) - 1,
           inbox' = (IF "up" \in torn THEN inbox ELSE Append(inbox, Outgoing)),
           UNCHANGED <<got, last, tasks, stored, wire, torn, defects>>
    PROVE  /\ RunInv' /\ MemberInv' /\ UploadInv' /\ op'.at = "chunk" /\ op'.id = op.id /\ op'.cmd = op.cmd
           /\ "up" \notin torn => Sending(op, inbox, tasks)'
  <1>1. op \in OpType /\ inbox \in Seq(MsgType) /\ op.index \in Nat /\ Writing
    BY DEF Typed, OpType, Writing
  <1>2. /\ op'.at = "chunk" /\ op'.id = op.id /\ op'.cmd = op.cmd /\ op'.max = op.max
        /\ op'.start = op.start /\ op'.len = op.len /\ op'.index = op.index + 1
    BY <1>1 DEF OpType
  <1>3. op.cmd = "FILE_UPLOAD" /\ last = NoOutcome
    BY DEF TransferInv, WorkInv, OwnWork, RunInv
  <1>4. PICK m \in MsgType : m = Outgoing /\ m.id = op.id /\ m.cmd = "CHUNK"  BY <1>1, OutgoingType
  <1>5. "up" \notin torn => Sending(op, inbox, tasks)  BY DEF TransferInv, ChunkInv
  <1>6. "up" \notin torn => /\ m.md5 = <<>> /\ End(m) = op.start + (op.index + 1) * op.len
                            /\ op.index + 1 <= chunk_count(op.start, op.len) - 1
                            /\ NextChunk(m.id, m.off, inbox, tasks)
    BY <1>4, <1>5, ChunkOut
  <1>7. RunInv' /\ MemberInv'  BY <1>2, <1>3 DEF TransferInv, RunInv, MemberInv
  <1>8. NotStored(op.id, inbox', wire)
    <2>1. NotStored(op.id, inbox, wire)  BY DEF TransferInv, UploadInv
    <2>2. CASE "up" \in torn  BY <2>1, <2>2
    <2>3. CASE "up" \notin torn
      <3>1. inbox' = Append(inbox, m)  BY <1>4, <2>3
      <3>2. \A i \in DOMAIN inbox' : (i \in DOMAIN inbox /\ inbox'[i] = inbox[i]) \/ inbox'[i] = m
        BY <1>1, <3>1, AppendEntries
      <3>3. \A i \in DOMAIN inbox' : inbox'[i].id = op.id => inbox'[i].md5 = <<>>
        BY <1>6, <2>1, <2>3, <3>2 DEF NotStored
      <3> QED BY <2>1, <3>3 DEF NotStored
    <2> QED BY <2>2, <2>3
  <1>9. UploadInv'  BY <1>2, <1>3, <1>8, IdleFacts DEF UploadInv
  <1>10. ASSUME "up" \notin torn PROVE Sending(op, inbox, tasks)'
    <2>1. \A t \in tasks : Len(t.part) \in Nat
      BY LenProperties DEF Typed, TaskType
    <2>2. NextChunk(m.id, End(m), Append(inbox, m), tasks)
      BY <1>1, <1>4, <1>6, <1>10, <2>1, NextAppend
    <2>3. NextChunk(op'.id, Position(op'), inbox', tasks')
      BY <1>2, <1>4, <1>6, <1>10, <2>2 DEF Position
    <2>4. op'.index <= chunk_count(op'.start, op'.len) - 1
      BY <1>2, <1>6, <1>10 DEF chunk_count
    <2> QED BY <1>2, <1>5, <1>10, <2>3, <2>4 DEF Sending
  <1> QED BY <1>2, <1>7, <1>9, <1>10

\* The last chunk is out.
LEMMA LastChunkOut ==
    ASSUME Typed, TransferInv, op.at = "chunk", op' = [op EXCEPT !.at = "final", !.skipped = 0],
           inbox' = (IF "up" \in torn THEN inbox ELSE Append(inbox, Outgoing)),
           UNCHANGED <<got, last, tasks, stored, wire, torn, defects>>
    PROVE  RunInv' /\ MemberInv' /\ UploadInv' /\ op'.at = "final" /\ op'.id = op.id /\ op'.cmd = op.cmd
  <1>1. op \in OpType /\ inbox \in Seq(MsgType) /\ Writing  BY DEF Typed, Writing
  <1>2. op'.at = "final" /\ op'.id = op.id /\ op'.cmd = op.cmd /\ op'.max = op.max
    BY <1>1 DEF OpType
  <1>3. op.cmd = "FILE_UPLOAD" /\ last = NoOutcome
    BY DEF TransferInv, WorkInv, OwnWork, RunInv
  <1>4. PICK m \in MsgType : m = Outgoing  BY <1>1, OutgoingType
  <1>5. RunInv' /\ MemberInv'  BY <1>2, <1>3 DEF TransferInv, RunInv, MemberInv
  <1>6. NotStored(op.id, inbox, wire)  BY DEF TransferInv, UploadInv
  <1>7. StoredAt(op.id, inbox', wire, stored)
    <2>1. \A i \in DOMAIN wire : Mine(wire, op.id, i) /\ wire[i].result = "success" => FALSE
      BY <1>6 DEF NotStored
    <2>2. ASSUME NEW i \in DOMAIN inbox', inbox'[i].id = op.id, inbox'[i].md5 # <<>> PROVE i = Len(inbox')
      <3>1. ~(i \in DOMAIN inbox /\ inbox'[i] = inbox[i])  BY <1>6, <2>2 DEF NotStored
      <3>2. inbox' = Append(inbox, m)  BY <1>4, <2>2, <3>1
      <3>3. i = Len(inbox) + 1
        BY <1>1, <2>2, <3>1, <3>2, AppendEntries
      <3>4. Len(inbox') = Len(inbox) + 1  BY <1>1, <3>2, AppendProperties
      <3> QED BY <3>3, <3>4
    <2> QED BY <2>1, <2>2 DEF StoredAt
  <1>8. UploadInv'  BY <1>2, <1>3, <1>7, IdleFacts DEF UploadInv
  <1> QED BY <1>2, <1>5, <1>8

LEMMA WriteKeepsTransfers ==
    ASSUME Typed, TransferInv, FrameWritten
    PROVE  TransferInv'
  <1>1. /\ inbox' = (IF "up" \in torn THEN inbox ELSE Append(inbox, Outgoing)) /\ Writing
        /\ UNCHANGED <<got, last, tasks, stored, wire, torn, defects>>
    BY DEF FrameWritten, Deliver
  <1>2. inbox \in Seq(MsgType) /\ wire \in Seq(FrameType)  BY DEF Typed
  <1>3. PICK o : o = op /\ OneEach(inbox, tasks, wire) /\ OwnWork(o, inbox, tasks, wire)
    BY DEF TransferInv, WorkInv
  <1>4. PICK o2 : o2 = op'  OBVIOUS
  <1>5. /\ RunInv' /\ MemberInv' /\ UploadInv'
        /\ \/ o.at = "send" /\ o2.at = "reply" /\ o2.id = o.id /\ o2.cmd = o.cmd
           \/ o.at = "chunk" /\ o2.at \in {"chunk", "final"} /\ o2.id = o.id /\ o2.cmd = o.cmd
           \/ o2.at \in {"idle", "creply"}
        /\ op'.at = "chunk" /\ "up" \notin torn => Sending(op, inbox, tasks)'
    <2>1. CASE op.at = "send"
      <3>1. op' = [op EXCEPT !.at = "reply"]  BY <2>1 DEF FrameWritten
      <3> QED BY <1>1, <1>3, <1>4, <2>1, <3>1, RequestOut
    <2>2. CASE op.at = "csend"
      <3>1. op' = [op EXCEPT !.at = "creply"]  BY <2>2 DEF FrameWritten
      <3> QED BY <1>1, <1>3, <1>4, <2>2, <3>1, CancelOut
    <2>3. CASE op.at = "chunk" /\ op.index = chunk_count(op.start, op.len) - 1
      <3>1. op' = [op EXCEPT !.at = "final", !.skipped = 0]  BY <2>3 DEF FrameWritten
      <3> QED BY <1>1, <1>3, <1>4, <2>3, <3>1, LastChunkOut
    <2>4. CASE op.at = "chunk" /\ op.index # chunk_count(op.start, op.len) - 1
      <3>1. op' = [op EXCEPT !.index = op.index + 1]  BY <2>4 DEF FrameWritten
      <3> QED BY <1>1, <1>3, <1>4, <2>4, <3>1, NextChunkOut
    <2> QED BY <1>1, <2>1, <2>2, <2>3, <2>4 DEF Writing
  <1>6. PICK m \in MsgType : m = Outgoing  BY <1>1, OutgoingType
  <1>7. /\ m.id = o.id
        /\ \/ o.at = "send" /\ m.cmd = o.cmd
           \/ o.at = "csend" /\ m.cmd = "TASK_CANCEL"
           \/ o.at = "chunk" /\ m.cmd = "CHUNK"
    BY <1>1, <1>3, <1>6, OutgoingType DEF Writing
  <1>8. /\ OneEach(Append(inbox, m), tasks, wire) /\ OwnWork(o2, Append(inbox, m), tasks, wire)
        /\ OwnWork(o2, inbox, tasks, wire)
    BY <1>2, <1>3, <1>5, <1>7, WrittenKeepsWork
  <1>9. WorkInv'  BY <1>1, <1>3, <1>4, <1>6, <1>8 DEF WorkInv
  <1>10. ChunkInv'
    <2>1. ChunkFlow(inbox', tasks')
      BY <1>1, WrittenFlow DEF TransferInv, ChunkInv
    <2> QED BY <1>1, <1>5, <2>1 DEF ChunkInv
  <1> QED BY <1>5, <1>9, <1>10 DEF TransferInv

\* A frame that is read leaves what was in transit behind it.
LEMMA ReadLeaves ==
    ASSUME Typed, Read
    PROVE  /\ wire # <<>> /\ wire' = Tail(wire) /\ wire \in Seq(FrameType) /\ inbox \in Seq(MsgType)
           /\ op.at # "idle" /\ op.at # "chunk" /\ op.at # "send" /\ op.at # "csend"
           /\ UNCHANGED <<inbox, tasks, stored, torn, defects>>
           /\ Arrived = wire[1] /\ wire[1] \in FrameType /\ wire[1].body \in Bodies /\ 1 \in DOMAIN wire
  BY ReadFacts DEF Typed, Read, Reading

\* A frame the operation takes is its own; its request has been taken up.
LEMMA OwnFrame ==
    ASSUME Typed, OwnInv, WorkInv, Accept
    PROVE  /\ Read /\ Mine(wire, op.id, 1)
           /\ op.at = "reply" => \A i \in DOMAIN inbox : inbox[i].id # op.id
  <1>1. Read /\ IsReply(wire[1]) /\ wire[1].seq = op.seq  BY AcceptTakes DEF TookReply
  <1>2. 1 \in DOMAIN wire /\ op.at # "idle"  BY <1>1, ReadLeaves
  <1>3. wire[1].id = op.id  BY <1>1, <1>2, IdFacts
  <1>4. ASSUME op.at = "reply", NEW i \in DOMAIN inbox, inbox[i].id = op.id PROVE FALSE
    <2>1. inbox[i].cmd = op.cmd /\ op.cmd \in Commands  BY <1>4 DEF WorkInv, OwnWork, Typed
    <2>2. inbox[i].cmd # "CHUNK"  BY <2>1 DEF Commands, Singles, Streams
    <2> QED BY <1>1, <1>2, <1>3, <1>4, <2>2 DEF WorkInv, OneEach
  <1> QED BY <1>1, <1>2, <1>3, <1>4 DEF Mine

\* The operation returns with the frame.
LEMMA ReturnReadKeeps ==
    ASSUME Typed, TransferInv, Read, op' = Idle, Delivered(last', got', defects'),
           last'.cmd = "FILE_UPLOAD" /\ last'.res = "ok" => stored' = File /\ inbox' = <<>>
    PROVE  TransferInv'
  BY ReadLeaves, EndKeepsTransfers

LEMMA FailedReadKeeps ==
    ASSUME Typed, TransferInv, Read, NEW res, Return(res), UNCHANGED got,
           res = "ok" => op.cmd \in Singles \/ (op.at \in {"csend", "creply"} /\ op.ret = "ok")
    PROVE  TransferInv'
  <1>1. RunInv /\ MemberInv /\ op.at # "idle" /\ UNCHANGED <<got, defects>>
    BY ReadLeaves DEF TransferInv
  <1>2. op' = Idle /\ Delivered(last', got', defects') /\ ~(last'.cmd = "FILE_UPLOAD" /\ last'.res = "ok")
    BY <1>1, ReturnDelivers
  <1> QED BY <1>2, ReturnReadKeeps

LEMMA BrokenReadKeeps ==
    ASSUME Typed, TransferInv, Read, Broken, UNCHANGED got
    PROVE  TransferInv'
  <1>1. RunInv /\ MemberInv /\ op.at # "idle" /\ UNCHANGED <<got, defects>>
    BY ReadLeaves DEF TransferInv
  <1>2. op' = Idle /\ Delivered(last', got', defects') /\ ~(last'.cmd = "FILE_UPLOAD" /\ last'.res = "ok")
    BY <1>1, BrokenDelivers
  <1> QED BY <1>2, ReturnReadKeeps

\* It stops its stream, or the frame was the stream's last.
LEMMA StopReadKeeps ==
    ASSUME Typed, OwnInv, TransferInv, Read, NEW more, NEW res, StopStream(more, res), res # "ok", UNCHANGED got
    PROVE  TransferInv'
  <1>1. CASE more
    <2>1. abandon(res)  BY <1>1 DEF StopStream
    <2>2. op.cmd \in {"MEM_DOWNLOAD", "SUB_FILE"} => Len(got') <= op.max  BY DEF TransferInv, RunInv
    <2> QED BY <2>1, <2>2, ReadLeaves, AbandonKeepsTransfers
  <1>2. CASE ~more
    <2>1. Return(res)  BY <1>2 DEF StopStream
    <2> QED BY <2>1, FailedReadKeeps
  <1> QED BY <1>1, <1>2

\* It waits for the next frame.
SameJob ==
    /\ op'.at = op.at /\ op'.id = op.id /\ op'.cmd = op.cmd
    /\ op'.max = op.max /\ op'.ret = op.ret /\ op'.index = op.index

LEMMA CountSameJob ==
    ASSUME Typed, NEW n, \/ op' = [op EXCEPT !.skipped = n]
                         \/ op' = [op EXCEPT !.finals = n, !.skipped = 0]
    PROVE  SameJob
  <1>1. op \in OpType  BY DEF Typed
  <1> QED BY <1>1 DEF SameJob, OpType

LEMMA WaitKeepsTransfers ==
    ASSUME Typed, TransferInv, Read, SameJob, UNCHANGED last,
           op.cmd \in {"MEM_DOWNLOAD", "SUB_FILE"} => Len(got') <= op.max,
           op.at # "reply" => UNCHANGED got,
           op.cmd = "SUB_FILE" /\ op.at = "reply" /\ defects = 0 =>
               MemberAt(op.id, got', inbox, tasks, Tail(wire))
    PROVE  TransferInv'
  <1>1. /\ wire # <<>> /\ wire' = Tail(wire) /\ wire \in Seq(FrameType) /\ inbox \in Seq(MsgType)
        /\ op.at # "idle" /\ op.at # "chunk" /\ op.at # "send" /\ op.at # "csend"
        /\ UNCHANGED <<inbox, tasks, stored, torn, defects>>
    BY ReadLeaves
  <1>2. /\ op'.at = op.at /\ op'.id = op.id /\ op'.cmd = op.cmd
        /\ op'.max = op.max /\ op'.ret = op.ret /\ op'.index = op.index
    BY DEF SameJob
  <1>3. WorkInv'
    <2>1. PICK o, o2 : o = op /\ o2 = op' /\ OneEach(inbox, tasks, wire) /\ OwnWork(o, inbox, tasks, wire)
      BY DEF TransferInv, WorkInv
    <2>2. OneEach(inbox, tasks, Tail(wire)) /\ OwnWork(o, inbox, tasks, Tail(wire))
      BY <1>1, <2>1, TailKeepsWork
    <2>3. OwnWork(o2, inbox, tasks, Tail(wire))  BY <1>2, <2>1, <2>2, SameWork
    <2> QED BY <1>1, <2>1, <2>2, <2>3 DEF WorkInv
  <1>4. last = NoOutcome  BY <1>1 DEF TransferInv, RunInv
  <1>5. RunInv'
    <2>1. \A i \in DOMAIN wire' : SoundDigest(wire'[i])
      BY <1>1, TailDigests DEF TransferInv, RunInv
    <2>2. Delivered(last', got', defects')  BY <1>4, IdleFacts DEF Delivered
    <2> QED BY <1>1, <1>2, <1>4, <2>1, <2>2 DEF TransferInv, RunInv
  <1>6. MemberInv'
    BY <1>1, <1>2 DEF TransferInv, MemberInv
  <1>7. UploadInv'
    <2>1. \A i \in DOMAIN Tail(wire) : i + 1 \in DOMAIN wire /\ Tail(wire)[i] = wire[i + 1] /\ i \in Nat
      BY <1>1, TailIndex
    <2>2. \A i, j \in Nat : i + 1 = j + 1 => i = j  OBVIOUS
    <2>3. \A n, i : Mine(Tail(wire), n, i) => i \in DOMAIN Tail(wire) /\ Mine(wire, n, i + 1)
      BY <2>1 DEF Mine
    <2>4. ASSUME NEW n, InitAt(n, tasks, wire) PROVE InitAt(n, tasks, Tail(wire))
      <3>1. \A i, j \in DOMAIN Tail(wire) : i + 1 = j + 1 => i = j  BY <2>1, <2>2
      <3>2. ASSUME NEW i \in DOMAIN Tail(wire), Mine(Tail(wire), n, i), Tail(wire)[i].result = "success"
            PROVE  /\ \A t \in tasks : t.id # n
                   /\ \A j \in DOMAIN Tail(wire) : Mine(Tail(wire), n, j) => j = i
        <4>1. Mine(wire, n, i + 1) /\ wire[i + 1].result = "success" /\ i + 1 \in DOMAIN wire
          BY <2>1, <2>3, <3>2
        <4>2. /\ \A t \in tasks : t.id # n
              /\ \A j \in DOMAIN wire : Mine(wire, n, j) => j = i + 1
          BY <2>4, <4>1 DEF InitAt
        <4> QED BY <2>1, <2>3, <3>1, <4>2
      <3>3. ASSUME NEW i \in DOMAIN Tail(wire), NEW t \in tasks, Mine(Tail(wire), n, i), t.id = n
            PROVE  Blank(Tail(wire)[i]) \/ Tail(wire)[i].body.off = Len(t.part)
        <4>1. Mine(wire, n, i + 1) /\ Tail(wire)[i] = wire[i + 1] /\ i + 1 \in DOMAIN wire
          BY <2>1, <2>3, <3>3
        <4>2. PICK k \in DOMAIN wire : k = i + 1  BY <4>1
        <4>3. Blank(wire[k]) \/ wire[k].body.off = Len(t.part)
          BY <2>4, <3>3, <4>1, <4>2 DEF InitAt
        <4> QED BY <4>1, <4>2, <4>3
      <3> QED BY <3>2, <3>3 DEF InitAt
    <2>5. ASSUME NEW n, StoredAt(n, inbox, wire, stored) PROVE StoredAt(n, inbox, Tail(wire), stored)
      BY <2>1, <2>3, <2>5 DEF StoredAt
    <2> QED BY <1>1, <1>2, <1>4, <2>4, <2>5, IdleFacts DEF TransferInv, UploadInv
  <1>8. ChunkInv'
    BY <1>1, <1>2 DEF TransferInv, ChunkInv
  <1> QED BY <1>3, <1>5, <1>6, <1>7, <1>8 DEF TransferInv

\* A notify, or a frame of an earlier request: it is never a piece of the member that is read.
LEMMA SkipKeepsTransfers ==
    ASSUME Typed, OwnInv, TransferInv, SkipFrame
    PROVE  TransferInv'
  <1>1. Read /\ UNCHANGED got  BY DEF SkipFrame
  <1>2. CASE ~BudgetLeft
    BY <1>1, <1>2, BrokenReadKeeps DEF SkipFrame
  <1>3. CASE BudgetLeft
    <2>1. op' = [op EXCEPT !.skipped = Skipped(op.skipped)] /\ UNCHANGED last
      BY <1>3 DEF SkipFrame
    <2>2. SameJob  BY <2>1, CountSameJob
    <2>3. op.cmd \in {"MEM_DOWNLOAD", "SUB_FILE"} => Len(got') <= op.max
      BY <1>1 DEF TransferInv, RunInv
    <2>4. ASSUME op.cmd = "SUB_FILE", op.at = "reply", defects = 0
          PROVE  MemberAt(op.id, got', inbox, tasks, Tail(wire))
      <3>1. /\ wire # <<>> /\ wire \in Seq(FrameType) /\ Arrived = wire[1] /\ 1 \in DOMAIN wire
            /\ got \in Seq(Blocks)
        BY <1>1, ReadLeaves DEF Typed
      <3>2. ~Mine(wire, op.id, 1)
        <4> SUFFICES ASSUME IsReply(wire[1]), wire[1].id = op.id PROVE FALSE  BY DEF Mine
        <4>1. wire[1].seq = op.seq  BY <2>4, <3>1, IdFacts
        <4>2. wire[1].cmd \in {cmdtype(op.cmd), "none"}
          BY <2>4, <3>1 DEF TransferInv, WorkInv, OwnWork
        <4>3. Answers(wire[1])  BY <2>4, <4>1, <4>2 DEF Answers, Expected
        <4> QED BY <3>1, <4>3 DEF SkipFrame, IsReply
      <3>3. PICK n : n = op.id  OBVIOUS
      <3>4. MemberAt(n, got, inbox, tasks, wire)  BY <2>4, <3>3 DEF TransferInv, MemberInv
      <3>5. MemberAt(n, got, inbox, tasks, Tail(wire))  BY <3>1, <3>2, <3>3, <3>4, MemberTailOther
      <3> QED BY <1>1, <3>3, <3>5
    <2> QED BY <1>1, <2>1, <2>2, <2>3, <2>4, WaitKeepsTransfers
  <1> QED BY <1>2, <1>3

LEMMA SingleKeepsTransfers ==
    ASSUME Typed, TransferInv, SingleReply
    PROVE  TransferInv'
  <1>1. Read /\ UNCHANGED got /\ op.cmd \in Singles  BY DEF SingleReply, Accept
  <1>2. \E res : Return(res)  BY DEF SingleReply, Poison
  <1> QED BY <1>1, <1>2, FailedReadKeeps

LEMMA CancelKeepsTransfers ==
    ASSUME Typed, TransferInv, CancelReply
    PROVE  TransferInv'
  <1>1. Read /\ UNCHANGED got /\ op.at = "creply"  BY DEF CancelReply, Accept
  <1>2. Return(op.ret)  BY DEF CancelReply, Poison
  <1> QED BY <1>1, <1>2, FailedReadKeeps

\* The last reply of an upload.
LEMMA FinalKeepsTransfers ==
    ASSUME Typed, OwnInv, TransferInv, UploadFinal
    PROVE  TransferInv'
  <1>1. Accept /\ Read /\ UNCHANGED got /\ op.at = "final"  BY DEF UploadFinal, Accept
  <1>2. op.cmd = "FILE_UPLOAD"  BY <1>1 DEF TransferInv, WorkInv, OwnWork
  <1>3. CASE Poison("err") \/ Return("err")
    BY <1>1, <1>3, FailedReadKeeps DEF Poison
  <1>4. CASE op' = [op EXCEPT !.finals = op.finals + 1, !.skipped = 0] /\ UNCHANGED last
    <2>1. SameJob  BY <1>4, CountSameJob
    <2> QED BY <1>1, <1>2, <1>4, <2>1, WaitKeepsTransfers
  <1>5. CASE Arrived.result = "success" /\ Return("ok")
    <2>1. Mine(wire, op.id, 1) /\ Arrived = wire[1] /\ UNCHANGED <<inbox, stored, defects>>
      BY <1>1, OwnFrame, ReadLeaves DEF TransferInv
    <2>2. stored = File /\ inbox = <<>>
      BY <1>1, <1>5, <2>1 DEF TransferInv, UploadInv, StoredAt, Mine
    <2>3. op' = Idle /\ last'.cmd = "FILE_UPLOAD"  BY <1>2, <1>5 DEF Return
    <2>4. Delivered(last', got', defects')  BY <2>3 DEF Delivered
    <2> QED BY <1>1, <2>1, <2>2, <2>3, <2>4, ReturnReadKeeps
  <1> QED BY <1>3, <1>4, <1>5 DEF UploadFinal

\* The answer to an upload's request sets where its chunks begin.
LEMMA InitKeepsTransfers ==
    ASSUME Typed, OwnInv, TransferInv, UploadInit
    PROVE  TransferInv'
  <1>1. /\ Accept /\ Read /\ UNCHANGED got /\ op.at = "reply" /\ op.cmd = "FILE_UPLOAD"
    BY DEF UploadInit, Accept
  <1>2. CASE Poison("err") \/ Return("err")
    BY <1>1, <1>2, FailedReadKeeps DEF Poison
  <1>3. CASE abandon("err")
    BY <1>1, <1>3, ReadLeaves, AbandonKeepsTransfers
  <1>4. CASE /\ Arrived.result \in {"continue", "exist"}
             /\ Arrived.body.size \in 1..FrameLimit /\ Arrived.body.off < FileLen
             /\ op' = [op EXCEPT !.at = "chunk", !.start = Arrived.body.off, !.len = Arrived.body.size]
             /\ UNCHANGED last
    <2>1. /\ wire # <<>> /\ wire' = Tail(wire) /\ wire \in Seq(FrameType) /\ inbox \in Seq(MsgType)
          /\ UNCHANGED <<inbox, tasks, stored, torn, defects>>
          /\ Arrived = wire[1] /\ wire[1].body \in Bodies /\ 1 \in DOMAIN wire
      BY <1>1, ReadLeaves
    <2>2. Mine(wire, op.id, 1) /\ \A i \in DOMAIN inbox : inbox[i].id # op.id
      BY <1>1, OwnFrame DEF TransferInv
    <2>3. op \in OpType /\ wire[1].body.off \in Nat  BY <2>1 DEF Typed, Bodies
    <2>4. /\ op'.at = "chunk" /\ op'.id = op.id /\ op'.cmd = op.cmd /\ op'.max = op.max
          /\ op'.start = wire[1].body.off /\ op'.len = wire[1].body.size /\ op'.index = op.index
      BY <1>4, <2>1, <2>3 DEF OpType
    <2>5. op'.index = 0 /\ last' = NoOutcome  BY <1>1, <1>4, <2>4 DEF TransferInv, RunInv
    <2>6. InitAt(op.id, tasks, wire)  BY <1>1 DEF TransferInv, UploadInv
    <2>7. WorkInv'
      <3>1. PICK o, o2 : o = op /\ o2 = op' /\ OneEach(inbox, tasks, wire) /\ OwnWork(o, inbox, tasks, wire)
        BY DEF TransferInv, WorkInv
      <3>2. OwnWork(o2, inbox, tasks, wire)
        BY <1>1, <2>1, <2>2, <2>4, <3>1, StartKeepsWork DEF Mine
      <3>3. OneEach(inbox, tasks, Tail(wire)) /\ OwnWork(o2, inbox, tasks, Tail(wire))
        BY <2>1, <3>1, <3>2, TailKeepsWork
      <3> QED BY <2>1, <3>1, <3>3 DEF WorkInv
    <2>8. RunInv'
      <3>1. \A i \in DOMAIN wire' : SoundDigest(wire'[i])
        BY <2>1, TailDigests DEF TransferInv, RunInv
      <3>2. Delivered(last', got', defects')  BY <2>5, IdleFacts DEF Delivered
      <3> QED BY <1>1, <2>4, <2>5, <3>1, <3>2 DEF RunInv
    <2>9. MemberInv'  BY <1>1, <2>4 DEF MemberInv
    <2>10. UploadInv'
      <3>1. \A i \in DOMAIN Tail(wire) : i + 1 \in DOMAIN wire /\ Tail(wire)[i] = wire[i + 1] /\ i + 1 # 1
        BY <2>1, TailIndex
      <3>2. ASSUME NEW i \in DOMAIN Tail(wire), Mine(Tail(wire), op.id, i) PROVE Tail(wire)[i].result # "success"
        <4>1. PICK k \in DOMAIN wire : k = i + 1 /\ k # 1 /\ Tail(wire)[i] = wire[k]  BY <3>1
        <4>2. Mine(wire, op.id, k)  BY <3>2, <4>1 DEF Mine
        <4> QED BY <2>1, <2>2, <2>6, <4>1, <4>2 DEF InitAt
      <3>3. NotStored(op.id, inbox, Tail(wire))  BY <2>2, <3>2 DEF NotStored
      <3> QED BY <2>1, <2>4, <2>5, <3>3, IdleFacts DEF UploadInv
    <2>11. Sending(op, inbox, tasks)'
      <3>1. op'.len \in 1..FrameLimit /\ op'.start < FileLen /\ op'.start \in Nat /\ op'.len \in Nat \ {0}
        BY <1>4, <2>1, <2>3, <2>4, FileTunnelConstants
      <3>2. op'.index <= chunk_count(op'.start, op'.len) - 1
        <4>1. PICK s \in Nat, l \in Nat \ {0} : s = op'.start /\ l = op'.len  BY <3>1
        <4>2. FileLen - s >= 1 /\ FileLen \in Nat  BY <3>1, <4>1, FileTunnelConstants
        <4>3. (FileLen - s + l - 1) \div l >= 1  BY <4>1, <4>2
        <4>4. chunk_count(s, l) \in Int /\ chunk_count(s, l) >= 1  BY <4>1, <4>2, <4>3 DEF chunk_count
        <4> QED BY <2>5, <4>1, <4>4
      <3>3. Position(op') = op'.start
        <4>1. 0 * op'.len = 0  BY <3>1
        <4> QED BY <2>5, <3>1, <4>1 DEF Position
      <3>4. ~Blank(wire[1])  BY <1>4, <2>1, FileTunnelConstants DEF Blank
      <3>5. \A t \in tasks : t.id = op.id => wire[1].body.off = Len(t.part)
        BY <2>1, <2>2, <2>6, <3>4 DEF InitAt
      <3>6. NextChunk(op.id, op'.start, inbox, tasks)
        <4>1. op'.start <= op'.start  BY <3>1
        <4>2. \A t \in tasks : t.id = op.id => Len(t.part) = op'.start  BY <2>4, <3>5
        <4> QED BY <2>2, <4>1, <4>2 DEF NextChunk, Reaches
      <3> QED BY <2>1, <2>4, <3>1, <3>2, <3>3, <3>6 DEF Sending
    <2>12. ChunkInv'  BY <2>1, <2>11 DEF TransferInv, ChunkInv
    <2> QED BY <2>7, <2>8, <2>9, <2>10, <2>12 DEF TransferInv
  <1>5. \/ Poison("err") \/ Return("err") \/ abandon("err")
        \/ /\ Arrived.result \in {"continue", "exist"}
           /\ Arrived.body.size \in 1..FrameLimit /\ Arrived.body.off < FileLen
           /\ op' = [op EXCEPT !.at = "chunk", !.start = Arrived.body.off, !.len = Arrived.body.size]
           /\ UNCHANGED last
    BY DEF UploadInit
  <1> QED BY <1>2, <1>3, <1>4, <1>5

\* What is read of a frame is added at the end.
LEMMA ContentFacts ==
    ASSUME NEW g \in Seq(Blocks), NEW b \in Bodies, b.size <= Len(b.data), NEW h,
           h = g \o SubSeq(b.data, 1, b.size)
    PROVE  /\ Len(h) = Len(g) + b.size /\ Len(g) \in Nat /\ b.size \in Nat
           /\ b.size = 1 => h[Len(g) + 1] = b.data[1]
  <1>1. b.data \in Seq(Blocks) /\ b.size \in Nat /\ Len(g) \in Nat /\ Len(b.data) \in Nat
    BY LenProperties DEF Bodies
  <1>2. PICK d, m : d = b.data /\ m = b.size /\ m \in Nat /\ d \in Seq(Blocks) /\ m <= Len(d) /\ Len(d) \in Nat
    BY <1>1
  <1>3. \A i \in 1..m : d[i] \in Blocks
    <2>1. \A i \in 1..Len(d) : d[i] \in Blocks  BY <1>2, ElementOfSeq
    <2> QED BY <1>2, <2>1
  <1>4. 1 \in Int /\ m \in Int /\ (IF 1 <= m THEN m - 1 + 1 ELSE 0) = m /\ m - 1 + 1 = m  BY <1>2
  <1>5. /\ SubSeq(d, 1, m) \in Seq(Blocks) /\ Len(SubSeq(d, 1, m)) = m
        /\ \A i \in 1..m : SubSeq(d, 1, m)[i] = d[1 + i - 1]
    BY <1>3, <1>4, SubSeqProperties
  <1>6. PICK s \in Seq(Blocks) : s = SubSeq(d, 1, m) /\ Len(s) = m /\ (m = 1 => s[1] = d[1])
    <2>1. m = 1 => SubSeq(d, 1, m)[1] = d[1]
      <3>1. m = 1 => 1 \in 1..m /\ 1 + 1 - 1 = 1  OBVIOUS
      <3> QED BY <1>5, <3>1
    <2> QED BY <1>5, <2>1
  <1>7. /\ Len(g \o s) = Len(g) + Len(s)
        /\ \A i \in 1..(Len(g) + Len(s)) : (g \o s)[i] = IF i <= Len(g) THEN g[i] ELSE s[i - Len(g)]
    BY <1>6, ConcatProperties
  <1>8. h = g \o s  BY <1>2, <1>6
  <1>9. ASSUME m = 1 PROVE h[Len(g) + 1] = d[1]
    <2>1. /\ Len(g) + 1 \in 1..(Len(g) + Len(s)) /\ ~(Len(g) + 1 <= Len(g)) /\ Len(g) + 1 - Len(g) = 1
      BY <1>1, <1>6, <1>9
    <2>2. (g \o s)[Len(g) + 1] = s[Len(g) + 1 - Len(g)]  BY <1>7, <2>1
    <2> QED BY <1>6, <1>8, <1>9, <2>1, <2>2
  <1> QED BY <1>1, <1>2, <1>6, <1>7, <1>8, <1>9

\* A content that matches a frame's digest is the file.
LEMMA DigestProves ==
    ASSUME NEW g \in Seq(Blocks), NEW f, f.body \in Bodies, SoundDigest(f),
           f.body.size <= Len(f.body.data), NEW h, h = g \o SubSeq(f.body.data, 1, f.body.size),
           f.body.md5 # <<>>, h = f.body.md5
    PROVE  h = File
  <1>1. CASE f.body.md5 \in {<<>>, File}  BY <1>1
  <1>2. CASE /\ f.body.md5 = <<Garbage>> /\ f.body.size = 1
             /\ Len(f.body.data) = 1 /\ f.body.data[1] # Garbage
    <2>1. /\ Len(h) = Len(g) + f.body.size /\ Len(g) \in Nat
          /\ f.body.size = 1 => h[Len(g) + 1] = f.body.data[1]
      BY ContentFacts
    <2>2. Len(h) = 1 /\ h[1] = Garbage
      <3>1. Len(<<Garbage>>) = 1 /\ <<Garbage>>[1] = Garbage  OBVIOUS
      <3> QED BY <1>2, <3>1
    <2>3. Len(g) + 1 = 1  BY <1>2, <2>1, <2>2
    <2> QED BY <1>2, <2>1, <2>2, <2>3
  <1> QED BY <1>1, <1>2 DEF SoundDigest

LEMMA DownloadKeepsTransfers ==
    ASSUME Typed, OwnInv, TransferInv, receive_download
    PROVE  TransferInv'
  <1> DEFINE b == Arrived.body
             more == Arrived.result = "continue"
             content == got \o SubSeq(b.data, 1, b.size)
  <1>1. Accept /\ Read /\ op.at = "reply" /\ op.cmd \in {"FILE_DOWNLOAD", "MEM_DOWNLOAD"}
    BY DEF receive_download, Accept
  <1>2. /\ Arrived = wire[1] /\ b \in Bodies /\ got \in Seq(Blocks) /\ UNCHANGED <<inbox, stored, defects>>
        /\ 1 \in DOMAIN wire
    BY <1>1, ReadLeaves DEF Typed
  <1>3. op.cmd \in {"MEM_DOWNLOAD", "SUB_FILE"} => op.max \in Nat /\ Len(got) <= op.max
    BY DEF TransferInv, RunInv
  <1>4. CASE UNCHANGED got /\ (Poison("err") \/ Return("err") \/ Senseless(more))
    BY <1>1, <1>4, FailedReadKeeps DEF Poison, Senseless
  <1>5. CASE UNCHANGED got /\ StopStream(more, "err")
    BY <1>1, <1>5, StopReadKeeps
  <1>6. CASE UNCHANGED got /\ op' = [op EXCEPT !.skipped = 0] /\ UNCHANGED last
    <2>1. SameJob  BY <1>6, CountSameJob
    <2> QED BY <1>1, <1>3, <1>6, <2>1, WaitKeepsTransfers
  <1>7. CASE /\ ~OverLimit(b.total) /\ ~(Len(got) + b.size > b.total) /\ ~(b.size > Len(b.data))
             /\ Received(Arrived, content)
    <2>1. /\ b.size \in Nat /\ b.total \in Nat /\ Len(b.data) \in Nat /\ Len(got) \in Nat
      BY <1>2, LenProperties DEF Bodies
    <2>2. b.size <= Len(b.data) /\ Len(got) + b.size <= b.total  BY <1>7, <2>1
    <2>3. PICK h : h = content  OBVIOUS
    <2>4. Len(h) = Len(got) + b.size  BY <1>2, <2>2, <2>3, ContentFacts
    <2>5. got' = h /\ (op.cmd = "MEM_DOWNLOAD" => Len(h) <= op.max)
      <3>1. got' = h  BY <1>7, <2>3 DEF Received
      <3>2. ASSUME op.cmd = "MEM_DOWNLOAD" PROVE Len(h) <= op.max
        <4>1. op.max \in Nat /\ op.max # Unlimited  BY <1>3, <3>2 DEF Unlimited
        <4>2. b.total <= op.max  BY <1>7, <2>1, <4>1 DEF OverLimit
        <4> QED BY <2>1, <2>2, <2>4, <4>1, <4>2
      <3> QED BY <3>1, <3>2
    <2>6. CASE more
      <3>1. op' = [op EXCEPT !.skipped = 0] /\ UNCHANGED last  BY <1>7, <2>6 DEF Received
      <3>2. SameJob  BY <3>1, CountSameJob
      <3> QED BY <1>1, <2>5, <3>1, <3>2, WaitKeepsTransfers
    <2>7. CASE ~more
      <3>1. PICK res : /\ Return(res)
                       /\ res = "ok" => b.md5 # <<>> /\ content = b.md5
        <4>1. CASE Len(content) = b.total /\ b.md5 # <<>> /\ Md5Matches(content, b.md5)
          BY <1>7, <2>7, <4>1 DEF Received, Md5Matches
        <4>2. CASE ~(Len(content) = b.total /\ b.md5 # <<>> /\ Md5Matches(content, b.md5))
          <5>1. Return("err")  BY <1>7, <2>7, <4>2 DEF Received
          <5> QED BY <5>1
        <4> QED BY <4>1, <4>2
      <3>2. op' = Idle /\ last'.cmd = op.cmd /\ last'.res = res /\ last'.max = op.max
        BY <3>1 DEF Return
      <3>3. ASSUME res = "ok" PROVE h = File
        <4>1. SoundDigest(wire[1])  BY <1>2 DEF TransferInv, RunInv
        <4>2. PICK f : f = wire[1]  OBVIOUS
        <4>3. /\ f.body \in Bodies /\ SoundDigest(f) /\ f.body.size <= Len(f.body.data)
              /\ h = got \o SubSeq(f.body.data, 1, f.body.size) /\ f.body.md5 # <<>> /\ h = f.body.md5
          BY <1>2, <2>2, <2>3, <3>1, <3>3, <4>1, <4>2
        <4> QED BY <1>2, <4>3, DigestProves
      <3>4. Delivered(last', got', defects')
        BY <1>1, <2>5, <3>2, <3>3 DEF Delivered
      <3>5. ~(last'.cmd = "FILE_UPLOAD" /\ last'.res = "ok")  BY <1>1, <3>2
      <3> QED BY <1>1, <3>2, <3>4, <3>5, ReturnReadKeeps
    <2> QED BY <2>6, <2>7
  <1>8. \/ UNCHANGED got /\ (Poison("err") \/ Return("err") \/ Senseless(more))
        \/ UNCHANGED got /\ StopStream(more, "err")
        \/ UNCHANGED got /\ op' = [op EXCEPT !.skipped = 0] /\ UNCHANGED last
        \/ /\ ~OverLimit(b.total) /\ ~(Len(got) + b.size > b.total) /\ ~(b.size > Len(b.data))
           /\ Received(Arrived, content)
    BY DEF receive_download
  <1> QED BY <1>4, <1>5, <1>6, <1>7, <1>8

LEMMA MemberKeepsTransfers ==
    ASSUME Typed, OwnInv, TransferInv, read_file_member
    PROVE  TransferInv'
  <1> DEFINE b == Arrived.body
             more == Arrived.result = "continue"
             content == got \o SubSeq(b.data, 1, b.size)
  <1>1. Accept /\ Read /\ op.at = "reply" /\ op.cmd = "SUB_FILE"
    BY DEF read_file_member, Accept
  <1>2. /\ Arrived = wire[1] /\ b \in Bodies /\ got \in Seq(Blocks)
        /\ wire # <<>> /\ wire \in Seq(FrameType) /\ wire' = Tail(wire)
        /\ UNCHANGED <<inbox, tasks, stored, defects>>
    BY <1>1, ReadLeaves DEF Typed
  <1>3. op.max \in Nat /\ Len(got) <= op.max
    BY <1>1 DEF TransferInv, RunInv
  <1>4. CASE UNCHANGED got /\ (Poison("err") \/ Return("err") \/ Senseless(more))
    BY <1>1, <1>4, FailedReadKeeps DEF Poison, Senseless
  <1>5. CASE UNCHANGED got /\ (StopStream(more, "err") \/ StopStream(more, "none"))
    BY <1>1, <1>5, StopReadKeeps
  <1>6. CASE /\ b.size # 0 /\ got' = content /\ ~(Len(content) > op.max) /\ ~(b.size > Len(b.data))
             /\ \/ b.more /\ more /\ op' = [op EXCEPT !.skipped = 0] /\ UNCHANGED last
                \/ ~(b.more /\ more) /\ StopStream(more, "ok")
    <2>1. PICK h : h = content  OBVIOUS
    <2>2. got' = h /\ Len(h) <= op.max
      <3>1. b.size <= Len(b.data)  BY <1>2, <1>6, LenProperties DEF Bodies
      <3>2. Len(h) = Len(got) + b.size /\ Len(got) \in Nat /\ b.size \in Nat
        BY <1>2, <2>1, <3>1, ContentFacts
      <3> QED BY <1>3, <1>6, <2>1, <3>2
    <2>3. ASSUME defects = 0
          PROVE  MemberAt(op.id, h, inbox, tasks, Tail(wire)) /\ ((more /\ b.more) \/ h = File)
      <3>1. PICK n : n = op.id  OBVIOUS
      <3>2. MemberAt(n, got, inbox, tasks, wire)  BY <1>1, <2>3, <3>1 DEF TransferInv, MemberInv
      <3>3. Mine(wire, n, 1) /\ \A i \in DOMAIN inbox : inbox[i].id # n
        BY <1>1, <3>1, OwnFrame DEF TransferInv
      <3>4. ~Blank(wire[1]) /\ h = Content(got, wire[1])
        BY <1>2, <1>6, <2>1 DEF Blank, Content
      <3>5. wire \in Seq(FrameType) /\ wire # <<>> /\ got \in Seq(Blocks)  BY <1>2
      <3>6. /\ MemberAt(n, h, inbox, tasks, Tail(wire))
            /\ (wire[1].result = "continue" /\ wire[1].body.more) \/ h = File
        BY <3>2, <3>3, <3>4, <3>5, MemberTakes
      <3> QED BY <1>2, <3>1, <3>6
    <2>4. CASE op' = [op EXCEPT !.skipped = 0] /\ UNCHANGED last
      <3>1. SameJob  BY <2>4, CountSameJob
      <3> QED BY <1>1, <2>2, <2>3, <2>4, <3>1, WaitKeepsTransfers
    <2>5. CASE ~(b.more /\ more) /\ StopStream(more, "ok")
      <3>1. defects = 0 => got' = File  BY <2>2, <2>3, <2>5
      <3>2. CASE more
        <4>1. abandon("ok")  BY <2>5, <3>2 DEF StopStream
        <4> QED BY <1>1, <2>2, <3>1, <4>1, ReadLeaves, AbandonKeepsTransfers
      <3>3. CASE ~more
        <4>1. Return("ok")  BY <2>5, <3>3 DEF StopStream
        <4>2. op' = Idle /\ last'.cmd = "SUB_FILE" /\ last'.max = op.max  BY <1>1, <4>1 DEF Return
        <4>3. Delivered(last', got', defects')  BY <1>2, <2>2, <3>1, <4>2 DEF Delivered
        <4> QED BY <1>1, <4>2, <4>3, ReturnReadKeeps
      <3> QED BY <3>2, <3>3
    <2> QED BY <1>6, <2>4, <2>5
  <1>7. \/ UNCHANGED got /\ (Poison("err") \/ Return("err") \/ Senseless(more))
        \/ UNCHANGED got /\ (StopStream(more, "err") \/ StopStream(more, "none"))
        \/ /\ b.size # 0 /\ got' = content /\ ~(Len(content) > op.max) /\ ~(b.size > Len(b.data))
           /\ \/ b.more /\ more /\ op' = [op EXCEPT !.skipped = 0] /\ UNCHANGED last
              \/ ~(b.more /\ more) /\ StopStream(more, "ok")
    BY DEF read_file_member
  <1> QED BY <1>4, <1>5, <1>6, <1>7

----------------------------------------------------------------------------
(* A transfer that is reported as done is whole.                             *)

LEMMA TransferInit == Init => TransferInv
  <1> SUFFICES ASSUME Init PROVE TransferInv  OBVIOUS
  <1>1. DOMAIN <<>> = {}  BY EmptySeq, LenProperties
  <1>2. op.at = "idle" /\ op.cmd = "none" /\ op = Idle /\ last.cmd = "none" /\ last.res = "none"
    BY IdleFacts DEF Init
  <1>3. inbox = <<>> /\ wire = <<>> /\ tasks = {}  BY DEF Init
  <1>4. WorkInv  BY <1>1, <1>2, <1>3 DEF WorkInv, OneEach, OneTaskEach, OwnWork
  <1>5. RunInv  BY <1>1, <1>2, <1>3 DEF RunInv, Delivered
  <1>6. MemberInv /\ UploadInv  BY <1>2 DEF MemberInv, UploadInv
  <1>7. ChunkInv  BY <1>1, <1>2, <1>3 DEF ChunkInv, ChunkFlow
  <1> QED BY <1>4, <1>5, <1>6, <1>7 DEF TransferInv

LEMMA SlotKeepsTransfers ==
    ASSUME Typed, TransferInv, ensure_file_tunnel \/ Handshake \/ disconnect_file_tunnel
    PROVE  TransferInv'
  <1>1. CASE Handshake
    <2>1. UNCHANGED <<op, got, last, inbox, tasks, stored, wire, torn, defects>>
      BY <1>1 DEF Handshake, printer
    <2>2. WorkInv' /\ RunInv'
      BY <2>1 DEF TransferInv, WorkInv, RunInv
    <2>3. MemberInv' /\ UploadInv' /\ ChunkInv'
      BY <2>1 DEF TransferInv, MemberInv, UploadInv, ChunkInv
    <2> QED BY <2>2, <2>3 DEF TransferInv
  <1>2. CASE ensure_file_tunnel \/ disconnect_file_tunnel
    <2>1. op.at = "idle" /\ op' = op
      BY <1>2 DEF ensure_file_tunnel, disconnect_file_tunnel, Typed
    <2>2. op' = Idle  BY <2>1 DEF TransferInv, RunInv
    <2> QED BY <1>2, <2>2, FreshKeepsTransfers DEF ensure_file_tunnel, disconnect_file_tunnel, FreshStream
  <1> QED BY <1>1, <1>2

LEMMA TransferNext ==
    ASSUME Typed, OwnInv, TransferInv, [Next]_vars
    PROVE  TransferInv'
  <1>1. CASE ensure_file_tunnel \/ Handshake \/ disconnect_file_tunnel
    BY <1>1, SlotKeepsTransfers
  <1>2. CASE Request  BY <1>2, RequestKeepsTransfers
  <1>3. CASE FrameWritten  BY <1>3, WriteKeepsTransfers
  <1>4. CASE WriteFailed \/ ReadFailed \/ Drop  BY <1>4, BrokenKeepsTransfers
  <1>5. CASE SourceFailed  BY <1>5, SourceKeepsTransfers, BrokenKeepsTransfers
  <1>6. CASE SkipFrame  BY <1>6, SkipKeepsTransfers
  <1>7. CASE ReadBroken  BY <1>7, BrokenReadKeeps DEF ReadBroken
  <1>8. CASE SingleReply \/ CancelReply  BY <1>8, SingleKeepsTransfers, CancelKeepsTransfers
  <1>9. CASE receive_download \/ read_file_member
    BY <1>9, DownloadKeepsTransfers, MemberKeepsTransfers
  <1>10. CASE UploadInit \/ UploadFinal  BY <1>10, InitKeepsTransfers, FinalKeepsTransfers
  <1>11. CASE PrinterStep
    BY <1>11, PrinterReceivesEffect, PrinterSendsEffect, PrinterInterjectsEffect, PrinterKeepsTransfers
       DEF PrinterStep
  <1>12. CASE UNCHANGED vars
    <2>1. UNCHANGED <<op, got, last, inbox, tasks, stored, wire, torn, defects>>
      BY <1>12 DEF vars, client, printer
    <2>2. WorkInv' /\ RunInv'
      BY <2>1 DEF TransferInv, WorkInv, RunInv
    <2>3. MemberInv' /\ UploadInv' /\ ChunkInv'
      BY <2>1 DEF TransferInv, MemberInv, UploadInv, ChunkInv
    <2> QED BY <2>2, <2>3 DEF TransferInv
  <1> QED BY <1>1, <1>2, <1>3, <1>4, <1>5, <1>6, <1>7, <1>8, <1>9, <1>10, <1>11, <1>12
          DEF Next, ClientStep

\* A right prefix and the last chunk are the source the digest was computed from.
LEMMA ResumedIsWhole ==
    ASSUME NEW p \in Seq(Blocks), p = SubSeq(File, 1, Len(p)), NEW m \in MsgType, SoundChunk(m),
           m.off = Len(p), m.md5 # <<>>
    PROVE  p \o m.data = m.md5
  <1>1. /\ m.md5 = File /\ End(m) = FileLen /\ m.data = SubSeq(File, m.off + 1, FileLen)
        /\ Len(p) \in Nat /\ FileLen \in Nat /\ Len(m.data) \in Nat
    BY FileTunnelConstants, LenProperties DEF SoundChunk, MsgType
  <1>2. PICK a \in Nat : a = Len(p) /\ a <= FileLen
    <2>1. Len(p) + Len(m.data) = FileLen  BY <1>1 DEF End
    <2>2. PICK x \in Nat, y \in Nat : x = Len(p) /\ y = Len(m.data)  BY <1>1
    <2>3. x + y = FileLen  BY <2>1, <2>2
    <2>4. x <= FileLen  BY <2>3
    <2> QED BY <2>2, <2>4
  <1>3. PICK d \in Seq(Blocks) : /\ d = m.data /\ Len(d) = FileLen - a
                                 /\ \A k \in 1..(FileLen - a) : d[k] = File[a + k]
    <2>1. FileLen <= FileLen /\ FileLen \in Nat /\ m.data = SubSeq(File, a + 1, FileLen)  BY <1>1, <1>2
    <2>2. /\ SubSeq(File, a + 1, FileLen) \in Seq(Blocks) /\ Len(SubSeq(File, a + 1, FileLen)) = FileLen - a
          /\ \A k \in 1..(FileLen - a) : SubSeq(File, a + 1, FileLen)[k] = File[a + k]
      BY <1>2, <2>1, FilePart
    <2> QED BY <2>1, <2>2
  <1>4. \A k \in 1..a : p[k] = File[k]
    <2>1. PICK s : s = SubSeq(File, 0 + 1, a)  OBVIOUS
    <2>2. 0 \in Nat /\ 0 <= a /\ a - 0 = a /\ 0 + 1 = 1 /\ \A k \in 1..a : 0 + k = k  BY <1>2
    <2>3. \A k \in 1..(a - 0) : s[k] = File[0 + k]  BY <1>2, <2>1, <2>2, FilePart
    <2>4. s = p  BY <1>2, <2>1, <2>2
    <2> QED BY <2>2, <2>3, <2>4
  <1>5. /\ p \o d \in Seq(Blocks) /\ Len(p \o d) = Len(p) + Len(d)
        /\ \A k \in 1..(Len(p) + Len(d)) : (p \o d)[k] = IF k <= Len(p) THEN p[k] ELSE d[k - Len(p)]
    BY ConcatProperties
  <1>6. Len(p) + Len(d) = FileLen
    <2>1. a + (FileLen - a) = FileLen  BY FileTunnelConstants
    <2>2. Len(d) = FileLen - a  BY <1>3
    <2> QED BY <1>2, <2>1, <2>2
  <1>7. ASSUME NEW k \in 1..FileLen PROVE (p \o d)[k] = File[k]
    <2>1. CASE k <= a
      <3>1. k \in 1..a  BY <1>2, <2>1
      <3> QED BY <1>2, <1>4, <1>5, <1>6, <2>1, <3>1
    <2>2. CASE ~(k <= a)
      <3>1. k - a \in 1..(FileLen - a) /\ a + (k - a) = k  BY <1>1, <1>2, <2>2
      <3>2. d[k - a] = File[k]  BY <1>3, <3>1
      <3> QED BY <1>2, <1>5, <1>6, <2>2, <3>2
    <2> QED BY <2>1, <2>2
  <1>8. p \o d = File
    <2>1. File \in Seq(Blocks) /\ Len(File) = FileLen  BY FileSeq
    <2>2. Len(p \o d) = FileLen /\ \A k \in 1..Len(p \o d) : (p \o d)[k] = File[k]
      BY <1>5, <1>6, <1>7
    <2> QED BY <1>5, <2>1, <2>2, SeqEqual
  <1> QED BY <1>1, <1>3, <1>8

LEMMA TransferInvSafe ==
    ASSUME Typed, OwnInv, TransferInv
    PROVE  TransfersWhole
  <1>1. ReadIsWhole
    BY DEF TransferInv, RunInv, Delivered, ReadIsWhole
  <1>2. MemberBounded
    BY DEF TransferInv, RunInv, Delivered, MemberBounded
  <1>3. UploadStored
    BY DEF TransferInv, UploadInv, UploadStored
  <1>4. ResumeVerifies
    <2> SUFFICES ASSUME NEW t \in tasks, inbox # <<>>, t.cmd = "FILE_UPLOAD",
                        Head(inbox).seq = t.seq, Head(inbox).cmd = "CHUNK", Head(inbox).md5 # <<>>,
                        t.part = SubSeq(File, 1, Len(t.part))
                 PROVE  t.part \o Head(inbox).data = Head(inbox).md5
      BY DEF ResumeVerifies
    <2>1. inbox \in Seq(MsgType) /\ t \in TaskType  BY DEF Typed
    <2>2. 1 \in DOMAIN inbox /\ Head(inbox) = inbox[1]  BY <2>1, TailEntries
    <2>3. t.id = Head(inbox).id  BY IdFacts
    <2>4. IsChunk(inbox, t.id, 1) /\ ChunkFlow(inbox, tasks)
      BY <2>2, <2>3 DEF IsChunk, TransferInv, ChunkInv
    <2>5. inbox[1].off = Len(t.part) /\ SoundChunk(inbox[1])  BY <2>1, <2>4, FirstChunk
    <2>6. PICK m \in MsgType : m = inbox[1]  BY <2>1, <2>2, ElementOfSeq, LenProperties
    <2>7. PICK p \in Seq(Blocks) : p = t.part  BY <2>1 DEF TaskType
    <2>8. p \o m.data = m.md5  BY <2>2, <2>5, <2>6, <2>7, ResumedIsWhole
    <2> QED BY <2>2, <2>6, <2>7, <2>8
  <1> QED BY <1>1, <1>2, <1>3, <1>4 DEF TransfersWhole

\* receive_download, read_file_member and upload_file (client.rs) report a transfer as done only
\* when it is whole: what a download passes on has the digest of the file, a member's pieces come
\* in order and within the caller's limit, the printer says success only for the digest of the
\* whole source, and a resumed upload's chunks begin where the printer's part ends.  Frames are
\* told apart by their sequence, which is unique until the counter comes round.
THEOREM TransfersTheorem == TunnelRoom /\ Spec => []TransfersWhole
  <1>1. Init => SessionInv /\ OwnInv /\ TransferInv  BY SessionInit, TransferInit
  <1>2. SessionInv /\ OwnInv /\ TransferInv => TransfersWhole
    BY TransferInvSafe DEF SessionInv
  <1>3. CASE TunnelRoom
    <2>1. SessionInv /\ OwnInv /\ TransferInv /\ [Next]_vars => (SessionInv /\ OwnInv /\ TransferInv)'
      BY <1>3, SessionNext, TransferNext DEF SessionInv
    <2> QED BY <1>1, <1>2, <2>1, PTL DEF Spec
  <1>4. CASE ~TunnelRoom
    BY <1>4
  <1> QED BY <1>3, <1>4
=============================================================================

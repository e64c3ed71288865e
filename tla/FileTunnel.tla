----------------------------- MODULE FileTunnel -----------------------------
(***************************************************************************)
(* The port-6000 file tunnel (src/file_tunnel/client.rs) and the slot that *)
(* holds its session (src/client/connect.rs, src/client/file_tunnel.rs).   *)
(*                                                                         *)
(* One request runs at a time on one TLS stream.  A request and every      *)
(* frame that answers it carry its `sequence`; streamed answers carry      *)
(* CONTINUE until the last.  The client poisons a session it can no longer *)
(* follow and stops a stream it does not want with TASK_CANCEL.  Files are *)
(* sequences of blocks, a digest is the content it was computed from, and  *)
(* a frame is what the client tells apart in it.  The printer is external: *)
(* it ends a task with the first frame that is not CONTINUE, it answers a  *)
(* TASK_CANCEL with success only once it has stopped the task, and a       *)
(* bounded number of its frames are defective.                             *)
(***************************************************************************)
EXTENDS Integers, Sequences, FiniteSets

CONSTANTS
    FileLen,           \* blocks of the file that is read, and of the upload source
    FrameLimit,        \* max_frame_payload, in blocks
    MaxSkipped,        \* MAX_SKIPPED_FRAMES
    CancelMaxSkipped,  \* CANCEL_MAX_SKIPPED_FRAMES
    SeqMax,            \* u32::MAX, the last `sequence` before the counter wraps
    MaxRequests,       \* bound: requests sent, cancels included
    MaxDefects,        \* bound: defective frames the printer sends
    WireCap            \* bound: frames in transit to the client

ASSUME FileTunnelConstants ==
    /\ FileLen \in Nat \ {0} /\ FrameLimit \in Nat \ {0} /\ SeqMax \in Nat \ {0, 1}
    /\ MaxSkipped \in Nat /\ CancelMaxSkipped \in Nat
    /\ MaxRequests \in Nat /\ MaxDefects \in Nat /\ WireCap \in Nat

VARIABLES
    tunnel,         \* the slot: "none", "login" or "setup" (a dial in progress), "open"
    poisoned,       \* FileTunnelClient::poisoned
    next_sequence,  \* FileTunnelClient::next_sequence
    op,             \* the running operation: its locals and the await it is at
    got,            \* the blocks its sink or output buffer has received
    last,           \* what the latest operation returned
    inbox,          \* frames on their way to the printer
    tasks,          \* the printer's open tasks
    stored,         \* the file that uploads write and FILE_DEL deletes
    wire,           \* frames on their way to the client
    torn,           \* directions ("up", "down") cut inside a frame
    asked,          \* requests sent so far: the identity of each request
    defects,        \* defective frames sent so far
    dropped,        \* this session had an operation dropped at an await
    unread,         \* this session had a single reply whose body did not parse
    foreign         \* an operation took a frame of another request as its own

client == <<tunnel, poisoned, next_sequence, op, got, last>>
printer == <<inbox, tasks, stored, wire, torn, defects>>
history == <<asked, dropped, unread, foreign>>
vars == <<client, printer, history>>

-----------------------------------------------------------------------------
File == [i \in 1..FileLen |-> i]
Garbage == 0    \* a block that is not the file's

Singles == {"REQUEST_MEDIA_ABILITY", "LIST_INFO", "FILE_DEL"}
Streams == {"FILE_DOWNLOAD", "MEM_DOWNLOAD", "SUB_FILE"}
Commands == Singles \cup Streams \cup {"FILE_UPLOAD"}

\* A running-job member is a FILE_DOWNLOAD on the wire.
cmdtype(cmd) == IF cmd = "MEM_DOWNLOAD" THEN "FILE_DOWNLOAD" ELSE cmd

Unlimited == -1
Idle == [at |-> "idle", cmd |-> "none", seq |-> 0, id |-> 0, task |-> 0, skipped |-> 0,
         ret |-> "none", max |-> Unlimited, start |-> 0, len |-> 0, index |-> 0, finals |-> 0]
NoOutcome == [cmd |-> "none", res |-> "none", max |-> Unlimited]

\* A reply's body, every field of every reply type; an absent one parses to its default.
NoBody == [part |-> "data", off |-> 0, size |-> 0, total |-> 0, data |-> <<>>,
           md5 |-> <<>>, more |-> FALSE]
Notify == [kind |-> "notify", id |-> 0, seq |-> 0, cmd |-> "none", result |-> "none", body |-> NoBody]
Reply(r, result, body) ==
    [kind |-> "reply", id |-> r.id, seq |-> r.seq, cmd |-> cmdtype(r.cmd), result |-> result,
     body |-> body]

\* The session and its TLS stream are gone: nothing is in transit, and the printer knows no task.
FreshStream ==
    /\ poisoned' = FALSE /\ next_sequence' = 1 /\ got' = <<>> /\ last' = NoOutcome
    /\ inbox' = <<>> /\ wire' = <<>> /\ tasks' = {} /\ torn' = {}
    /\ dropped' = FALSE /\ unread' = FALSE

Init ==
    /\ tunnel = "none" /\ poisoned = FALSE /\ next_sequence = 1
    /\ op = Idle /\ got = <<>> /\ last = NoOutcome
    /\ inbox = <<>> /\ tasks = {} /\ stored = <<>> /\ wire = <<>> /\ torn = {}
    /\ asked = 0 /\ defects = 0 /\ dropped = FALSE /\ unread = FALSE /\ foreign = FALSE

-----------------------------------------------------------------------------
(* The slot.                                                               *)

\* A session that is missing is dialed; a poisoned one is taken out of the slot and redialed.
ensure_file_tunnel ==
    /\ tunnel = "none" \/ (tunnel = "open" /\ op.at = "idle" /\ poisoned)
    /\ tunnel' = "login"
    /\ FreshStream
    /\ UNCHANGED <<op, stored, asked, defects, foreign>>

\* Any login answer but a reject goes on to the setup exchange.
HandshakeStep ==
    \/ tunnel = "login" /\ tunnel' = "setup"
    \/ tunnel = "setup" /\ tunnel' = "open"

\* A reject, a read failure, the connect timeout or a dropped future: nothing reaches the slot.
HandshakeFailed ==
    /\ tunnel \in {"login", "setup"}
    /\ tunnel' = "none"

Handshake ==
    /\ HandshakeStep \/ HandshakeFailed
    /\ UNCHANGED <<poisoned, next_sequence, op, got, last, printer, history>>

disconnect_file_tunnel ==
    /\ tunnel = "open" /\ op.at = "idle"
    /\ tunnel' = "none"
    /\ FreshStream
    /\ UNCHANGED <<op, stored, asked, defects, foreign>>

-----------------------------------------------------------------------------
(* Requests.                                                               *)

\* wrapping_add(1).max(1): 0 belongs to the setup frame.  (Mutant: it wraps to 0.)
AfterSequenceWithZero(s) == IF s = SeqMax THEN 0 ELSE s + 1
AfterSequence(s) == IF s = SeqMax THEN 1 ELSE s + 1

\* Gives the request about to be written its sequence.
TakeSequence ==
    /\ asked' = asked + 1
    /\ next_sequence' = AfterSequence(next_sequence)

\* The first half of every public method: refused on a poisoned session, before anything is sent.
Start(cmd, max) ==
    /\ tunnel = "open" /\ op.at = "idle" /\ ~poisoned
    /\ asked + 2 <= MaxRequests    \* the request, and the cancel it may need
    /\ TakeSequence
    /\ op' = [Idle EXCEPT !.at = "send", !.cmd = cmd, !.seq = next_sequence,
                          !.id = asked + 1, !.max = max]
    /\ got' = <<>> /\ last' = NoOutcome
    /\ UNCHANGED <<tunnel, poisoned, printer, dropped, unread, foreign>>

Request ==
    \/ \E cmd \in Singles \cup {"FILE_DOWNLOAD", "FILE_UPLOAD"} : Start(cmd, Unlimited)
    \/ \E cmd \in {"MEM_DOWNLOAD", "SUB_FILE"}, max \in 1..FileLen : Start(cmd, max)

\* What a finished operation leaves; the stream's own variables are for its caller to say.
Return(res) ==
    /\ op' = Idle
    /\ last' = [cmd |-> op.cmd, res |-> res, max |-> op.max]
    /\ UNCHANGED <<next_sequence, asked>>

Poison(res) == poisoned' = TRUE /\ Return(res)

\* A failure inside `abandon` poisons the session and returns what the stream had come to.
Broken == Poison(IF op.at \in {"csend", "creply"} THEN op.ret ELSE "err")

\* Stops a stream that has more to come; the operation then returns `res`.
abandon(res) ==
    /\ TakeSequence
    /\ op' = [op EXCEPT !.at = "csend", !.task = op.seq, !.seq = next_sequence,
                        !.id = asked + 1, !.skipped = 0, !.ret = res]
    /\ UNCHANGED <<poisoned, last>>

\* A stream that has more to come is cancelled first.  (Mutant: it is left running.)
StopStreamSilently(more, res) == Return(res) /\ UNCHANGED poisoned
StopStream(more, res) ==
    IF more THEN abandon(res) ELSE Return(res) /\ UNCHANGED poisoned

\* A frame that makes no sense poisons the session only while more frames are due.
Senseless(more) == Return("err") /\ poisoned' = (poisoned \/ more)

Message(cmd) == [cmd |-> cmd, seq |-> op.seq, id |-> op.id, task |-> op.task,
                 off |-> 0, data |-> <<>>, md5 |-> <<>>]

\* A frame written whole reaches the printer, unless an earlier one was cut short.
Deliver(frame) == inbox' = IF "up" \in torn THEN inbox ELSE Append(inbox, frame)

Writing == op.at \in {"send", "csend", "chunk"}

WriteFailed ==
    /\ Writing
    /\ Broken
    /\ torn' = torn \cup {"up"}
    /\ UNCHANGED <<tunnel, got, inbox, tasks, stored, wire, defects, dropped, unread, foreign>>

-----------------------------------------------------------------------------
(* Uploads: every chunk goes out on the init's sequence, without a read    *)
(* between them, and the last carries the digest of the whole source.      *)

\* remaining.div_ceil(chunk_len).  (Mutant: rounded down.)
chunk_count_floor(start, len) == IF FileLen - start < len THEN 1 ELSE (FileLen - start) \div len
chunk_count(start, len) == (FileLen - start + len - 1) \div len

\* The digest consumed the bytes before the offset too, and every chunk up to this one's end.
\* (Mutant: only the bytes sent.)
DigestFromOffset(start, end) == SubSeq(File, start + 1, end)
Digest(start, end) == SubSeq(File, 1, end)

Chunk ==
    LET offset == op.start + op.index * op.len
        end == IF offset + op.len > FileLen THEN FileLen ELSE offset + op.len
        final == op.index = chunk_count(op.start, op.len) - 1
    IN  [Message("CHUNK") EXCEPT !.off = offset, !.data = SubSeq(File, offset + 1, end),
                                 !.md5 = IF final THEN Digest(op.start, end) ELSE <<>>]

Outgoing ==
    CASE op.at = "send" -> Message(op.cmd)
      [] op.at = "csend" -> Message("TASK_CANCEL")
      [] op.at = "chunk" -> Chunk

FrameWritten ==
    /\ Writing
    /\ Deliver(Outgoing)
    /\ op' = CASE op.at = "send" -> [op EXCEPT !.at = "reply"]
               [] op.at = "csend" -> [op EXCEPT !.at = "creply"]
               [] op.at = "chunk" -> IF op.index = chunk_count(op.start, op.len) - 1
                                     THEN [op EXCEPT !.at = "final", !.skipped = 0]
                                     ELSE [op EXCEPT !.index = @ + 1]
    /\ UNCHANGED <<tunnel, poisoned, next_sequence, got, last, tasks, stored, wire, torn,
                   defects, history>>

\* The source fails: before the first chunk the upload is cancelled, later the session is poisoned.
SourceFailed ==
    /\ op.at = "chunk"
    /\ IF op.index = 0 THEN abandon("err") ELSE Poison("err")
    /\ UNCHANGED <<tunnel, got, printer, dropped, unread, foreign>>

-----------------------------------------------------------------------------
(* Replies.                                                                *)

Reading == op.at \in {"reply", "final", "creply"}

Arrived == Head(wire)

\* The running request's own answer: same sequence, and the same cmdtype where it gives one.
\* (Mutant: cmdtype alone.)
Expected == IF op.at = "creply" THEN "TASK_CANCEL" ELSE cmdtype(op.cmd)
AnswersCommand(f) == f.cmd \in {Expected, "none"}
Answers(f) == f.seq = op.seq /\ f.cmd \in {Expected, "none"}

\* `for _ in 0..=max_skipped`: the frame that exhausts the budget poisons.
BudgetLeft == op.skipped < (IF op.at = "creply" THEN CancelMaxSkipped ELSE MaxSkipped)
\* (Mutant: skipped frames are not counted.)
SkippedUncounted(n) == n
Skipped(n) == n + 1

Read ==
    /\ Reading /\ wire # <<>> /\ "down" \notin torn
    /\ wire' = Tail(wire)
    /\ UNCHANGED <<tunnel, inbox, tasks, stored, torn, defects, dropped>>

\* A notify, or a frame of an earlier request, is passed over.
SkipFrame ==
    /\ Read
    /\ Arrived.kind = "notify" \/ (Arrived.kind = "reply" /\ ~Answers(Arrived))
    /\ IF BudgetLeft
       THEN op' = [op EXCEPT !.skipped = Skipped(@)]
            /\ UNCHANGED <<poisoned, last, next_sequence, asked>>
       ELSE Broken
    /\ UNCHANGED <<got, unread, foreign>>

\* A reject frame, or one whose envelope does not parse.
ReadBroken ==
    /\ Read
    /\ Arrived.kind \in {"reject", "garbled"}
    /\ Broken
    /\ UNCHANGED <<got, unread, foreign>>

\* A timeout, a reset or an oversized frame; on a torn stream, what is left of a frame.
ReadFailed ==
    /\ Reading
    /\ Broken
    /\ UNCHANGED <<tunnel, got, printer, dropped, unread, foreign>>

Accept ==
    /\ Read
    /\ Arrived.kind = "reply" /\ Answers(Arrived)
    /\ foreign' = (foreign \/ Arrived.id # op.id)

\* A body of the wrong shape is returned as an error without poisoning.
SingleReply ==
    /\ Accept /\ op.at = "reply" /\ op.cmd \in Singles
    /\ IF Arrived.body.part = "malformed" THEN Return("err") /\ UNCHANGED poisoned
       ELSE IF Arrived.result = "continue" THEN Poison("err")
       ELSE /\ Return(IF Arrived.result = "success" /\ Arrived.body.part # "pathless"
                      THEN "ok" ELSE "err")
            /\ UNCHANGED poisoned
    /\ unread' = (unread \/ Arrived.body.part = "malformed")
    /\ UNCHANGED got

\* max_total: the running-job reads refuse a member by the total its frames declare.
\* (Mutant: one block too many.)
OverLimitByOne(total) == op.max # Unlimited /\ total > op.max + 1
OverLimit(total) == op.max # Unlimited /\ total > op.max

\* md5_matches.  (Mutant: any digest will do.)
Md5Ignored(content, md5) == md5 # <<>>
Md5Matches(content, md5) == content = md5

\* The chunk is out: more follows, or the total and the digest are checked.
Received(f, content) ==
    /\ got' = content
    /\ IF f.result = "continue"
       THEN op' = [op EXCEPT !.skipped = 0]
            /\ UNCHANGED <<poisoned, last, next_sequence, asked>>
       ELSE /\ Return(IF /\ Len(content) = f.body.total
                         /\ f.body.md5 # <<>>
                         /\ Md5Matches(content, f.body.md5)
                      THEN "ok" ELSE "err")
            /\ UNCHANGED poisoned

receive_download ==
    /\ Accept /\ op.at = "reply" /\ op.cmd \in {"FILE_DOWNLOAD", "MEM_DOWNLOAD"}
    /\ LET b == Arrived.body
           more == Arrived.result = "continue"
       IN  IF b.part = "malformed" THEN Poison("err") /\ UNCHANGED got
           ELSE IF Arrived.result \notin {"continue", "success"}
           THEN Return("err") /\ UNCHANGED <<poisoned, got>>
           ELSE IF b.part = "status_malformed" THEN Poison("err") /\ UNCHANGED got
           ELSE IF b.part = "status_refused"
           THEN StopStream(more, "err") /\ UNCHANGED got
           ELSE IF b.part = "status"
           THEN /\ IF more THEN op' = [op EXCEPT !.skipped = 0]
                                /\ UNCHANGED <<poisoned, last, next_sequence, asked>>
                   ELSE Return("err") /\ UNCHANGED poisoned
                /\ UNCHANGED got
           ELSE IF OverLimit(b.total)
           THEN StopStream(more, "err") /\ UNCHANGED got
           ELSE IF \/ Len(got) + b.size > b.total
                   \/ b.off # Len(got)
                   \/ b.size > Len(b.data)
           THEN Senseless(more) /\ UNCHANGED got
           ELSE \/ Received(Arrived, got \o SubSeq(b.data, 1, b.size))
                \/ \* the caller's sink fails; a member read's buffer never does
                   op.cmd = "FILE_DOWNLOAD" /\ StopStream(more, "err") /\ UNCHANGED got
    /\ UNCHANGED unread

read_file_member ==
    /\ Accept /\ op.at = "reply" /\ op.cmd = "SUB_FILE"
    /\ LET b == Arrived.body
           more == Arrived.result = "continue"
           content == got \o SubSeq(b.data, 1, b.size)
       IN  IF b.part = "malformed" THEN Poison("err") /\ UNCHANGED got
           ELSE IF Arrived.result \notin {"continue", "success"}
           THEN Return("err") /\ UNCHANGED <<poisoned, got>>
           ELSE IF b.size = 0 THEN StopStream(more, "none") /\ UNCHANGED got
           ELSE IF b.size > Len(b.data) THEN Senseless(more) /\ UNCHANGED got
           ELSE IF Len(content) > op.max THEN StopStream(more, "err") /\ UNCHANGED got
           ELSE /\ got' = content
                /\ IF b.more /\ more
                   THEN op' = [op EXCEPT !.skipped = 0]
                        /\ UNCHANGED <<poisoned, last, next_sequence, asked>>
                   ELSE StopStream(more, "ok")
    /\ UNCHANGED unread

\* The init reply sets the chunk size and the offset; ones the client cannot send are cancelled.
UploadInit ==
    /\ Accept /\ op.at = "reply" /\ op.cmd = "FILE_UPLOAD"
    /\ LET b == Arrived.body
       IN  IF b.part = "malformed" THEN Poison("err")
           ELSE IF Arrived.result \notin {"continue", "exist"}
           THEN Return("err") /\ UNCHANGED poisoned
           ELSE IF b.size \in 1..FrameLimit /\ b.off < FileLen
           THEN op' = [op EXCEPT !.at = "chunk", !.start = b.off, !.len = b.size]
                /\ UNCHANGED <<poisoned, last, next_sequence, asked>>
           ELSE abandon("err")
    /\ UNCHANGED <<got, unread>>

\* Progress frames: at most one per chunk, plus the usual slack, before the final reply.
FinalsLeft == op.finals < chunk_count(op.start, op.len) - 1 + MaxSkipped

UploadFinal ==
    /\ Accept /\ op.at = "final"
    /\ IF Arrived.result = "continue"
       THEN IF FinalsLeft
            THEN op' = [op EXCEPT !.finals = @ + 1, !.skipped = 0]
                 /\ UNCHANGED <<poisoned, last, next_sequence, asked>>
            ELSE Poison("err")
       ELSE Return(IF Arrived.result = "success" THEN "ok" ELSE "err") /\ UNCHANGED poisoned
    /\ UNCHANGED <<got, unread>>

CancelReply ==
    /\ Accept /\ op.at = "creply"
    /\ IF Arrived.result = "success" THEN Return(op.ret) /\ UNCHANGED poisoned ELSE Poison(op.ret)
    /\ UNCHANGED <<got, unread>>

\* The caller drops the operation at its await: a frame may be half written or half read.
Drop ==
    /\ op.at # "idle"
    /\ op' = Idle /\ last' = NoOutcome /\ dropped' = TRUE
    /\ \/ UNCHANGED <<inbox, torn>>
       \/ Writing /\ torn' = torn \cup {"up"} /\ UNCHANGED inbox
       \/ Writing /\ Deliver(Outgoing) /\ UNCHANGED torn
       \/ Reading /\ wire # <<>> /\ torn' = torn \cup {"down"} /\ UNCHANGED inbox
    /\ UNCHANGED <<tunnel, poisoned, next_sequence, got, tasks, stored, wire, defects,
                   asked, unread, foreign>>

-----------------------------------------------------------------------------
(* The printer (external).                                                  *)

Send(frames) == wire' = wire \o frames
Room == Len(wire) < WireCap

Defect(isDefect) == /\ isDefect => defects < MaxDefects
                    /\ defects' = defects + (IF isDefect THEN 1 ELSE 0)

\* A task stays open exactly while its latest frame said CONTINUE.
Open(r, part) == [id |-> r.id, seq |-> r.seq, cmd |-> r.cmd, part |-> part,
                  sent |-> IF r.cmd = "MEM_DOWNLOAD" THEN -1 ELSE 0]

HandleSingle(r) ==
    \E result \in {"success", "fail", "none", "continue"},
       part \in {"data", "pathless", "malformed"} :
        /\ part = "pathless" => r.cmd = "LIST_INFO"
        /\ part = "malformed" => r.cmd # "FILE_DEL"
        /\ Defect(part # "data" \/ result \in {"none", "continue"})
        /\ Send(<<Reply(r, result, [NoBody EXCEPT !.part = part])>>)
        /\ tasks' = tasks \cup (IF result = "continue" THEN {Open(r, <<>>)} ELSE {})
        /\ stored' = IF r.cmd = "FILE_DEL" /\ result = "success" THEN <<>> ELSE stored

HandleStream(r) ==
    /\ \/ \E cmd \in {cmdtype(r.cmd), "none"} :    \* a reply may omit its cmdtype
             Send(<<[Reply(r, "fail", NoBody) EXCEPT !.cmd = cmd]>>) /\ UNCHANGED tasks
       \/ tasks' = tasks \cup {Open(r, <<>>)} /\ UNCHANGED wire
    /\ UNCHANGED <<stored, defects>>

\* A resumed upload has the first `off` blocks already, of this file or of another.
HandleInit(r) ==
    /\ \/ \E result \in {"success", "fail", "none"} :
             /\ Send(<<Reply(r, result, NoBody)>>)
             /\ UNCHANGED <<tasks, defects>>
       \/ \E off \in 0..FileLen, len \in 0..(FrameLimit + 1), result \in {"continue", "exist"},
             old \in {Garbage, 1} :
             /\ Send(<<Reply(r, result, [NoBody EXCEPT !.off = off, !.size = len])>>)
             /\ tasks' = tasks \cup {Open(r,
                             [i \in 1..off |-> IF old = Garbage THEN Garbage ELSE File[i]])}
             /\ Defect(len \notin 1..FrameLimit \/ off = FileLen)
       \/ /\ Send(<<Reply(r, "continue", [NoBody EXCEPT !.part = "malformed"])>>)
          /\ tasks' = tasks \cup {Open(r, <<>>)}
          /\ Defect(TRUE)
    /\ UNCHANGED stored

\* A chunk of a task that has ended is ignored.  The last one is checked against its digest.
HandleChunk(r) ==
    /\ LET mine == {t \in tasks : t.seq = r.seq /\ t.cmd = "FILE_UPLOAD"}
       IN  IF mine = {} THEN UNCHANGED <<tasks, wire, stored>>
           ELSE LET t == CHOOSE t \in mine : TRUE
                    content == t.part \o r.data
                IN  \/ /\ r.md5 = <<>>
                       /\ tasks' = (tasks \ {t}) \cup {[t EXCEPT !.part = content]}
                       /\ UNCHANGED <<wire, stored>>
                    \/ /\ r.md5 # <<>> /\ content = r.md5
                       /\ tasks' = tasks \ {t} /\ stored' = content
                       /\ Send(<<Reply(t, "success", NoBody)>>)
                    \/ \* a digest that does not match, a full storage
                       /\ tasks' = tasks \ {t} /\ UNCHANGED stored
                       /\ Send(<<Reply(t, "fail", NoBody)>>)
    /\ UNCHANGED defects

\* Success means the task is over; a refusal leaves it as it is; the answer may never come.
HandleCancel(r) ==
    /\ \/ /\ tasks' = {t \in tasks : t.seq # r.task}
          /\ Send(<<Reply(r, "success", NoBody)>>)
       \/ Send(<<Reply(r, "fail", NoBody)>>) /\ UNCHANGED tasks
       \/ UNCHANGED <<tasks, wire>>
    /\ UNCHANGED <<stored, defects>>

PrinterReceives ==
    /\ inbox # <<>> /\ Room
    /\ inbox' = Tail(inbox)
    /\ LET r == Head(inbox)
       IN  \/ r.cmd \in Singles /\ HandleSingle(r)
           \/ r.cmd \in Streams /\ HandleStream(r)
           \/ r.cmd = "FILE_UPLOAD" /\ HandleInit(r)
           \/ r.cmd = "CHUNK" /\ HandleChunk(r)
           \/ r.cmd = "TASK_CANCEL" /\ HandleCancel(r)
    /\ UNCHANGED <<client, torn, history>>

\* The next fragment of a stream, and the ways one can be wrong.
Fragment(t) ==
    LET final == t.sent + 1 = FileLen
    IN  [result |-> IF final THEN "success" ELSE "continue",
         body |-> [part |-> "data", off |-> t.sent, size |-> 1, total |-> FileLen,
                   data |-> <<File[t.sent + 1]>>,
                   md5 |-> IF final /\ t.cmd # "SUB_FILE" THEN File ELSE <<>>,
                   more |-> ~final]]

WrongFragments(t) ==
    LET f == Fragment(t)
    IN  {[f EXCEPT !.result = "success"], [f EXCEPT !.result = "continue"],
         [f EXCEPT !.result = "none"], [f EXCEPT !.body.part = "malformed"],
         [f EXCEPT !.body.off = @ + 1], [f EXCEPT !.body.size = 2],
         [f EXCEPT !.body.data = <<Garbage>>], [f EXCEPT !.body.total = @ - 1],
         [f EXCEPT !.body.md5 = <<>>], [f EXCEPT !.body.md5 = <<Garbage>>]} \ {f}

\* A member that is not there has size 0; a member's last fragment may still say CONTINUE.
MemberVariants(t) ==
    IF t.cmd # "SUB_FILE" THEN {}
    ELSE {[result |-> r, body |-> NoBody] : r \in {"success", "continue"}}
         \cup {[Fragment(t) EXCEPT !.result = "continue"]}

\* The first frame of a running-job read is the printer's status.
Statuses ==
    {[result |-> r, body |-> [NoBody EXCEPT !.part = p]] :
        r \in {"continue", "success"}, p \in {"status", "status_refused", "status_malformed"}}

SendNext(t, f) ==
    /\ Send(<<Reply(t, f.result, f.body)>>)
    /\ tasks' = (tasks \ {t}) \cup (IF f.result = "continue"
                                    THEN {[t EXCEPT !.sent = @ + 1]} ELSE {})

PrinterSends ==
    /\ Room
    /\ \E t \in tasks :
        \/ /\ t.cmd \in Streams /\ t.sent = -1
           /\ \E f \in Statuses : SendNext(t, f) /\ Defect(f.body.part = "status_malformed")
        \/ /\ t.cmd \in Streams /\ t.sent \in 0..(FileLen - 1)
           /\ \/ \E f \in {Fragment(t)} \cup MemberVariants(t) :
                    SendNext(t, f) /\ UNCHANGED defects
              \/ \E f \in WrongFragments(t) : SendNext(t, f) /\ Defect(TRUE)
        \/ \* the end of a stream whose last fragment said CONTINUE
           /\ t.cmd \in Streams /\ t.sent = FileLen
           /\ SendNext(t, [result |-> "success", body |-> NoBody]) /\ UNCHANGED defects
        \/ \* progress of an upload, or the rest of a single reply that became a stream
           /\ t.cmd \notin Streams
           /\ Send(<<Reply(t, "continue", NoBody)>>) /\ UNCHANGED <<tasks, defects>>
    /\ UNCHANGED <<client, inbox, stored, torn, history>>

PrinterInterjects ==
    /\ Room /\ tunnel = "open"
    /\ \/ Send(<<Notify>>) /\ UNCHANGED defects
       \/ \E kind \in {"reject", "garbled"} :
             Send(<<[Notify EXCEPT !.kind = kind]>>) /\ Defect(TRUE)
    /\ UNCHANGED <<client, inbox, tasks, stored, torn, history>>

-----------------------------------------------------------------------------
ClientStep ==
    \/ FrameWritten \/ WriteFailed \/ SourceFailed
    \/ SkipFrame \/ ReadBroken \/ ReadFailed
    \/ SingleReply \/ receive_download \/ read_file_member
    \/ UploadInit \/ UploadFinal \/ CancelReply

\* What the printer does to a poisoned session is never read, and its redial forgets it.
PrinterStep == ~poisoned /\ (PrinterReceives \/ PrinterSends \/ PrinterInterjects)

Next ==
    \/ ensure_file_tunnel \/ Handshake \/ disconnect_file_tunnel
    \/ Request \/ ClientStep \/ Drop
    \/ PrinterStep

Spec == Init /\ [][Next]_vars

\* Every write and every read of an operation has a deadline, so a running one takes its steps.
FairSpec == Spec /\ WF_vars(ClientStep)

-----------------------------------------------------------------------------
Blocks == 0..FileLen
Bodies == [part : {"data", "pathless", "malformed", "status", "status_refused",
                   "status_malformed"},
           off : Nat, size : Nat, total : Nat, data : Seq(Blocks), md5 : Seq(Blocks),
           more : BOOLEAN]

\* The session's counter stays a sequence number the wire can carry (never 0, which is the
\* setup frame's), and every local is of its type.
TypeOK ==
    /\ tunnel \in {"none", "login", "setup", "open"}
    /\ poisoned \in BOOLEAN /\ next_sequence \in 1..SeqMax
    /\ op.at \in {"idle", "send", "reply", "chunk", "final", "csend", "creply"}
    /\ op.cmd \in Commands \cup {"none"} /\ op.seq \in 0..SeqMax
    /\ op.index \in Nat /\ op.start \in Nat /\ op.len \in Nat
    /\ got \in Seq(Blocks) /\ stored \in Seq(Blocks)
    /\ last.res \in {"none", "ok", "err"}
    /\ \A i \in 1..Len(wire) : wire[i].body \in Bodies
    /\ torn \subseteq {"up", "down"}
    /\ asked \in Nat /\ defects \in 0..MaxDefects
    /\ dropped \in BOOLEAN /\ unread \in BOOLEAN /\ foreign \in BOOLEAN

\* An idle session that is not poisoned has nothing of an earlier operation left: the printer
\* runs no task of it and no reply is in transit, whatever cut the operation short (a failed
\* sink, a size limit, a bad fragment, a failed source).  An operation dropped at an await, and
\* a single reply whose body did not parse, are the two ways around it.
UsableIsClean ==
    (tunnel = "open" /\ op.at = "idle" /\ ~poisoned /\ ~dropped /\ ~unread)
        => /\ tasks = {}
           /\ \A i \in 1..Len(wire) : wire[i].kind # "reply"

\* No operation takes a frame that answers another request as its own, also after operations
\* were dropped with frames of their streams still to come.
OwnFrames == ~foreign

\* A download that returns Ok has passed on exactly the file, in order, whatever the printer's
\* frames declared; a member read by SUB_FILE, which carries no digest, has when they were sound.
ReadIsWhole ==
    last.res = "ok" =>
        /\ last.cmd \in {"FILE_DOWNLOAD", "MEM_DOWNLOAD"} => got = File
        /\ last.cmd = "SUB_FILE" /\ defects = 0 => got = File

\* A member read never holds more than the caller's limit, while it runs and when it returns.
MemberBounded ==
    \A o \in {op, last} : o.cmd \in {"MEM_DOWNLOAD", "SUB_FILE"} => Len(got) <= o.max

\* An upload that returns Ok has stored exactly the source at the printer, resumed or not.
UploadStored ==
    (last.cmd = "FILE_UPLOAD" /\ last.res = "ok") => stored = File

\* When the printer checks the last chunk of an upload it resumed from a right prefix, what it
\* has put together is what the digest was computed from: resuming never fails the check.
ResumeVerifies ==
    \A t \in tasks :
        (/\ inbox # <<>> /\ t.cmd = "FILE_UPLOAD"
         /\ Head(inbox).seq = t.seq /\ Head(inbox).cmd = "CHUNK" /\ Head(inbox).md5 # <<>>
         /\ t.part = SubSeq(File, 1, Len(t.part)))
            => t.part \o Head(inbox).data = Head(inbox).md5

\* Every operation returns, also when the printer never answers, never stops sending notifies or
\* reports progress for ever.
EveryOperationReturns == op.at # "idle" ~> op.at = "idle"

\* A session left usable is one the next operation can start on: nothing of an earlier operation
\* is left on it, and its sequence counter is one the wire can carry.
SessionKept == TypeOK /\ UsableIsClean

\* A transfer reported as done is whole: downloads and member reads pass on exactly the file and
\* no more than the caller has room for, an upload, resumed or not, has stored exactly its source,
\* and resuming a right prefix does not fail the printer's digest check.
TransfersWhole == ReadIsWhole /\ MemberBounded /\ UploadStored /\ ResumeVerifies
=============================================================================

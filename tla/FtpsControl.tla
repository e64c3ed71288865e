---------------------------- MODULE FtpsControl ----------------------------
(***************************************************************************)
(* FtpsClient (src/ftps/client.rs) on its control channel, in the slot in   *)
(* which PrinterClient keeps it (ensure_ftps, disconnect_ftps).             *)
(*                                                                         *)
(* Every exchange is a command written and a reply read; a transfer adds a  *)
(* data channel between its "150" and a final reply.  The server is         *)
(* external: it answers each command that reaches it with one reply, and    *)
(* each transfer it opened with a final one, in order.  `replies` is what   *)
(* it sent and the client has not read; whether a reply comes in time is a  *)
(* race with the read's deadline, so a read may fail with replies queued.   *)
(* Reply codes and file contents are abstracted to what the client tells    *)
(* apart: the codes it compares with, sizes, and the names in a listing.    *)
(***************************************************************************)
EXTENDS Integers, Sequences, FiniteSets

CONSTANTS
  Paths,          \* remote files, all in one directory
  Sizes,          \* file sizes
  ListingLimit,   \* FTP_MAX_LISTING_ENTRIES
  MaxOps          \* bound: operations called

ASSUME FtpsAssumption ==
  /\ Sizes \subseteq Nat
  /\ Sizes # {}
  /\ IsFiniteSet(Paths)
  /\ ListingLimit \in Nat \ {0}
  /\ MaxOps \in Nat

VARIABLES
  ftps,      \* is self.ftps Some?
  config,    \* is self.ftps_config Some?
  poisoned,
  fut,       \* the running operation
  issued,    \* number of commands the client wrote
  replies,   \* replies sent and unread
  files,     \* the server's directory: path -> size or Absent
  returned,  \* the last operation that returned, until the next call
  dropped,   \* history: did a caller drop an operation of this session?
  ops        \* number of operations called

slot   == <<ftps, config>>
vars   == <<slot, poisoned, fut, issued, replies, files, returned, dropped, ops>>

Absent == -1
Present == {p \in Paths : files[p] # Absent}

\* The single-reply commands that read or change nothing modelled here.
Simple == {"SIZE", "MDTM", "AVBL", "MKD"}
Transfers == {"upload", "download", "prefix", "list"}
Op == {"none", "simple", "remove", "rename", "quit", "attach"} \cup Transfers
Verb == Simple \cup {"none", "PASV", "STOR", "RETR", "LIST", "DELE", "RNFR", "RNTO"}
\* The command each operation's data channel is opened for; finish_removal and
\* list_directory both list.  (Mutant: finish_removal's listing is forgotten.)
TransferVerbForgotten(op) ==
  CASE op = "upload" -> "STOR" [] op = "list" -> "LIST" [] op = "remove" -> "none" [] OTHER -> "RETR"
TransferVerb(op) ==
  IF op = "upload" THEN "STOR" ELSE IF op \in {"download", "prefix"} THEN "RETR" ELSE "LIST"

\* `size` is the upload's length, or the bytes a download read; `names` what a
\* listing delivered; `whole` whether it ended on a line terminator.
Idle == [at |-> "idle", op |-> "none", verb |-> "none", path |-> "none", to |-> "none",
         size |-> 0, names |-> {}, whole |-> TRUE]
Begin(op, verb, path, to, size) ==
  [Idle EXCEPT !.at = "write", !.op = op, !.verb = verb, !.path = path, !.to = to, !.size = size]
Send(verb) == [fut EXCEPT !.at = "write", !.verb = verb]
Goto(at) == [fut EXCEPT !.at = at]

Nothing == [op |-> "none", path |-> "none", ok |-> FALSE, size |-> 0]
\* The operation returns to its caller.
Return(ok) ==
  /\ fut' = Idle
  /\ returned' = [op |-> fut.op, path |-> fut.path, ok |-> ok, size |-> fut.size]
Continue(f) == fut' = f /\ UNCHANGED returned

Init ==
  /\ ftps = FALSE
  /\ config = TRUE
  /\ poisoned = FALSE
  /\ fut = Idle
  /\ issued = 0
  /\ replies = <<>>
  /\ files \in [Paths -> Sizes \cup {Absent}]
  /\ returned = Nothing
  /\ dropped = FALSE
  /\ ops = 0

----------------------------------------------------------------------------
(* The server (external)                                                    *)

Reply(final, code, size) == [cmd |-> issued + 1, final |-> final, code |-> code, size |-> size]
Answer(code, size) == Append(replies, Reply(FALSE, code, size))

\* The server receives fut.verb.  Any command can also be refused.  A 550 says
\* that a file is missing or that the server will not remove it.
Serve ==
  LET p == fut.path IN
  \/ /\ replies' = Answer("error", 0)
     /\ UNCHANGED files
  \/ /\ fut.verb = "SIZE"
     /\ replies' = IF files[p] = Absent THEN Answer("550", 0) ELSE Answer("213", files[p])
     /\ UNCHANGED files
  \/ /\ fut.verb \in {"MDTM", "AVBL", "MKD"}
     /\ \E code \in {"213", "250", "502"} : replies' = Answer(code, 0)
     /\ UNCHANGED files
  \/ /\ fut.verb = "PASV"
     /\ replies' = Answer("227", 0)
     /\ UNCHANGED files
  \/ /\ fut.verb \in {"STOR", "RETR", "LIST"}
     /\ fut.verb = "RETR" => files[p] # Absent
     /\ replies' = Answer("150", 0)
     /\ UNCHANGED files
  \/ /\ fut.verb = "DELE"
     /\ replies' = Answer("550", 0)
     /\ UNCHANGED files
  \/ /\ fut.verb = "DELE" /\ files[p] # Absent
     /\ replies' = Answer("250", 0)
     /\ files' = [files EXCEPT ![p] = Absent]
  \/ /\ fut.verb = "RNFR" /\ files[p] # Absent
     /\ replies' = Answer("350", 0)
     /\ UNCHANGED files
  \/ /\ fut.verb = "RNTO" /\ files[p] # Absent
     /\ replies' = Answer("250", 0)
     /\ files' = [files EXCEPT ![p] = Absent, ![fut.to] = files[p]]

\* The server ends an open transfer with its final reply, having stored any
\* part of an upload.
Final(code) == Append(replies, [cmd |-> issued, final |-> TRUE, code |-> code, size |-> 0])
EndTransfer(code) ==
  /\ replies' = Final(code)
  /\ IF fut.verb = "STOR"
     THEN \E n \in {s \in Sizes : s <= fut.size} : files' = [files EXCEPT ![fut.path] = n]
     ELSE UNCHANGED files

----------------------------------------------------------------------------
(* PrinterClient's slot                                                     *)

\* What belongs to one control connection ends with it.
NewSession ==
  /\ poisoned' = FALSE
  /\ replies' = <<>>
  /\ dropped' = FALSE
  /\ returned' = Nothing

\* ensure_ftps: a poisoned session is disconnected at once (no QUIT), then one
\* login attempt is made over the borrowed configuration.
Ensure(connects) ==
  /\ fut = Idle
  /\ ~ftps \/ poisoned
  /\ ftps \/ config
  /\ ftps' = connects
  /\ config' = ~connects
  /\ NewSession
  /\ UNCHANGED <<fut, issued, files, ops>>

\* disconnect_ftps, also as the first half of attach_ftps, takes the client out
\* of its slot, then awaits its disconnect: QUIT, its reply and the TLS close,
\* none of which a poisoned client sends.  The parts come back when it returns,
\* and attach_ftps then installs the session it was given.
Disconnect(op) ==
  /\ fut = Idle
  /\ ftps \/ op = "attach"
  /\ NewSession
  /\ IF ftps /\ ~poisoned
     THEN /\ ftps' = FALSE
          /\ fut' = [Idle EXCEPT !.at = "quit", !.op = op]
          /\ UNCHANGED config
     ELSE /\ ftps' = (op = "attach")
          /\ config' = (config \/ ftps)
          /\ UNCHANGED fut
  /\ UNCHANGED <<issued, files, ops>>

Disconnected ==
  /\ fut.at = "quit"
  /\ ftps' = (fut.op = "attach")
  /\ config' = TRUE
  /\ fut' = Idle
  /\ UNCHANGED <<poisoned, issued, replies, files, returned, dropped, ops>>

----------------------------------------------------------------------------
(* The operations.  Each checks `poisoned` first.                           *)

get_file_size(p) == Begin("simple", "SIZE", p, p, 0)
modification_time(p) == Begin("simple", "MDTM", p, p, 0)
get_available_space(p) == Begin("simple", "AVBL", p, p, 0)
create_directory(p) == Begin("simple", "MKD", p, p, 0)
rename_file(p, q) == Begin("rename", "RNFR", p, q, 0)
\* remove_directory is delete_file with another verb.
delete_file(p) == Begin("remove", "DELE", p, p, 0)
upload_from(p, n) == Begin("upload", "PASV", p, p, n)
list_directory(p) == Begin("list", "PASV", p, p, 0)
\* download_file_each is download_file with a sink that can stop it;
\* read_front_members and read_job_prefix are download_prefix with another end.
download_file(p) == Begin("download", "PASV", p, p, 0)
download_prefix(p) == Begin("prefix", "PASV", p, p, 0)

Calls ==
  UNION {{get_file_size(p), modification_time(p), get_available_space(p), create_directory(p),
          delete_file(p), list_directory(p), download_file(p), download_prefix(p)}
            \cup {rename_file(p, q) : q \in Paths}
            \cup {upload_from(p, n) : n \in Sizes} : p \in Paths}

Start ==
  /\ fut = Idle
  /\ ftps /\ ~poisoned
  /\ ops < MaxOps
  /\ ops' = ops + 1
  /\ fut' \in Calls
  /\ returned' = Nothing
  /\ UNCHANGED <<slot, poisoned, issued, replies, files, dropped>>

\* write_command_poisoning.  A failed write may have reached the server.
Write ==
  /\ fut.at = "write"
  /\ issued' = issued + 1
  /\ Serve
  /\ Continue(Goto("read"))
  /\ UNCHANGED <<slot, poisoned, dropped, ops>>

WriteFailed ==
  /\ fut.at = "write"
  /\ issued' = issued + 1
  /\ Serve \/ UNCHANGED <<replies, files>>
  /\ poisoned' = TRUE
  /\ Return(FALSE)
  /\ UNCHANGED <<slot, dropped, ops>>

\* read_response_poisoning's error path.  (Mutant: the error alone.)
ReadFailedUnmarked ==
  /\ fut.at \in {"read", "confirm"}
  /\ Return(FALSE)
  /\ UNCHANGED <<slot, poisoned, issued, replies, files, dropped, ops>>
ReadFailed ==
  /\ fut.at \in {"read", "confirm"}
  /\ poisoned' = TRUE
  /\ Return(FALSE)
  /\ UNCHANGED <<slot, issued, replies, files, dropped, ops>>

\* get_file_size in upload_from and check_downloaded_size.  (Mutant: the reply
\* is not compared.)
SizeAgreesWithAnything(r) == r.code = "213"
SizeAgrees(r) == r.code = "213" /\ r.size = fut.size

\* The single replies that are no error.  A printer without MDTM says 502.
SimpleOk == {<<"SIZE", "213">>, <<"AVBL", "213">>, <<"MDTM", "213">>, <<"MDTM", "502">>, <<"MKD", "250">>}

\* What the operation does with the reply to its command.
ReadReply ==
  LET r == Head(replies) IN
  /\ fut.at = "read"
  /\ replies # <<>>
  /\ replies' = Tail(replies)
  /\ \/ fut.verb = "PASV" /\ r.code = "227" /\ Continue(Goto("dial"))
     \/ fut.verb = "RNFR" /\ r.code = "350" /\ Continue(Send("RNTO"))
     \/ fut.verb = "DELE" /\ r.code = "550" /\ Continue(Send("PASV"))
     \/ fut.verb \in {"STOR", "RETR", "LIST"} /\ r.code = "150" /\ Continue(Goto("tls"))
     \/ fut.verb = "SIZE" /\ fut.op \in Transfers /\ Return(SizeAgrees(r))
     \/ fut.op = "simple" /\ Return(<<fut.verb, r.code>> \in SimpleOk)
     \/ fut.verb \in {"DELE", "RNTO"} /\ r.code = "250" /\ Return(TRUE)
     \/ /\ fut.verb \in Verb \ Simple
        /\ <<fut.verb, r.code>> \notin
             {<<"PASV", "227">>, <<"RNFR", "350">>, <<"DELE", "550">>, <<"DELE", "250">>,
              <<"RNTO", "250">>, <<"STOR", "150">>, <<"RETR", "150">>, <<"LIST", "150">>}
        /\ Return(FALSE)
  /\ UNCHANGED <<slot, poisoned, issued, files, dropped, ops>>

\* A failed dial returns with the PASV reply read and nothing owed.
Dial(ok) ==
  /\ fut.at = "dial"
  /\ IF ok THEN Continue(Send(TransferVerb(fut.op))) ELSE Return(FALSE)
  /\ UNCHANGED <<slot, poisoned, issued, replies, files, dropped, ops>>

\* open_data_channel; plaintext models skip the TLS handshake.
OpenDataChannel ==
  /\ fut.at = "tls"
  /\ Continue(Goto("data"))
  /\ UNCHANGED <<slot, poisoned, issued, replies, files, dropped, ops>>

\* A failed TLS handshake, data read, data write or upload source: the final
\* reply is still owed.
DataFailed ==
  /\ fut.at \in {"tls", "data"}
  /\ EndTransfer("426")
  /\ poisoned' = TRUE
  /\ Return(FALSE)
  /\ UNCHANGED <<slot, issued, dropped, ops>>

\* The data channel reached its end.  A download may have been cut short, and
\* so may a listing; a 226 vouches for a whole listing, a 426 for nothing.
Downloaded ==
  \E n \in Sizes \cup {0} :
    /\ n <= files[fut.path]
    /\ Continue([Goto("confirm") EXCEPT !.size = n])
Listed(code) ==
  \E seen \in SUBSET Present, w \in BOOLEAN :
    /\ code = "226" => seen = Present /\ w
    /\ Continue([Goto("confirm") EXCEPT !.names = seen, !.whole = w])

\* Then finish_transfer closes it and waits.
DataDone ==
  /\ fut.at = "data"
  /\ \E code \in {"226", "426", "error"} :
       /\ EndTransfer(code)
       /\ \/ fut.verb = "STOR" /\ Continue(Goto("confirm"))
          \/ fut.verb = "RETR" /\ Downloaded
          \/ fut.verb = "LIST" /\ Listed(code)
  /\ UNCHANGED <<slot, poisoned, issued, dropped, ops>>

\* download_prefix fills its buffer and download_file_each's sink stops: the
\* data channel is reset, and the printer closes the control connection.
DataStopped ==
  /\ fut.at = "data"
  /\ fut.op \in {"prefix", "download"}
  /\ poisoned' = TRUE
  /\ Return(fut.op = "prefix")
  /\ UNCHANGED <<slot, issued, replies, files, dropped, ops>>

\* list_directory_into keeps at most ListingLimit entries.
Kept(names) ==
  IF Cardinality(names) <= ListingLimit THEN {names}
  ELSE {s \in SUBSET names : Cardinality(s) = ListingLimit}

\* An empty or cut-off listing under 426 is refused.
ListingAccepted(code) == code = "426" => fut.names # {} /\ fut.whole

\* After a 550, a file the listing does not name counts as removed.
finish_removal(code) ==
  \E kept \in Kept(fut.names) : Return(ListingAccepted(code) /\ fut.path \notin kept)

\* finish_transfer and what each operation does after it.
ReadFinal ==
  LET code == Head(replies).code IN
  /\ fut.at = "confirm"
  /\ replies # <<>>
  /\ replies' = Tail(replies)
  /\ \/ code \notin {"226", "426"} /\ Return(FALSE)
     \/ /\ code \in {"226", "426"}
        /\ \/ fut.op \in {"upload", "download"} /\ Continue(Send("SIZE"))
           \/ fut.op = "prefix" /\ Return(TRUE)
           \/ fut.op = "list" /\ Return(ListingAccepted(code))
           \/ fut.op = "remove" /\ finish_removal(code)
  /\ UNCHANGED <<slot, poisoned, issued, files, dropped, ops>>

----------------------------------------------------------------------------
\* The caller drops the operation at an await point.  Nothing marks it; what
\* the server owes stays owed, and an open transfer ends on its side.
Cancel ==
  /\ fut # Idle
  /\ \/ fut.at = "write" /\ issued' = issued + 1 /\ (Serve \/ UNCHANGED <<replies, files>>)
     \/ fut.at \in {"tls", "data"} /\ EndTransfer("426") /\ UNCHANGED issued
     \/ fut.at \notin {"write", "tls", "data"} /\ UNCHANGED <<issued, replies, files>>
  /\ fut' = Idle
  /\ dropped' = TRUE
  /\ UNCHANGED <<slot, poisoned, returned, ops>>

Next ==
  \/ \E c \in BOOLEAN : Ensure(c)
  \/ \E op \in {"quit", "attach"} : Disconnect(op)
  \/ Disconnected
  \/ Start
  \/ Write \/ WriteFailed
  \/ ReadReply \/ ReadFailed
  \/ \E ok \in BOOLEAN : Dial(ok)
  \/ OpenDataChannel \/ DataFailed \/ DataDone \/ DataStopped
  \/ ReadFinal
  \/ Cancel

Spec == Init /\ [][Next]_vars

----------------------------------------------------------------------------
(* Properties                                                               *)

Codes == {"error", "150", "213", "226", "227", "250", "350", "426", "502", "550"}

Future == [at : {"idle", "write", "read", "dial", "tls", "data", "confirm", "quit"},
           op : Op, verb : Verb, path : Paths \cup {"none"}, to : Paths \cup {"none"},
           size : Nat, names : SUBSET Paths, whole : BOOLEAN]
ServerReply == [cmd : Nat, final : BOOLEAN, code : Codes, size : Nat]
Result == [op : Op, path : Paths \cup {"none"}, ok : BOOLEAN, size : Nat]

\* The variables have their types, and an operation under way has its command
\* and its paths.
TypeOK ==
  /\ ftps \in BOOLEAN /\ config \in BOOLEAN /\ poisoned \in BOOLEAN
  /\ fut \in Future
  /\ issued \in Nat
  /\ replies \in Seq(ServerReply)
  /\ files \in [Paths -> Sizes \cup {Absent}]
  /\ returned \in Result
  /\ dropped \in BOOLEAN
  /\ ops \in Nat
  /\ fut.at \notin {"idle", "quit"} => fut.verb # "none" /\ fut.path \in Paths /\ fut.to \in Paths

\* The poisoning invariant: a session that is not poisoned owes the client
\* nothing but the reply its running operation is about to read, through every
\* error path of every operation, as long as no caller dropped one.
InSync ==
  ~poisoned /\ ~dropped =>
    IF fut.at \in {"read", "confirm"}
    THEN /\ Len(replies) = 1
         /\ replies[1].cmd = issued
         /\ replies[1].final = (fut.at = "confirm")
    ELSE replies = <<>>

\* The poisoning invariant exists so that no command reads "the stale reply
\* instead of its own".
OwnReply ==
  fut.at \in {"read", "confirm"} /\ replies # <<>> =>
    /\ Head(replies).cmd = issued
    /\ Head(replies).final = (fut.at = "confirm")

\* An upload or download reported as done moved the whole file: a 426, a full
\* card and a truncated transfer are all caught by the SIZE comparison.
TransferVerified ==
  ~dropped /\ returned.op \in {"upload", "download"} /\ returned.ok => files[returned.path] = returned.size

\* delete_file documents that on a 550 it "succeeds only if the target is no
\* longer there".
RemovedIsGone ==
  ~dropped /\ returned.op = "remove" /\ returned.ok => files[returned.path] = Absent
============================================================================

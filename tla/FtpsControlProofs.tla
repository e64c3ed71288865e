------------------------- MODULE FtpsControlProofs -------------------------
(* Type correctness, the poisoning invariant and the verification of         *)
(* transfers of FtpsControl, for every value of its constants.               *)
EXTENDS FtpsControl, SequenceTheorems, TLAPS

----------------------------------------------------------------------------
(* The running operation                                                     *)

\* fut's part of TypeOK.
FutureOK(f) ==
  /\ f \in Future
  /\ f.at \notin {"idle", "quit"} => f.verb # "none" /\ f.path \in Paths /\ f.to \in Paths

States == {"idle", "write", "read", "dial", "tls", "data", "confirm", "quit"}

LEMMA IdleType == FutureOK(Idle) /\ Idle.at = "idle" /\ Idle.op = "none"
BY DEF Idle, FutureOK, Future, Op, Verb

LEMMA QuitType ==
  ASSUME NEW op \in {"quit", "attach"}
  PROVE  LET f == [Idle EXCEPT !.at = "quit", !.op = op] IN FutureOK(f) /\ f.at = "quit"
BY DEF Idle, FutureOK, Future, Op, Verb

LEMMA BeginType ==
  ASSUME NEW op \in Op, NEW verb \in Verb \ {"none"}, NEW p \in Paths, NEW q \in Paths,
         NEW n \in Nat
  PROVE  FutureOK(Begin(op, verb, p, q, n)) /\ Begin(op, verb, p, q, n).at = "write"
BY DEF Begin, Idle, FutureOK, Future

LEMMA GotoType ==
  ASSUME FutureOK(fut), fut.at \notin {"idle", "quit"}, NEW a \in States
  PROVE  FutureOK(Goto(a)) /\ Goto(a).at = a
BY DEF Goto, FutureOK, Future, States

LEMMA SendType ==
  ASSUME FutureOK(fut), fut.at \notin {"idle", "quit"}, NEW v \in Verb \ {"none"}
  PROVE  FutureOK(Send(v)) /\ Send(v).at = "write"
BY DEF Send, FutureOK, Future

LEMMA SizeType ==
  ASSUME FutureOK(fut), fut.at \notin {"idle", "quit"}, NEW n \in Nat
  PROVE  LET f == [Goto("confirm") EXCEPT !.size = n] IN FutureOK(f) /\ f.at = "confirm"
BY DEF Goto, FutureOK, Future

LEMMA NamesType ==
  ASSUME FutureOK(fut), fut.at \notin {"idle", "quit"},
         NEW seen \in SUBSET Paths, NEW w \in BOOLEAN
  PROVE  LET f == [Goto("confirm") EXCEPT !.names = seen, !.whole = w]
         IN FutureOK(f) /\ f.at = "confirm"
BY DEF Goto, FutureOK, Future

\* Returning to the caller leaves no operation under way.
LEMMA ReturnType ==
  ASSUME FutureOK(fut), NEW ok \in BOOLEAN, Return(ok)
  PROVE  FutureOK(fut') /\ fut'.at = "idle" /\ returned' \in Result
<1>1. FutureOK(fut') /\ fut'.at = "idle"
  BY IdleType DEF Return
<1>2. returned' \in Result
  BY DEF Return, Result, FutureOK, Future
<1>3. QED
  BY <1>1, <1>2

LEMMA TransferVerbType ==
  ASSUME NEW op
  PROVE  TransferVerb(op) \in Verb \ {"none"}
BY DEF TransferVerb, Verb

LEMMA CallsType ==
  ASSUME NEW f \in Calls
  PROVE  FutureOK(f) /\ f.at = "write"
<1>1. PICK p \in Paths :
        f \in {get_file_size(p), modification_time(p), get_available_space(p), create_directory(p),
               delete_file(p), list_directory(p), download_file(p), download_prefix(p)}
              \cup {rename_file(p, q) : q \in Paths}
              \cup {upload_from(p, n) : n \in Sizes}
  BY DEF Calls
<1>2. CASE f \in {get_file_size(p), modification_time(p), get_available_space(p), create_directory(p)}
  <2>1. "simple" \in Op /\ {"SIZE", "MDTM", "AVBL", "MKD"} \subseteq Verb \ {"none"}
    BY DEF Op, Simple, Verb
  <2>2. QED
    BY <1>2, <2>1, BeginType DEF get_file_size, modification_time, get_available_space, create_directory
<1>3. CASE f = delete_file(p) \/ \E q \in Paths : f = rename_file(p, q)
  <2>1. {"remove", "rename"} \subseteq Op /\ {"DELE", "RNFR"} \subseteq Verb \ {"none"}
    BY DEF Op, Verb
  <2>2. QED
    BY <1>3, <2>1, BeginType DEF delete_file, rename_file
<1>4. CASE \/ f \in {list_directory(p), download_file(p), download_prefix(p)}
           \/ \E n \in Sizes : f = upload_from(p, n)
  <2>1. {"list", "download", "prefix", "upload"} \subseteq Op /\ "PASV" \in Verb \ {"none"}
    BY DEF Op, Transfers, Verb
  <2>2. Sizes \subseteq Nat
    BY FtpsAssumption
  <2>3. QED
    BY <1>4, <2>1, <2>2, BeginType DEF list_directory, download_file, download_prefix, upload_from
<1>5. QED
  BY <1>1, <1>2, <1>3, <1>4

----------------------------------------------------------------------------
(* The server                                                                *)

\* A command served adds one reply, to that command, and leaves a directory.
LEMMA ServeType ==
  ASSUME TypeOK, fut.at = "write", Serve, issued' = issued + 1
  PROVE  /\ files' \in [Paths -> Sizes \cup {Absent}]
         /\ \E r \in ServerReply :
              /\ replies' = Append(replies, r)
              /\ r.cmd = issued'
              /\ r.final = FALSE
<1> DEFINE p == fut.path
<1>1. p \in Paths /\ fut.to \in Paths /\ issued + 1 \in Nat /\ files[p] \in Sizes \cup {Absent}
  BY DEF TypeOK
<1>2. ASSUME NEW code \in Codes, NEW n \in Nat, replies' = Answer(code, n)
      PROVE  \E r \in ServerReply :
               /\ replies' = Append(replies, r)
               /\ r.cmd = issued'
               /\ r.final = FALSE
  <2>1. Reply(FALSE, code, n) \in ServerReply
    BY <1>1, <1>2 DEF Reply, ServerReply
  <2>2. Reply(FALSE, code, n).cmd = issued' /\ Reply(FALSE, code, n).final = FALSE
    BY DEF Reply
  <2>3. QED
    BY <1>2, <2>1, <2>2 DEF Answer
<1>3. \E code \in Codes, n \in Nat : replies' = Answer(code, n)
  <2>1. files[p] # Absent => files[p] \in Nat
    BY <1>1, FtpsAssumption
  <2>2. {"error", "550", "213", "250", "502", "227", "150", "350"} \subseteq Codes
    BY DEF Codes
  <2>3. QED
    BY <2>1, <2>2 DEF Serve
<1>4. files' \in [Paths -> Sizes \cup {Absent}]
  BY <1>1 DEF Serve, TypeOK
<1>5. QED
  BY <1>2, <1>3, <1>4

\* A transfer ended by the server adds its final reply.
LEMMA EndTransferType ==
  ASSUME TypeOK, NEW code \in Codes, EndTransfer(code)
  PROVE  /\ files' \in [Paths -> Sizes \cup {Absent}]
         /\ \E r \in ServerReply :
              /\ replies' = Append(replies, r)
              /\ r.cmd = issued
              /\ r.final = TRUE
<1>1. files' \in [Paths -> Sizes \cup {Absent}]
  BY DEF EndTransfer, TypeOK
<1> DEFINE r == [cmd |-> issued, final |-> TRUE, code |-> code, size |-> 0]
<1>2. r \in ServerReply /\ r.cmd = issued /\ r.final = TRUE
  BY DEF ServerReply, TypeOK
<1>3. replies' = Append(replies, r)
  BY DEF EndTransfer, Final
<1>4. QED
  BY <1>1, <1>2, <1>3

LEMMA AppendOne ==
  ASSUME NEW S, NEW s \in Seq(S), NEW x \in S
  PROVE  /\ Append(s, x) \in Seq(S)
         /\ s = <<>> => Len(Append(s, x)) = 1 /\ Append(s, x)[1] = x
OBVIOUS

LEMMA NoReplies == <<>> \in Seq(ServerReply)
OBVIOUS

LEMMA TailType ==
  ASSUME NEW S, NEW s \in Seq(S), s # <<>>
  PROVE  Tail(s) \in Seq(S) /\ (Len(s) = 1 => Tail(s) = <<>>)
<1>1. Tail(s) \in Seq(S)
  OBVIOUS
<1>2. Len(s) = 1 => Len(Tail(s)) = 0
  OBVIOUS
<1>3. QED
  BY <1>1, <1>2, EmptySeq

----------------------------------------------------------------------------
(* The actions with several outcomes                                         *)

LEMMA ReadReplyType ==
  ASSUME TypeOK, ReadReply
  PROVE  /\ FutureOK(fut')
         /\ fut'.at \notin {"read", "confirm"}
         /\ returned' \in Result
<1> DEFINE r == Head(replies)
<1>f. FutureOK(fut) /\ fut.at = "read"
  BY DEF TypeOK, FutureOK, ReadReply
<1>1. CASE \/ Continue(Goto("dial")) \/ Continue(Goto("tls"))
           \/ Continue(Send("RNTO")) \/ Continue(Send("PASV"))
  <2>1. {"RNTO", "PASV"} \subseteq Verb \ {"none"} /\ {"dial", "tls"} \subseteq States
    BY DEF Verb, States
  <2>2. QED
    BY <1>1, <1>f, <2>1, GotoType, SendType DEF Continue, TypeOK
<1>2. CASE \E ok \in BOOLEAN : Return(ok)
  BY <1>2, <1>f, ReturnType
<1>3. SizeAgrees(r) \in BOOLEAN /\ (<<fut.verb, r.code>> \in SimpleOk) \in BOOLEAN
  BY DEF SizeAgrees
<1>4. QED
  BY <1>1, <1>2, <1>3 DEF ReadReply

LEMMA ReadFinalType ==
  ASSUME TypeOK, ReadFinal
  PROVE  /\ FutureOK(fut')
         /\ fut'.at \notin {"read", "confirm"}
         /\ returned' \in Result
<1>f. FutureOK(fut) /\ fut.at = "confirm"
  BY DEF TypeOK, FutureOK, ReadFinal
<1>1. CASE Continue(Send("SIZE"))
  <2>1. "SIZE" \in Verb \ {"none"}
    BY DEF Verb, Simple
  <2>2. QED
    BY <1>1, <1>f, <2>1, SendType DEF Continue, TypeOK
<1>2. CASE \E ok \in BOOLEAN : Return(ok)
  BY <1>2, <1>f, ReturnType
<1>3. ASSUME NEW code, NEW kept
      PROVE  /\ ListingAccepted(code) \in BOOLEAN
             /\ (ListingAccepted(code) /\ fut.path \notin kept) \in BOOLEAN
  BY DEF ListingAccepted
<1>4. QED
  BY <1>1, <1>2, <1>3 DEF ReadFinal, finish_removal

LEMMA DataDoneType ==
  ASSUME TypeOK, DataDone
  PROVE  /\ files' \in [Paths -> Sizes \cup {Absent}]
         /\ FutureOK(fut')
         /\ fut'.at = "confirm"
         /\ returned' = returned
         /\ \E r \in ServerReply :
              /\ replies' = Append(replies, r)
              /\ r.cmd = issued
              /\ r.final = TRUE
<1>f. FutureOK(fut) /\ fut.at = "data"
  BY DEF TypeOK, FutureOK, DataDone
<1>1. PICK code \in {"226", "426", "error"} :
        /\ EndTransfer(code)
        /\ \/ Continue(Goto("confirm"))
           \/ \E n \in Sizes \cup {0} : Continue([Goto("confirm") EXCEPT !.size = n])
           \/ \E seen \in SUBSET Present, w \in BOOLEAN :
                Continue([Goto("confirm") EXCEPT !.names = seen, !.whole = w])
  BY DEF DataDone, Downloaded, Listed
<1>2. code \in Codes
  BY DEF Codes
<1>3. /\ files' \in [Paths -> Sizes \cup {Absent}]
      /\ \E r \in ServerReply :
           /\ replies' = Append(replies, r)
           /\ r.cmd = issued
           /\ r.final = TRUE
  BY <1>1, <1>2, EndTransferType
<1>4. FutureOK(fut') /\ fut'.at = "confirm" /\ returned' = returned
  <2>1. CASE Continue(Goto("confirm"))
    BY <2>1, <1>f, GotoType DEF Continue, States
  <2>2. CASE \E n \in Sizes \cup {0} : Continue([Goto("confirm") EXCEPT !.size = n])
    <3>1. Sizes \cup {0} \subseteq Nat
      BY FtpsAssumption
    <3>2. QED
      BY <2>2, <3>1, <1>f, SizeType DEF Continue
  <2>3. CASE \E seen \in SUBSET Present, w \in BOOLEAN :
               Continue([Goto("confirm") EXCEPT !.names = seen, !.whole = w])
    <3>1. SUBSET Present \subseteq SUBSET Paths
      BY DEF Present
    <3>2. QED
      <4>1. PICK seen \in SUBSET Paths, w \in BOOLEAN :
                   Continue([Goto("confirm") EXCEPT !.names = seen, !.whole = w])
        BY <2>3, <3>1
      <4>2. /\ fut' = [Goto("confirm") EXCEPT !.names = seen, !.whole = w]
            /\ returned' = returned
        BY <4>1 DEF Continue
      <4>3. QED
        BY <4>2, <1>f, NamesType
  <2>4. QED
    BY <1>1, <2>1, <2>2, <2>3
<1>5. QED
  BY <1>3, <1>4

----------------------------------------------------------------------------
(* Type correctness                                                          *)

\* TypeOK of a step, from its parts.
LEMMA TypeParts ==
  ASSUME ftps' \in BOOLEAN, config' \in BOOLEAN, poisoned' \in BOOLEAN, FutureOK(fut'),
         issued' \in Nat, replies' \in Seq(ServerReply),
         files' \in [Paths -> Sizes \cup {Absent}], returned' \in Result,
         dropped' \in BOOLEAN, ops' \in Nat
  PROVE  TypeOK'
BY DEF TypeOK, FutureOK

LEMMA ServedType ==
  ASSUME TypeOK, fut.at = "write", Serve, issued' = issued + 1
  PROVE  replies' \in Seq(ServerReply) /\ files' \in [Paths -> Sizes \cup {Absent}]
<1>1. PICK r \in ServerReply : replies' = Append(replies, r)
  BY ServeType
<1>2. replies \in Seq(ServerReply)
  BY DEF TypeOK
<1>3. QED
  BY <1>1, <1>2, AppendOne, ServeType

LEMMA EndedType ==
  ASSUME TypeOK, NEW code \in Codes, EndTransfer(code)
  PROVE  replies' \in Seq(ServerReply) /\ files' \in [Paths -> Sizes \cup {Absent}]
<1>1. PICK r \in ServerReply : replies' = Append(replies, r)
  BY EndTransferType
<1>2. replies \in Seq(ServerReply)
  BY DEF TypeOK
<1>3. QED
  BY <1>1, <1>2, AppendOne, EndTransferType

LEMMA NothingType == Nothing \in Result
BY DEF Nothing, Result, Op

LEMMA TypeInit == Init => TypeOK
<1>1. Init => FutureOK(fut)
  BY IdleType DEF Init
<1>2. Init => returned \in Result
  BY NothingType DEF Init
<1>3. QED
  <2>1. SUFFICES ASSUME Init PROVE TypeOK
    OBVIOUS
  <2>2. ftps \in BOOLEAN /\ config \in BOOLEAN /\ poisoned \in BOOLEAN /\ dropped \in BOOLEAN
    BY <2>1, Zenon DEF Init
  <2>3. /\ issued \in Nat /\ ops \in Nat
        /\ replies \in Seq(ServerReply)
        /\ files \in [Paths -> Sizes \cup {Absent}]
    BY <2>1, NoReplies DEF Init
  <2>4. QED
    BY <1>1, <1>2, <2>1, <2>2, <2>3 DEF TypeOK, FutureOK

\* Each action keeps the types.
LEMMA TypeNext == TypeOK /\ [Next]_vars => TypeOK'
<1> SUFFICES ASSUME TypeOK, [Next]_vars PROVE TypeOK'
  OBVIOUS
<1>f. FutureOK(fut)
  BY DEF TypeOK, FutureOK
<1>1. ASSUME NEW c \in BOOLEAN, Ensure(c) PROVE TypeOK'
  <2>1. replies' \in Seq(ServerReply) /\ returned' \in Result
    BY <1>1, NoReplies, NothingType DEF Ensure, NewSession
  <2>2. ftps' \in BOOLEAN /\ config' \in BOOLEAN /\ poisoned' \in BOOLEAN /\ dropped' \in BOOLEAN
    BY <1>1, Zenon DEF Ensure, NewSession
  <2>3. FutureOK(fut') /\ files' \in [Paths -> Sizes \cup {Absent}] /\ issued' \in Nat /\ ops' \in Nat
    BY <1>1, <1>f DEF Ensure, TypeOK
  <2>4. QED
    BY <2>1, <2>2, <2>3, TypeParts
<1>2. ASSUME NEW op \in {"quit", "attach"}, Disconnect(op) PROVE TypeOK'
  <2>1. FutureOK(fut')
    BY <1>2, <1>f, QuitType DEF Disconnect
  <2>2. QED
    <3>1. replies' \in Seq(ServerReply) /\ returned' \in Result
      BY <1>2, NoReplies, NothingType DEF Disconnect, NewSession
    <3>2. ftps' \in BOOLEAN /\ poisoned' \in BOOLEAN /\ dropped' \in BOOLEAN
      BY <1>2, Zenon DEF Disconnect, NewSession
    <3>3. config' \in BOOLEAN
      BY <1>2, Zenon DEF Disconnect, TypeOK
    <3>4. files' \in [Paths -> Sizes \cup {Absent}] /\ issued' \in Nat /\ ops' \in Nat
      BY <1>2 DEF Disconnect, TypeOK
    <3>5. QED
      BY <2>1, <3>1, <3>2, <3>3, <3>4, TypeParts
<1>3. CASE Disconnected
  <2>1. ftps' \in BOOLEAN /\ config' \in BOOLEAN
    BY <1>3, Zenon DEF Disconnected
  <2>2. QED
    BY <1>3, <2>1, IdleType, TypeParts DEF Disconnected, TypeOK
<1>4. CASE Start
  BY <1>4, CallsType, NothingType, TypeParts DEF Start, slot, TypeOK
<1>5. CASE Write
  <2>1. FutureOK(fut')
    BY <1>5, <1>f, GotoType DEF Write, Continue, States
  <2>2. replies' \in Seq(ServerReply) /\ files' \in [Paths -> Sizes \cup {Absent}]
    BY <1>5, ServedType DEF Write
  <2>3. QED
    BY <1>5, <2>1, <2>2, TypeParts DEF Write, Continue, slot, TypeOK
<1>6. CASE WriteFailed
  <2>1. FutureOK(fut') /\ returned' \in Result
    BY <1>6, <1>f, ReturnType DEF WriteFailed
  <2>2. replies' \in Seq(ServerReply) /\ files' \in [Paths -> Sizes \cup {Absent}]
    <3>1. CASE Serve
      BY <1>6, <3>1, ServedType DEF WriteFailed
    <3>2. CASE UNCHANGED <<replies, files>>
      BY <3>2 DEF TypeOK
    <3>3. QED
      BY <1>6, <3>1, <3>2 DEF WriteFailed
  <2>3. QED
    BY <1>6, <2>1, <2>2, TypeParts DEF WriteFailed, slot, TypeOK
<1>7. CASE ReadReply
  <2>1. replies' \in Seq(ServerReply)
    BY <1>7, TailType DEF ReadReply, TypeOK
  <2>2. FutureOK(fut') /\ returned' \in Result
    BY <1>7, ReadReplyType
  <2>3. QED
    BY <1>7, <2>1, <2>2, TypeParts DEF ReadReply, slot, TypeOK
<1>8. CASE ReadFailed
  <2>1. FutureOK(fut') /\ returned' \in Result
    BY <1>8, <1>f, ReturnType DEF ReadFailed
  <2>2. QED
    BY <1>8, <2>1, TypeParts DEF ReadFailed, slot, TypeOK
<1>9. ASSUME NEW ok \in BOOLEAN, Dial(ok) PROVE TypeOK'
  <2>1. FutureOK(fut') /\ returned' \in Result
    BY <1>9, <1>f, ReturnType, SendType, TransferVerbType DEF Dial, Continue, TypeOK
  <2>2. QED
    BY <1>9, <2>1, TypeParts DEF Dial, slot, TypeOK
<1>10. CASE OpenDataChannel
  <2>1. FutureOK(fut')
    BY <1>10, <1>f, GotoType DEF OpenDataChannel, Continue, States
  <2>2. QED
    BY <1>10, <2>1, TypeParts DEF OpenDataChannel, Continue, slot, TypeOK
<1>11. CASE DataFailed
  <2>1. FutureOK(fut') /\ returned' \in Result
    BY <1>11, <1>f, ReturnType DEF DataFailed
  <2>2. replies' \in Seq(ServerReply) /\ files' \in [Paths -> Sizes \cup {Absent}]
    <3>1. "426" \in Codes
      BY DEF Codes
    <3>2. QED
      BY <1>11, <3>1, EndTransferType, AppendOne DEF DataFailed, TypeOK
  <2>3. QED
    BY <1>11, <2>1, <2>2, TypeParts DEF DataFailed, slot, TypeOK
<1>12. CASE DataDone
  <2>1. replies' \in Seq(ServerReply) /\ files' \in [Paths -> Sizes \cup {Absent}]
    BY <1>12, DataDoneType, AppendOne DEF TypeOK
  <2>2. FutureOK(fut') /\ returned' = returned
    BY <1>12, DataDoneType
  <2>3. QED
    BY <1>12, <2>1, <2>2, TypeParts DEF DataDone, slot, TypeOK
<1>13. CASE DataStopped
  <2>1. FutureOK(fut') /\ returned' \in Result
    BY <1>13, <1>f, ReturnType DEF DataStopped
  <2>2. QED
    BY <1>13, <2>1, TypeParts DEF DataStopped, slot, TypeOK
<1>14. CASE ReadFinal
  <2>1. replies' \in Seq(ServerReply)
    BY <1>14, TailType DEF ReadFinal, TypeOK
  <2>2. FutureOK(fut') /\ returned' \in Result
    BY <1>14, ReadFinalType
  <2>3. QED
    BY <1>14, <2>1, <2>2, TypeParts DEF ReadFinal, slot, TypeOK
<1>15. CASE Cancel
  <2>1. FutureOK(fut')
    BY <1>15, IdleType DEF Cancel
  <2>2. replies' \in Seq(ServerReply) /\ files' \in [Paths -> Sizes \cup {Absent}] /\ issued' \in Nat
    <3>1. "426" \in Codes
      BY DEF Codes
    <3>2. QED
      <4>1. CASE fut.at = "write" /\ issued' = issued + 1 /\ Serve
        BY <4>1, ServedType DEF TypeOK
      <4>2. CASE EndTransfer("426") /\ UNCHANGED issued
        BY <4>2, <3>1, EndedType DEF TypeOK
      <4>3. CASE issued' \in {issued, issued + 1} /\ UNCHANGED <<replies, files>>
        BY <4>3 DEF TypeOK
      <4>4. QED
        BY <1>15, <4>1, <4>2, <4>3 DEF Cancel
  <2>3. QED
    BY <1>15, <2>1, <2>2, TypeParts DEF Cancel, slot, TypeOK
<1>16. CASE UNCHANGED vars
  BY <1>16, <1>f, TypeParts DEF vars, slot, TypeOK
<1>17. QED
  BY <1>1, <1>2, <1>3, <1>4, <1>5, <1>6, <1>7, <1>8, <1>9, <1>10, <1>11, <1>12, <1>13, <1>14,
     <1>15, <1>16 DEF Next

\* The future, the slot, the replies and the directory of FtpsClient have their
\* types throughout: no path of any operation reaches its data channel without
\* a command to open it for.
THEOREM FtpsTypeCorrect == Spec => []TypeOK
BY TypeInit, TypeNext, PTL DEF Spec

----------------------------------------------------------------------------
(* The poisoning invariant                                                   *)

LEMMA SyncInit == Init => InSync
BY IdleType DEF Init, InSync

\* A step after which nothing is owed and no reply awaited is in sync.
LEMMA Settled ==
  ASSUME replies' = <<>>, fut'.at \notin {"read", "confirm"}
  PROVE  InSync'
BY DEF InSync

\* In sync outside a read, the client is owed nothing.
LEMMA OwedNothing ==
  ASSUME InSync, ~poisoned, ~dropped, fut.at \notin {"read", "confirm"}
  PROVE  replies = <<>>
BY DEF InSync

\* In sync in a read, it is owed the reply it reads.
LEMMA OwedOne ==
  ASSUME TypeOK, InSync, ~poisoned, ~dropped, fut.at \in {"read", "confirm"}
  PROVE  Tail(replies) = <<>>
<1>1. replies \in Seq(ServerReply) /\ Len(replies) = 1
  BY DEF TypeOK, InSync
<1>2. replies # <<>>
  BY <1>1
<1>3. QED
  BY <1>1, <1>2, TailType

LEMMA SyncNext == TypeOK /\ InSync /\ [Next]_vars => InSync'
<1> SUFFICES ASSUME TypeOK, InSync, [Next]_vars, ~poisoned', ~dropped' PROVE InSync'
  BY DEF InSync
<1>f. FutureOK(fut)
  BY DEF TypeOK, FutureOK
<1>1. ASSUME NEW c \in BOOLEAN, Ensure(c) PROVE InSync'
  BY <1>1, IdleType, Settled DEF Ensure, NewSession
<1>2. ASSUME NEW op \in {"quit", "attach"}, Disconnect(op) PROVE InSync'
  BY <1>2, IdleType, QuitType, Settled DEF Disconnect, NewSession
<1>3. CASE Disconnected
  BY <1>3, IdleType, OwedNothing, Settled DEF Disconnected
<1>4. CASE Start
  BY <1>4, IdleType, CallsType, OwedNothing, Settled DEF Start
<1>5. CASE Write
  <2>1. fut'.at = "read"
    BY <1>5, <1>f, GotoType DEF Write, Continue, States
  <2>2. replies = <<>>
    BY <1>5, OwedNothing DEF Write
  <2>3. PICK r \in ServerReply : replies' = Append(replies, r) /\ r.cmd = issued' /\ r.final = FALSE
    BY <1>5, ServeType DEF Write
  <2>4. Len(replies') = 1 /\ replies'[1] = r
    BY <2>2, <2>3, AppendOne DEF TypeOK
  <2>5. QED
    BY <2>1, <2>3, <2>4 DEF InSync
<1>6. CASE WriteFailed \/ ReadFailed \/ DataFailed \/ DataStopped \/ Cancel
  BY <1>6 DEF WriteFailed, ReadFailed, DataFailed, DataStopped, Cancel
<1>7. CASE ReadReply
  <2>1. fut'.at \notin {"read", "confirm"}
    BY <1>7, ReadReplyType
  <2>2. QED
    BY <1>7, <2>1, OwedOne, Settled DEF ReadReply
<1>8. ASSUME NEW ok \in BOOLEAN, Dial(ok) PROVE InSync'
  <2>1. fut'.at \notin {"read", "confirm"}
    BY <1>8, <1>f, ReturnType, SendType, TransferVerbType DEF Dial, Continue
  <2>2. QED
    BY <1>8, <2>1, OwedNothing, Settled DEF Dial
<1>9. CASE OpenDataChannel
  <2>1. fut'.at = "data"
    BY <1>9, <1>f, GotoType DEF OpenDataChannel, Continue, States
  <2>2. QED
    BY <1>9, <2>1, OwedNothing, Settled DEF OpenDataChannel
<1>10. CASE DataDone
  <2>1. replies = <<>> /\ issued' = issued
    BY <1>10, OwedNothing DEF DataDone
  <2>2. PICK r \in ServerReply : replies' = Append(replies, r) /\ r.cmd = issued /\ r.final = TRUE
    BY <1>10, DataDoneType
  <2>3. Len(replies') = 1 /\ replies'[1] = r
    BY <2>1, <2>2, AppendOne DEF TypeOK
  <2>4. fut'.at = "confirm"
    BY <1>10, DataDoneType
  <2>5. QED
    BY <2>1, <2>2, <2>3, <2>4 DEF InSync
<1>11. CASE ReadFinal
  <2>1. fut'.at \notin {"read", "confirm"}
    BY <1>11, ReadFinalType
  <2>2. QED
    BY <1>11, <2>1, OwedOne, Settled DEF ReadFinal
<1>12. CASE UNCHANGED vars
  BY <1>12 DEF vars, InSync
<1>13. QED
  BY <1>1, <1>2, <1>3, <1>4, <1>5, <1>6, <1>7, <1>8, <1>9, <1>10, <1>11, <1>12 DEF Next

\* FtpsClient's poisoning is complete: on every error path of every operation,
\* a session it leaves usable owes the client no reply, so the next command
\* reads its own.  Only a dropped operation escapes it.
THEOREM PoisoningTheorem == Spec => []InSync
<1>1. Init => InSync
  BY SyncInit
<1>2. TypeOK /\ InSync /\ [Next]_vars => InSync'
  BY SyncNext
<1>3. QED
  BY <1>1, <1>2, FtpsTypeCorrect, PTL DEF Spec

----------------------------------------------------------------------------
(* Verified transfers                                                        *)

\* A running operation has a live session and has returned nothing yet.
RunningInv == fut.at # "idle" => ~poisoned /\ ~returned.ok

\* A transfer that ends in a SIZE sends no command whose reply alone would
\* end it well.
VerbInv == fut.op \in {"upload", "download"} => fut.verb \in {"PASV", "STOR", "RETR", "SIZE"}

\* The reply to a SIZE tells the size the file has when it is read: no other
\* operation can have come between.
SizeInv ==
  fut.at = "read" /\ fut.verb = "SIZE" /\ ~dropped =>
    \A i \in DOMAIN replies : replies[i].code = "213" => replies[i].size = files[fut.path]

VerifyInv == RunningInv /\ VerbInv /\ SizeInv /\ TransferVerified

LEMMA VerifyInit == Init => VerifyInv
BY DEF Init, Idle, Nothing, VerifyInv, RunningInv, VerbInv, SizeInv, TransferVerified

LEMMA GotoFields ==
  ASSUME fut \in Future, NEW a
  PROVE  Goto(a).at = a /\ Goto(a).op = fut.op /\ Goto(a).verb = fut.verb /\ Goto(a).path = fut.path
BY DEF Goto, Future

LEMMA SendFields ==
  ASSUME fut \in Future, NEW v
  PROVE  Send(v).at = "write" /\ Send(v).op = fut.op /\ Send(v).verb = v
BY DEF Send, Future

LEMMA ConfirmFields ==
  ASSUME fut \in Future, NEW n, NEW seen, NEW w
  PROVE  /\ [Goto("confirm") EXCEPT !.size = n].at = "confirm"
         /\ [Goto("confirm") EXCEPT !.size = n].op = fut.op
         /\ [Goto("confirm") EXCEPT !.size = n].verb = fut.verb
         /\ [Goto("confirm") EXCEPT !.names = seen, !.whole = w].at = "confirm"
         /\ [Goto("confirm") EXCEPT !.names = seen, !.whole = w].op = fut.op
         /\ [Goto("confirm") EXCEPT !.names = seen, !.whole = w].verb = fut.verb
BY DEF Goto, Future

\* A transfer is begun with a PASV.
LEMMA CallsVerb ==
  ASSUME NEW f \in Calls
  PROVE  f.at = "write" /\ (f.op \in {"upload", "download"} => f.verb = "PASV")
<1>1. PICK p \in Paths :
        f \in {get_file_size(p), modification_time(p), get_available_space(p), create_directory(p),
               delete_file(p), list_directory(p), download_file(p), download_prefix(p)}
              \cup {rename_file(p, q) : q \in Paths}
              \cup {upload_from(p, n) : n \in Sizes}
  BY DEF Calls
<1>2. \A op, verb, x, y, n : /\ Begin(op, verb, x, y, n).at = "write"
                             /\ Begin(op, verb, x, y, n).op = op
                             /\ Begin(op, verb, x, y, n).verb = verb
  BY DEF Begin, Idle
<1>3. QED
  BY <1>1, <1>2 DEF get_file_size, modification_time, get_available_space, create_directory,
     delete_file, list_directory, download_file, download_prefix, rename_file, upload_from

\* A step that ends an operation without success, or that ends none.
LEMMA Unsuccessful ==
  ASSUME fut' = Idle \/ ~poisoned', ~returned'.ok, VerbInv', SizeInv'
  PROVE  VerifyInv'
BY IdleType DEF VerifyInv, RunningInv, TransferVerified

LEMMA IdleInv ==
  ASSUME fut' = Idle
  PROVE  RunningInv' /\ VerbInv' /\ SizeInv'
BY DEF Idle, RunningInv, VerbInv, SizeInv

LEMMA Unchanged ==
  ASSUME TypeOK, VerifyInv, fut.at # "idle", NEW f, Continue(f), f.at # "idle",
         UNCHANGED <<poisoned, dropped>>,
         f.op = fut.op, f.op \in {"upload", "download"} => f.verb \in {"PASV", "STOR", "RETR", "SIZE"},
         f.at = "read" => f.verb # "SIZE"
  PROVE  VerifyInv'
BY DEF VerifyInv, RunningInv, VerbInv, SizeInv, TransferVerified, Continue

\* The answer to a SIZE is the file's size.
LEMMA SizeServed ==
  ASSUME TypeOK, InSync, ~poisoned, ~dropped, fut.at = "write", fut.verb = "SIZE", Serve,
         issued' = issued + 1
  PROVE  /\ files' = files
         /\ \A i \in DOMAIN replies' : replies'[i].code = "213" => replies'[i].size = files[fut.path]
<1>1. replies = <<>>
  BY OwedNothing
<1>2. files' = files
  BY DEF Serve
<1>3. \E code \in {"error", "550", "213"}, n \in Int :
        replies' = Answer(code, n) /\ (code = "213" => n = files[fut.path])
  <2>1. fut.path \in Paths /\ files[fut.path] \in Int
    <3>1. fut.path \in Paths /\ files[fut.path] \in Sizes \cup {Absent}
      BY DEF TypeOK
    <3>2. Sizes \subseteq Int /\ Absent \in Int
      BY FtpsAssumption DEF Absent
    <3>3. QED
      BY <3>1, <3>2
  <2>2. \/ replies' = Answer("error", 0) \/ replies' = Answer("550", 0)
        \/ replies' = Answer("213", files[fut.path])
    BY DEF Serve
  <2>3. QED
    BY <2>1, <2>2
<1>4. PICK code \in {"error", "550", "213"}, n \in Int :
        replies' = Answer(code, n) /\ (code = "213" => n = files[fut.path])
  BY <1>3
<1> DEFINE r == Reply(FALSE, code, n)
<1>5. replies' = <<r>>
  BY <1>1, <1>4 DEF Answer
<1>6. r.code = code /\ r.size = n
  BY DEF Reply
<1>7. \A i \in DOMAIN replies' : replies'[i] = r
  <2>1. \A x : \A i \in DOMAIN <<x>> : <<x>>[i] = x
    OBVIOUS
  <2>2. QED
    BY <1>5, <2>1
<1>8. QED
  BY <1>2, <1>4, <1>6, <1>7

LEMMA VerifyNext == TypeOK /\ InSync /\ VerifyInv /\ [Next]_vars => VerifyInv'
<1> SUFFICES ASSUME TypeOK, InSync, VerifyInv, [Next]_vars PROVE VerifyInv'
  OBVIOUS
<1>f. fut \in Future /\ FutureOK(fut)
  BY DEF TypeOK, FutureOK
<1>v. RunningInv /\ VerbInv /\ SizeInv /\ TransferVerified
  BY DEF VerifyInv
<1>n. ~Nothing.ok
  BY DEF Nothing
<1>r. ASSUME Return(FALSE) PROVE VerifyInv'
  <2>1. fut' = Idle /\ ~returned'.ok
    BY <1>r DEF Return
  <2>2. QED
    BY <2>1, IdleInv, Unsuccessful
<1>1. ASSUME NEW c \in BOOLEAN, Ensure(c) PROVE VerifyInv'
  BY <1>1, <1>n, IdleInv, Unsuccessful DEF Ensure, NewSession
<1>2. ASSUME NEW op \in {"quit", "attach"}, Disconnect(op) PROVE VerifyInv'
  <2>1. ~poisoned' /\ ~returned'.ok
    BY <1>2, <1>n DEF Disconnect, NewSession
  <2>2. fut'.at \in {"idle", "quit"} /\ fut'.op \notin {"upload", "download"}
    <3>1. \/ fut' = Idle
          \/ fut' = [Idle EXCEPT !.at = "quit", !.op = op]
      BY <1>2 DEF Disconnect
    <3>2. LET f == [Idle EXCEPT !.at = "quit", !.op = op] IN f.at = "quit" /\ f.op = op
      BY DEF Idle
    <3>3. Idle.at = "idle" /\ Idle.op = "none"
      BY IdleType
    <3>4. QED
      BY <3>1, <3>2, <3>3
  <2>3. QED
    BY <2>1, <2>2, Unsuccessful DEF VerbInv, SizeInv
<1>3. CASE Disconnected
  BY <1>3, <1>v, IdleInv, Unsuccessful DEF Disconnected, RunningInv
<1>4. CASE Start
  <2>1. ~poisoned' /\ ~returned'.ok
    BY <1>4, <1>n DEF Start
  <2>2. QED
    BY <1>4, <2>1, CallsVerb, Unsuccessful DEF Start, VerbInv, SizeInv
<1>5. CASE Write
  <2>1. /\ fut' = Goto("read") /\ fut'.at = "read" /\ fut'.op = fut.op /\ fut'.verb = fut.verb
        /\ fut'.path = fut.path /\ returned' = returned
        /\ fut.at = "write" /\ issued' = issued + 1 /\ Serve /\ UNCHANGED <<poisoned, dropped>>
    BY <1>5, <1>f, GotoFields DEF Write, Continue
  <2>2. ~poisoned /\ ~returned.ok
    BY <1>v, <2>1 DEF RunningInv
  <2>3. VerbInv'
    BY <1>v, <2>1 DEF VerbInv
  <2>4. SizeInv'
    BY <2>1, <2>2, SizeServed DEF SizeInv
  <2>5. QED
    BY <2>1, <2>2, <2>3, <2>4, Unsuccessful
<1>6. CASE WriteFailed \/ ReadFailed \/ DataFailed
  BY <1>6, <1>r DEF WriteFailed, ReadFailed, DataFailed
<1>7. CASE ReadReply
  <2>1. fut.at = "read" /\ replies # <<>> /\ UNCHANGED <<poisoned, dropped, files>> /\ ~poisoned
    BY <1>7, <1>v DEF ReadReply, RunningInv
  <2>2. CASE \/ fut.verb \in {"PASV", "STOR", "RETR", "LIST"}
                /\ \E a \in {"dial", "tls"} : Continue(Goto(a))
             \/ fut.verb \in {"RNFR", "DELE"} /\ \E v \in {"RNTO", "PASV"} : Continue(Send(v))
    <3>1. CASE fut.verb \in {"PASV", "STOR", "RETR", "LIST"}
                /\ \E a \in {"dial", "tls"} : Continue(Goto(a))
      BY <1>f, <1>v, <2>1, <3>1, GotoFields, Unchanged DEF VerbInv
    <3>2. CASE fut.verb \in {"RNFR", "DELE"} /\ \E v \in {"RNTO", "PASV"} : Continue(Send(v))
      BY <1>f, <1>v, <2>1, <3>2, SendFields, Unchanged DEF VerbInv
    <3>3. QED
      BY <2>2, <3>1, <3>2
  <2>3. CASE fut.verb = "SIZE" /\ Return(SizeAgrees(Head(replies)))
    <3>1. fut' = Idle /\ returned'.ok = SizeAgrees(Head(replies)) /\ returned'.path = fut.path
          /\ returned'.size = fut.size
      BY <2>3 DEF Return
    <3>2. ~dropped => /\ Head(replies).code = "213" => Head(replies).size = files[fut.path]
      <4>1. replies \in Seq(ServerReply)
        BY DEF TypeOK
      <4>2. 1 \in DOMAIN replies /\ Head(replies) = replies[1]
        BY <2>1, <4>1
      <4>3. QED
        BY <1>v, <2>1, <2>3, <4>2 DEF SizeInv
    <3>3. TransferVerified'
      BY <2>1, <3>1, <3>2 DEF TransferVerified, SizeAgrees
    <3>4. QED
      BY <3>1, <3>3, IdleInv DEF VerifyInv
  <2>4. CASE \E ok \in BOOLEAN : Return(ok) /\ (fut.op = "simple" \/ fut.verb \in {"DELE", "RNTO"})
    <3>1. fut' = Idle /\ returned'.op = fut.op
      BY <2>4 DEF Return
    <3>2. fut.op \notin {"upload", "download"}
      BY <1>v, <2>4 DEF VerbInv
    <3>3. QED
      BY <3>1, <3>2, IdleInv DEF VerifyInv, TransferVerified
  <2>5. QED
    <3>1. (<<fut.verb, Head(replies).code>> \in SimpleOk) \in BOOLEAN
      OBVIOUS
    <3>2. QED
      BY <1>7, <1>r, <2>2, <2>3, <2>4, <3>1 DEF ReadReply
<1>8. ASSUME NEW ok \in BOOLEAN, Dial(ok) PROVE VerifyInv'
  <2>1. CASE Return(FALSE)
    BY <2>1, <1>r
  <2>2. CASE Continue(Send(TransferVerb(fut.op)))
    <3>1. fut.op \in {"upload", "download"} => TransferVerb(fut.op) \in {"STOR", "RETR"}
      BY DEF TransferVerb
    <3>2. QED
      BY <1>8, <1>f, <2>2, <3>1, SendFields, Unchanged DEF Dial
  <2>3. QED
    BY <1>8, <2>1, <2>2 DEF Dial
<1>9. CASE OpenDataChannel
  BY <1>9, <1>f, <1>v, GotoFields, Unchanged DEF OpenDataChannel, VerbInv
<1>10. CASE DataDone
  <2>1. fut.at = "data" /\ UNCHANGED <<poisoned, dropped>>
    BY <1>10 DEF DataDone
  <2>2. PICK f : Continue(f) /\ f.at = "confirm" /\ f.op = fut.op /\ f.verb = fut.verb
    <3>1. CASE Continue(Goto("confirm"))
      BY <3>1, <1>f, GotoFields
    <3>2. CASE Downloaded
      BY <3>2, <1>f, ConfirmFields DEF Downloaded
    <3>3. CASE \E code : Listed(code)
      <4>1. PICK seen, w : Continue([Goto("confirm") EXCEPT !.names = seen, !.whole = w])
        BY <3>3 DEF Listed
      <4>2. QED
        <5> DEFINE g == [Goto("confirm") EXCEPT !.names = seen, !.whole = w]
        <5>1. g.at = "confirm" /\ g.op = fut.op /\ g.verb = fut.verb
          BY <1>f, ConfirmFields
        <5>2. Continue(g)
          BY <4>1
        <5> HIDE DEF g
        <5>3. QED
          BY <5>1, <5>2
    <3>4. QED
      BY <1>10, <3>1, <3>2, <3>3 DEF DataDone
  <2>3. QED
    BY <1>v, <2>1, <2>2, Unchanged DEF VerbInv
<1>11. CASE DataStopped
  <2>1. fut' = Idle /\ returned'.op = fut.op /\ returned'.ok = (fut.op = "prefix")
    BY <1>11 DEF DataStopped, Return
  <2>2. QED
    BY <2>1, IdleInv DEF VerifyInv, TransferVerified
<1>12. CASE ReadFinal
  <2>1. fut.at = "confirm" /\ UNCHANGED <<poisoned, dropped, files>>
    BY <1>12 DEF ReadFinal
  <2>2. CASE Continue(Send("SIZE"))
    BY <1>f, <2>1, <2>2, SendFields, Unchanged
  <2>3. CASE \E ok : Return(ok) /\ fut.op \notin {"upload", "download"}
    <3>1. fut' = Idle /\ returned'.op = fut.op
      BY <2>3 DEF Return
    <3>2. QED
      BY <2>3, <3>1, IdleInv DEF VerifyInv, TransferVerified
  <2>4. QED
    BY <1>12, <1>r, <2>2, <2>3 DEF ReadFinal, finish_removal
<1>13. CASE Cancel
  <2>1. fut' = Idle /\ dropped'
    BY <1>13 DEF Cancel
  <2>2. QED
    BY <2>1, IdleInv DEF VerifyInv, TransferVerified
<1>14. CASE UNCHANGED vars
  BY <1>14 DEF vars, slot, VerifyInv, RunningInv, VerbInv, SizeInv, TransferVerified
<1>15. QED
  BY <1>1, <1>2, <1>3, <1>4, <1>5, <1>6, <1>7, <1>8, <1>9, <1>10, <1>11, <1>12, <1>13, <1>14 DEF Next

\* FtpsClient reports an upload or a download as done only when the file on the
\* printer has the size it sent or read: whatever part the server stored,
\* whatever final reply it gave, and over any number of operations and sessions,
\* as long as no caller dropped one (upload_from, check_downloaded_size).
THEOREM TransferTheorem == Spec => []TransferVerified
<1>1. Init => VerifyInv
  BY VerifyInit
<1>2. TypeOK /\ InSync /\ VerifyInv /\ [Next]_vars => VerifyInv'
  BY VerifyNext
<1>3. VerifyInv => TransferVerified
  BY DEF VerifyInv
<1>4. QED
  BY <1>1, <1>2, <1>3, FtpsTypeCorrect, PoisoningTheorem, PTL DEF Spec
============================================================================

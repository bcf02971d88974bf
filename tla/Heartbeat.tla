----------------------------- MODULE Heartbeat -----------------------------
(***************************************************************************)
(* The heartbeat client: core/heartbeat/heartbeat.go and handler.go.       *)
(*                                                                         *)
(* HeartBeater.Beat connects to the device manager, runs beat() on the     *)
(* connection until it fails, closes it and starts again. beat() is one    *)
(* goroutine that first queues two reports and then, in a select, writes   *)
(* the packets of the channel toBeSent to the connection, queues an empty  *)
(* packet on every tick of its ticker, and ends when its context is done.  *)
(* A second goroutine per connection (readFromConn) reads the server's     *)
(* requests and queues the answers on the same channel, which outlives the *)
(* connections.                                                            *)
(*                                                                         *)
(* Bounds: Conns is a pool of connection slots, free again once the        *)
(* connection is closed and its reader has ended; MaxRequires is the number *)
(* of answers one request asks for.                                        *)
(***************************************************************************)
EXTENDS Integers, Sequences

CONSTANTS Conns, Cap, AllowErrorCount, MaxRequires, NoConn

ASSUME HeartbeatAssumption ==
  /\ Cap \in Nat \ {0}
  /\ AllowErrorCount \in Nat
  /\ MaxRequires \in Nat \ {0}
  /\ NoConn \notin Conns

VARIABLES
  bpc,        \* control point of Beat
  conn,       \* b.conn, or NoConn
  Status,     \* b.Status
  errCount,   \* failed connects in this turn of Beat's loop
  errorCount, \* failed writes in a row in this beat()
  toBeSent,   \* the channel b.toBeSent, of capacity Cap
  link,       \* link[c]: the TCP connection in slot c
  reader,     \* reader[c]: the readFromConn goroutine of c
  owed,       \* owed[c]: answers that reader still has to queue
  done,       \* the connections whose beat() context has been cancelled
  cancelled   \* the ctx given to Beat is done

heartbeatVars == <<bpc, conn, Status, errCount, errorCount, toBeSent, link, reader,
          owed, done, cancelled>>

Packet == {"workerID", "report", "empty"}

HeartbeatTypeOK ==
  /\ bpc \in {"dial", "helloID", "helloNet", "select", "tick", "down", "returned"}
  /\ conn \in Conns \cup {NoConn}
  /\ Status \in {"Disconnected", "Connected", "Beat"}
  /\ errCount \in 0 .. AllowErrorCount + 1
  /\ errorCount \in 0 .. AllowErrorCount
  /\ toBeSent \in Seq(Packet) /\ Len(toBeSent) <= Cap
  /\ link \in [Conns -> {"closed", "up", "broken"}]
  /\ reader \in [Conns -> {"idle", "reading", "replying"}]
  /\ owed \in [Conns -> 0 .. MaxRequires]
  /\ done \in SUBSET Conns
  /\ cancelled \in BOOLEAN

HeartbeatInit ==
  /\ bpc = "dial"
  /\ conn = NoConn
  /\ Status = "Disconnected"
  /\ errCount = 0
  /\ errorCount = 0
  /\ toBeSent = <<>>
  /\ link = [c \in Conns |-> "closed"]
  /\ reader = [c \in Conns |-> "idle"]
  /\ owed = [c \in Conns |-> 0]
  /\ done = {}
  /\ cancelled = FALSE

-----------------------------------------------------------------------------
(* Beat: connect and disconnect *)

FreeConns == {c \in Conns : link[c] = "closed" /\ reader[c] = "idle"}

\* connect succeeds; beat() makes its context and spawns the reader.
Connect(c) ==
  /\ bpc = "dial"
  /\ c \in FreeConns
  /\ conn' = c
  /\ Status' = "Connected"
  /\ link' = [link EXCEPT ![c] = "up"]
  /\ reader' = [reader EXCEPT ![c] = "reading"]
  /\ done' = done \ {c}
  /\ bpc' = "helloID"
  /\ UNCHANGED <<errCount, errorCount, toBeSent, owed, cancelled>>

\* errCount > b.AllowErrorCount
TooManyErrors(n) == n > AllowErrorCount

\* connect fails; after too many failures in a row Beat returns the error. (The
\* OnDNSError callback is nil in the only HeartBeater the program makes.)
ConnectFails ==
  /\ bpc = "dial"
  /\ errCount' = errCount + 1
  /\ bpc' = IF TooManyErrors(errCount + 1) THEN "returned" ELSE "dial"
  /\ UNCHANGED <<conn, Status, errorCount, toBeSent, link, reader, owed, done, cancelled>>

\* Mutant: disconnect forgets to close the connection.
LeaveOpen == UNCHANGED link

\* b.conn.Close()
CloseConn == link' = [link EXCEPT ![conn] = "closed"]

\* beat() returns, which cancels its context, then disconnect, and
\* Beat's loop starts again.
Disconnect ==
  /\ bpc = "down"
  /\ CloseConn
  /\ conn' = NoConn
  /\ Status' = "Disconnected"
  /\ done' = done \cup {conn}
  /\ errCount' = 0
  /\ errorCount' = 0
  /\ bpc' = "dial"
  /\ UNCHANGED <<toBeSent, reader, owed, cancelled>>

-----------------------------------------------------------------------------
(* sendPacket: toBeSent <- packet, which blocks while the channel is full *)

SendPacket(p) ==
  /\ Len(toBeSent) < Cap
  /\ toBeSent' = Append(toBeSent, p)

\* beat() queues the WorkerID and the network report before its loop.
Hello ==
  /\ \/ bpc = "helloID" /\ SendPacket("workerID") /\ bpc' = "helloNet"
     \/ bpc = "helloNet" /\ SendPacket("report") /\ bpc' = "select"
  /\ UNCHANGED <<conn, Status, errCount, errorCount, link, reader, owed, done, cancelled>>

-----------------------------------------------------------------------------
(* beat: the select loop *)

\* errorCount >= b.AllowErrorCount
ErrorsUsedUp == errorCount >= AllowErrorCount

Selecting == bpc = "select" /\ ~ErrorsUsedUp

\* beat() returns ErrMaxErrorCountExceed.
MaxErrorCountExceed ==
  /\ bpc = "select"
  /\ ErrorsUsedUp
  /\ bpc' = "down"
  /\ UNCHANGED <<conn, Status, errCount, errorCount, toBeSent, link, reader, owed, done, cancelled>>

\* Write succeeds. The kernel also accepts a packet for a peer that is gone.
WriteOk ==
  /\ Selecting
  /\ toBeSent # <<>>
  /\ toBeSent' = Tail(toBeSent)
  /\ Status' = "Beat"
  /\ errorCount' = 0
  /\ UNCHANGED <<bpc, conn, errCount, link, reader, owed, done, cancelled>>

\* Write fails because the connection is broken: beat() returns.
WriteBroken ==
  /\ Selecting
  /\ toBeSent # <<>>
  /\ link[conn] = "broken"
  /\ toBeSent' = Tail(toBeSent)
  /\ bpc' = "down"
  /\ UNCHANGED <<conn, Status, errCount, errorCount, link, reader, owed, done, cancelled>>

\* Write fails otherwise (the write deadline): counted, the packet is gone.
WriteError ==
  /\ Selecting
  /\ toBeSent # <<>>
  /\ toBeSent' = Tail(toBeSent)
  /\ errorCount' = errorCount + 1
  /\ UNCHANGED <<bpc, conn, Status, errCount, link, reader, owed, done, cancelled>>

\* The ticker fires and sendEmpty begins.
BeatTick ==
  /\ Selecting
  /\ bpc' = "tick"
  /\ UNCHANGED <<conn, Status, errCount, errorCount, toBeSent, link, reader, owed, done, cancelled>>

\* sendEmpty gets its packet into the channel. Only this goroutine drains it.
SendEmpty ==
  /\ bpc = "tick"
  /\ SendPacket("empty")
  /\ bpc' = "select"
  /\ UNCHANGED <<conn, Status, errCount, errorCount, link, reader, owed, done, cancelled>>

\* Mutant: beat() watches ctx instead of its own cancellable context.
OuterCtxDone == cancelled

\* Mutant: the contexts of all connections are cancelled together.
SharedCtxDone == cancelled \/ done # {}

\* ctxWithCancel.Done()
CtxDone == cancelled \/ conn \in done

Done ==
  /\ Selecting
  /\ CtxDone
  /\ bpc' = "down"
  /\ UNCHANGED <<conn, Status, errCount, errorCount, toBeSent, link, reader, owed, done, cancelled>>

-----------------------------------------------------------------------------
(* readFromConn *)

\* A request is read; n of its RequireTypes have a handler. One that came in
\* before the connection broke or was closed is still in the reader's buffer.
Request(c, n) ==
  /\ reader[c] = "reading"
  /\ reader' = [reader EXCEPT ![c] = "replying"]
  /\ owed' = [owed EXCEPT ![c] = n]
  /\ UNCHANGED <<bpc, conn, Status, errCount, errorCount, toBeSent, link, done, cancelled>>

\* handleRequire queues one answer.
Reply(c) ==
  /\ reader[c] = "replying"
  /\ SendPacket("report")
  /\ owed' = [owed EXCEPT ![c] = @ - 1]
  /\ reader' = [reader EXCEPT ![c] = IF owed[c] = 1 THEN "reading" ELSE "replying"]
  /\ UNCHANGED <<bpc, conn, Status, errCount, errorCount, link, done, cancelled>>

\* A read fails: the reader ends and cancels the context of its own beat().
ReaderEnd(c) ==
  /\ reader[c] = "reading"
  /\ link[c] # "up"
  /\ reader' = [reader EXCEPT ![c] = "idle"]
  /\ done' = done \cup {c}
  /\ UNCHANGED <<bpc, conn, Status, errCount, errorCount, toBeSent, link, owed, cancelled>>

-----------------------------------------------------------------------------
(* The environment *)

PeerCloses(c) ==
  /\ link[c] = "up"
  /\ link' = [link EXCEPT ![c] = "broken"]
  /\ UNCHANGED <<bpc, conn, Status, errCount, errorCount, toBeSent, reader, owed, done, cancelled>>

CancelBeat ==
  /\ ~cancelled
  /\ cancelled' = TRUE
  /\ UNCHANGED <<bpc, conn, Status, errCount, errorCount, toBeSent, link, reader, owed, done>>

-----------------------------------------------------------------------------

\* What Beat's goroutine does by itself; BeatTick is the ticker's doing.
BeatNext ==
  \/ Disconnect \/ Hello \/ MaxErrorCountExceed
  \/ WriteOk \/ WriteBroken \/ WriteError \/ SendEmpty \/ Done

Dial == ConnectFails \/ \E c \in Conns : Connect(c)

ReaderNext(c) == Reply(c) \/ ReaderEnd(c)

HeartbeatNext ==
  \/ BeatNext \/ Dial \/ BeatTick \/ CancelBeat
  \/ \E c \in Conns : \/ ReaderNext(c) \/ PeerCloses(c)
                      \/ \E n \in 1 .. MaxRequires : Request(c, n)

HeartbeatSpec == HeartbeatInit /\ [][HeartbeatNext]_heartbeatVars

\* Beat's goroutine and the readers are scheduled, the ticker ticks, and a
\* select whose Done case is ready again and again takes it some time (Go
\* chooses among the ready cases at random). A reader gets its turn on a channel
\* with room again and again, and comes to the end of a connection that is gone.
HeartbeatFairness ==
  /\ WF_heartbeatVars(BeatNext)
  /\ WF_heartbeatVars(Dial)
  /\ WF_heartbeatVars(BeatTick)
  /\ SF_heartbeatVars(Done)
  /\ \A c \in Conns : SF_heartbeatVars(Reply(c)) /\ SF_heartbeatVars(ReaderEnd(c))

HeartbeatFairSpec == HeartbeatSpec /\ HeartbeatFairness

-----------------------------------------------------------------------------
(* Properties *)

\* The device manager holds at most one connection of this worker: whatever
\* readers are left behind, every connection but b.conn has been closed.
OneConnection == \A c \in Conns : link[c] # "closed" => c = conn

\* A reader left over from an earlier connection does not end the current one:
\* beat() is only left for its own connection's fault, its own write errors or
\* the cancellation of the caller's context.
LeavesForOwnFault ==
  [][bpc = "select" /\ bpc' = "down" =>
       cancelled \/ link[conn] = "broken" \/ errorCount >= AllowErrorCount]_heartbeatVars

\* A connection the server has closed is given up, by the reader's cancel or by
\* a failing write, unless toBeSent has filled up.
BrokenIsLeft ==
  \A c \in Conns : (conn = c /\ link[c] = "broken") ~> (conn # c \/ Len(toBeSent) = Cap)

=============================================================================

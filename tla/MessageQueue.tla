--------------------------- MODULE MessageQueue ---------------------------
(***************************************************************************)
(* The topics of the message queue and the websockets that follow them:    *)
(* gateway/serve/mq.go over gateway/store/store.go.                        *)
(*                                                                         *)
(* Each start of the gateway makes a handler. Those of the starts before   *)
(* it in the same process live on: web.Serve leaves the connections it has *)
(* accepted, listenUnix those of the socket, and websockets are hijacked.  *)
(*                                                                         *)
(* A store is an object made by Setup, 0 for none, over one LevelDB file,  *)
(* which the first object to be used locks until the process ends.         *)
(*                                                                         *)
(* A websocket takes one write at a time, and a second one panics: in a    *)
(* handler the panic is recovered and ends the connection, in the          *)
(* goroutine of sendTopic it ends the process (fatal).                     *)
(***************************************************************************)
EXTENDS Naturals, FiniteSets

CONSTANTS
  Topics,
  Conns,     \* websockets, each opened once
  NoTopic,
  MaxStarts  \* bound: starts of the gateway

Handlers == 1..MaxStarts
NoStore == 0
TopicList == "list" \* the message that repeats all topics at the end

VARIABLES
  live,     \* the handlers of this process
  ownStore, \* ownStore[h]: the store of h
  holder,   \* the store that has the file open
  topics,   \* the topics in the file
  toSend,   \* <<h, t>>: a sendTopic of h for t has not got h.mu yet
  sending,  \* sending[h]: the one that has it: its topic and the connections left
  owner,    \* owner[c]: the handler that c was opened with
  wsConns,  \* the registered connections, each with its handler
  conn,     \* conn[c]: where the NotifyTopics of c is
  todo,     \* todo[c]: what it still has to write
  writer,   \* writer[c]: who writes to c: "handler", "sender" or "no"
  broken,   \* broken[c]: c has failed, and nothing is delivered
  got       \* got[c]: topics delivered to c

storeVars == <<live, ownStore, holder>>
mqVars == <<storeVars, topics, toSend, sending, owner, wsConns, conn, todo, writer, broken, got>>

NotSending == [topic |-> NoTopic, left |-> {}]

MQTypeOK ==
  /\ live \subseteq Handlers
  /\ ownStore \in [Handlers -> Handlers \cup {NoStore}] /\ holder \in Handlers \cup {NoStore}
  /\ topics \subseteq Topics /\ toSend \subseteq Handlers \X Topics
  /\ sending \in [Handlers -> [topic : Topics \cup {NoTopic}, left : SUBSET Conns]]
  /\ owner \in [Conns -> Handlers \cup {0}]
  /\ wsConns \subseteq Conns
  /\ conn \in [Conns -> {"none", "upgraded", "added", "listed", "reading", "gone"}]
  /\ todo \in [Conns -> SUBSET (Topics \cup {TopicList})]
  /\ writer \in [Conns -> {"handler", "sender", "no"}]
  /\ broken \in [Conns -> BOOLEAN]
  /\ got \in [Conns -> SUBSET Topics]

MQInit ==
  /\ live = {} /\ ownStore = [h \in Handlers |-> NoStore] /\ holder = NoStore
  /\ topics = {} /\ toSend = {} /\ sending = [h \in Handlers |-> NotSending]
  /\ owner = [c \in Conns |-> 0] /\ wsConns = {}
  /\ conn = [c \in Conns |-> "none"]
  /\ todo = [c \in Conns |-> {}]
  /\ writer = [c \in Conns |-> "no"]
  /\ broken = [c \in Conns |-> FALSE]
  /\ got = [c \in Conns |-> {}]

\* The process ends: every handler and connection with it, the file stays.
MQReset ==
  /\ live' = {} /\ ownStore' = [h \in Handlers |-> NoStore] /\ holder' = NoStore
  /\ toSend' = {} /\ sending' = [h \in Handlers |-> NotSending] /\ wsConns' = {}
  /\ conn' = [c \in Conns |-> IF conn[c] = "none" THEN "none" ELSE "gone"]
  /\ todo' = [c \in Conns |-> {}]
  /\ writer' = [c \in Conns |-> "no"]
  /\ UNCHANGED <<owner, broken, got>>

\* The handler of the start that comes after all others joins them, with store s.
MQStart(h, s) ==
  /\ live' = live \cup {h} /\ ownStore' = [ownStore EXCEPT ![h] = s]
  /\ UNCHANGED <<topics, toSend, sending, owner, wsConns, conn, todo, writer, broken, got>>

-----------------------------------------------------------------------------
\* A store can be used while no other one has the file open.
Usable(s) == s # NoStore /\ holder \in {NoStore, s}

\* db: the first use of a store opens it. An Open that fails changes nothing.
db(s) == holder' = IF Usable(s) THEN s ELSE holder

\* GrantTopic: Put, whose error is dropped, and a goroutine for sendTopic. (Bound:
\* one sendTopic a topic and handler waits.) ProhibitTopic changes nothing.
GrantTopic(h, t) ==
  /\ h \in live /\ <<h, t>> \notin toSend
  /\ db(ownStore[h])
  /\ topics' = IF Usable(ownStore[h]) THEN topics \cup {t} ELSE topics
  /\ toSend' = toSend \cup {<<h, t>>}
  /\ UNCHANGED <<live, ownStore, sending, owner, wsConns, conn, todo, writer, broken, got>>

\* A request that only reads the store opens it too.
ReadStore(h) ==
  /\ h \in live /\ db(ownStore[h])
  /\ UNCHANGED <<live, ownStore, topics, toSend, sending, owner, wsConns, conn, todo, writer,
                 broken, got>>

\* NotifyTopics: Upgrade, addWsConn under h.mu, then ListTopics.
Upgrade(c, h) ==
  /\ h \in live /\ conn[c] = "none"
  /\ conn' = [conn EXCEPT ![c] = "upgraded"]
  /\ owner' = [owner EXCEPT ![c] = h]
  /\ UNCHANGED <<storeVars, topics, toSend, sending, wsConns, todo, writer, broken, got>>

addWsConn(c) ==
  /\ conn[c] = "upgraded" /\ sending[owner[c]] = NotSending
  /\ wsConns' = wsConns \cup {c}
  /\ conn' = [conn EXCEPT ![c] = "added"]
  /\ UNCHANGED <<storeVars, topics, toSend, sending, owner, todo, writer, broken, got>>

\* The topics of the store, none without a store. A store that cannot be opened
\* panics: NotifyTopics ends, and the connection stays registered.
ListTopics(c) ==
  LET s == ownStore[owner[c]]
      listed == s = NoStore \/ Usable(s)
  IN /\ conn[c] = "added" /\ db(s)
     /\ conn' = [conn EXCEPT ![c] = IF listed THEN "listed" ELSE "gone"]
     /\ todo' = [todo EXCEPT ![c] = (IF Usable(s) THEN topics ELSE {})
                                     \cup (IF listed THEN {TopicList} ELSE {})]
     /\ UNCHANGED <<live, ownStore, topics, toSend, sending, owner, wsConns, writer, broken, got>>

\* WriteJSON of the handler begins, unless a sender writes: then it panics.
WriteToken(c) ==
  /\ conn[c] = "listed" /\ writer[c] # "handler" /\ todo[c] # {}
  /\ \/ writer[c] = "no" /\ writer' = [writer EXCEPT ![c] = "handler"] /\ conn' = conn
     \/ writer[c] = "sender" /\ conn' = [conn EXCEPT ![c] = "gone"] /\ writer' = writer
  /\ UNCHANGED <<storeVars, topics, toSend, sending, owner, wsConns, todo, broken, got>>

Delivered(c, m) ==
  [got EXCEPT ![c] = IF broken[c] THEN @ ELSE @ \cup ({m} \cap Topics)]

\* It ends, with or without success, and after the last one the handler reads.
Written(c, m) ==
  /\ writer[c] = "handler" /\ m \in todo[c]
  /\ writer' = [writer EXCEPT ![c] = "no"]
  /\ todo' = [todo EXCEPT ![c] = @ \ {m}]
  /\ got' = Delivered(c, m)
  /\ conn' = [conn EXCEPT ![c] = IF todo[c] = {m} THEN "reading" ELSE @]
  /\ UNCHANGED <<storeVars, topics, toSend, sending, owner, wsConns, broken>>

\* The connections registered with a handler.
Registered(h) == {c \in wsConns : owner[c] = h}

\* Mutant: the connections that are still being sent the list are passed over.
sendTopicToReaders(h, t) ==
  /\ <<h, t>> \in toSend /\ sending[h] = NotSending
  /\ toSend' = toSend \ {<<h, t>>}
  /\ sending' = [sending EXCEPT
       ![h] = [topic |-> t, left |-> {c \in Registered(h) : conn[c] = "reading"}]]
  /\ UNCHANGED <<storeVars, topics, owner, wsConns, conn, todo, writer, broken, got>>

\* sendTopic gets h.mu, and keeps it until all connections are written to.
sendTopic(h, t) ==
  /\ <<h, t>> \in toSend /\ sending[h] = NotSending
  /\ toSend' = toSend \ {<<h, t>>}
  /\ sending' = [sending EXCEPT ![h] = [topic |-> t, left |-> Registered(h)]]
  /\ UNCHANGED <<storeVars, topics, owner, wsConns, conn, todo, writer, broken, got>>

\* A write of sendTopic begins; to a connection that is gone it fails at once.
SendJSON(h, c) ==
  /\ c \in sending[h].left /\ writer[c] = "no"
  /\ IF conn[c] = "gone"
     THEN sending' = [sending EXCEPT ![h].left = @ \ {c}] /\ writer' = writer
     ELSE writer' = [writer EXCEPT ![c] = "sender"] /\ sending' = sending
  /\ UNCHANGED <<storeVars, topics, toSend, owner, wsConns, conn, todo, broken, got>>

Sent(h, c) ==
  /\ c \in sending[h].left /\ writer[c] = "sender"
  /\ writer' = [writer EXCEPT ![c] = "no"]
  /\ sending' = [sending EXCEPT ![h].left = @ \ {c}]
  /\ got' = Delivered(c, sending[h].topic)
  /\ UNCHANGED <<storeVars, topics, toSend, owner, wsConns, conn, todo, broken>>

SentAll(h) ==
  /\ sending[h] # NotSending /\ sending[h].left = {}
  /\ sending' = [sending EXCEPT ![h] = NotSending]
  /\ UNCHANGED <<storeVars, topics, toSend, owner, wsConns, conn, todo, writer, broken, got>>

\* A sender panics: NotifyTopics is writing to its connection.
fatal == \E h \in Handlers : \E c \in sending[h].left : writer[c] = "handler"

\* A close frame: removeWsConn under h.mu; the reads fail, and the handler ends.
Close(c) ==
  /\ conn[c] = "reading" /\ sending[owner[c]] = NotSending
  /\ wsConns' = wsConns \ {c}
  /\ conn' = [conn EXCEPT ![c] = "gone"]
  /\ UNCHANGED <<storeVars, topics, toSend, sending, owner, todo, writer, broken, got>>

\* The connection fails without one: nothing is removed, and the handler ends when
\* the thousandth failed read panics.
Fail(c) ==
  /\ conn[c] \notin {"none", "gone"} /\ ~broken[c]
  /\ broken' = [broken EXCEPT ![c] = TRUE]
  /\ UNCHANGED <<storeVars, topics, toSend, sending, owner, wsConns, conn, todo, writer, got>>

ReadPanics(c) ==
  /\ conn[c] = "reading" /\ broken[c]
  /\ conn' = [conn EXCEPT ![c] = "gone"]
  /\ UNCHANGED <<storeVars, topics, toSend, sending, owner, wsConns, todo, writer, broken, got>>

MQNext ==
  \/ \E h \in Handlers :
       \/ ReadStore(h) \/ SentAll(h)
       \/ \E t \in Topics : GrantTopic(h, t) \/ sendTopic(h, t)
       \/ \E c \in Conns : Upgrade(c, h) \/ SendJSON(h, c) \/ Sent(h, c)
  \/ \E c \in Conns :
       \/ addWsConn(c) \/ ListTopics(c) \/ WriteToken(c)
       \/ Close(c) \/ Fail(c) \/ ReadPanics(c)
       \/ \E m \in Topics \cup {TopicList} : Written(c, m)

-----------------------------------------------------------------------------
\* A connection that has been sent the list misses no topic of the file, whichever
\* handlers of the process the topics were granted through, if its own handler has
\* a store: a topic it has not got is still to be sent to it (NotifyTopics
\* registers the connection before it lists, GrantTopic stores before it sends,
\* and only the store that listed can be written to).
NoTopicMissed ==
  \A c \in Conns, t \in topics :
    conn[c] = "reading" /\ ~broken[c] /\ ownStore[owner[c]] # NoStore =>
      \/ t \in got[c]
      \/ <<owner[c], t>> \in toSend
      \/ sending[owner[c]].topic = t /\ c \in sending[owner[c]].left

=============================================================================

---------------------------- MODULE ConfigAgent ----------------------------
(***************************************************************************)
(* One websocket of the config agent: gateway/serve/configagent.go.        *)
(*                                                                         *)
(* Three kinds of goroutine: the reader (ServeWebsocket), the handler      *)
(* (handleRequest) and the watchers (watchKeybg). The reader sends the     *)
(* handler pointers to one variable, so a request may be overwritten       *)
(* before it is carried out. Both write to the websocket with no lock, and *)
(* the library panics when it notices two writers. The config agent itself *)
(* is outside the code: a key has an index there that grows when its value *)
(* changes.                                                                *)
(***************************************************************************)
EXTENDS Naturals, Sequences, FiniteSets

CONSTANTS
  Keys,
  Watchers,    \* bound: goroutines that watch
  ChSize,      \* capacity of the channel of requests
  ReplySize,   \* capacity of responseC
  MaxIndex,    \* bound: changes of a key
  MaxMessages, \* bound: messages of the client
  NoKey        \* the empty key

ASSUME ConfigAssumption ==
  /\ NoKey \notin Keys
  /\ ChSize \in Nat /\ ReplySize \in Nat /\ MaxMessages \in Nat /\ MaxIndex \in Nat \ {0}

\* "get" stands for an unknown action too: both are only answered.
Actions == {"get", "put", "watch", "unwatch"}

AnyKey == Keys \cup {NoKey}
Message == [action : Actions, key : AnyKey, json : BOOLEAN]

\* The answer that is written is no reply of a watcher.
NoReply == <<NoKey, 0>>

VARIABLES
  ws,        \* the websocket: "open", "closed" by a close frame, or "failed"
  reader,    \* "read", "send" on the channel, "write" an error
  req,       \* the variable all pointers point to: action, key, whether it has a json
  ch,        \* pointers in the channel
  handler,   \* "select", "switch", an action that was read, "write", "ended"
  writing,   \* the reply the handler writes: <<key, index>>
  keys,      \* the watched keys
  stoped,    \* Stop was called, and responseC is closed
  responses, \* what is in responseC: <<key, index>>
  watcher,   \* watcher[w]: what it does, for which key, with which reply
  bucket,    \* ConfigIndexBucket
  config,    \* config[k]: the index of k at the agent
  shown,     \* shown[k]: the last index of k written to the websocket
  lost,      \* the keys whose last reply was spoilt by two writers at once
  panic,     \* the process is gone: a watcher's "send" on the closed channel, or the
             \* handler's "write" at the same time as the reader's; else "none"
  asking,    \* a watcher had asked the agent, and not sent its reply, at the Stop
  messages   \* messages read

configVars == <<ws, reader, req, ch, handler, writing, keys, stoped, responses, watcher, bucket,
                config, shown, lost, panic, asking, messages>>

watchVars == <<keys, stoped, responses, watcher, bucket, config, asking>>
shownVars == <<shown, lost, panic>>

NoWatcher == [pc |-> "none", key |-> NoKey, index |-> 0]

ConfigTypeOK ==
  /\ ws \in {"open", "closed", "failed"} /\ reader \in {"read", "send", "write"}
  /\ req \in Message
  /\ ch \in 0..ChSize
  /\ handler \in {"select", "switch", "write", "ended"} \cup Actions
  /\ writing \in AnyKey \X (0..MaxIndex)
  /\ keys \subseteq AnyKey /\ stoped \in BOOLEAN /\ asking \in BOOLEAN
  /\ responses \in Seq(Keys \X (0..MaxIndex)) /\ Len(responses) <= ReplySize
  /\ watcher \in [Watchers -> [pc : {"none", "check", "get", "send"},
                               key : AnyKey, index : 0..MaxIndex]]
  /\ bucket \in [Keys -> 0..MaxIndex] /\ config \in [Keys -> 0..MaxIndex]
  /\ shown \in [Keys -> 0..MaxIndex] /\ lost \subseteq Keys
  /\ panic \in {"none", "send", "write"}
  /\ messages \in 0..MaxMessages

ConfigInit ==
  /\ ws = "open" /\ reader = "read" /\ handler = "select" /\ ch = 0 /\ messages = 0
  /\ req = [action |-> "get", key |-> NoKey, json |-> FALSE]
  /\ keys = {} /\ stoped = FALSE /\ responses = <<>> /\ asking = FALSE
  /\ watcher = [w \in Watchers |-> NoWatcher]
  /\ bucket = [k \in Keys |-> 0]
  /\ config = [k \in Keys |-> 1]
  /\ shown = [k \in Keys |-> 0]
  /\ writing = NoReply /\ lost = {} /\ panic = "none"

-----------------------------------------------------------------------------
\* ServeWebsocket reads a message into the variable, over the request a pointer in the
\* channel may stand for: what the message leaves out stays from the one before. That
\* is so too when the message is then refused, because a part of it does not fit or
\* because the key is empty.
ReadMessage(message) ==
  /\ ws = "open" /\ reader = "read" /\ messages < MaxMessages
  /\ req' = message
  /\ \/ message.key # NoKey /\ reader' = "send"
     \/ reader' = "write"
  /\ messages' = messages + 1
  /\ UNCHANGED <<ws, ch, handler, writing, watchVars, shownVars>>

\* The pointer goes into the channel when it has room.
SendRequest ==
  /\ reader = "send" /\ ch < ChSize
  /\ ch' = ch + 1
  /\ reader' = "read"
  /\ UNCHANGED <<ws, req, handler, writing, watchVars, shownVars, messages>>

\* The error is written.
WriteError ==
  /\ reader = "write"
  /\ reader' = "read"
  /\ UNCHANGED <<ws, req, ch, handler, writing, watchVars, shownVars, messages>>

\* The close handler closes the channel, or a failed read ends the reader and leaves
\* the channel open.
ReaderEnds(how) ==
  /\ ws = "open" /\ reader = "read"
  /\ ws' = how
  /\ UNCHANGED <<reader, req, ch, handler, writing, watchVars, shownVars, messages>>

HandleClose == ReaderEnds("closed")

ReadFails == ReaderEnds("failed")

-----------------------------------------------------------------------------
\* handleRequest takes a pointer, reads the action there, and then the rest.
TakeRequest ==
  /\ handler = "select" /\ ch > 0
  /\ ch' = ch - 1
  /\ handler' = "switch"
  /\ UNCHANGED <<ws, reader, req, writing, watchVars, shownVars, messages>>

ReadAction ==
  /\ handler = "switch"
  /\ handler' = req.action
  /\ UNCHANGED <<ws, reader, req, ch, writing, watchVars, shownVars, messages>>

\* A get is answered, and so is a put without json. A put with one changes
\* nothing: the URL that PutConfig makes has no host, so the request to the agent always
\* fails, and the error is dropped.
PutConfig ==
  /\ handler \in {"get", "put"}
  /\ handler' = IF handler = "put" /\ req.json THEN "select" ELSE "write"
  /\ UNCHANGED <<ws, reader, req, ch, writing, watchVars, shownVars, messages>>

WatchKey ==
  /\ handler = "watch"
  /\ \/ req.key \in keys /\ watcher' = watcher
     \/ /\ req.key \notin keys
        /\ \E w \in Watchers :
             /\ watcher[w].pc = "none"
             /\ watcher' = [watcher EXCEPT ![w] = [pc |-> "check", key |-> req.key, index |-> 0]]
  /\ keys' = keys \cup {req.key}
  /\ handler' = "select"
  /\ UNCHANGED <<ws, reader, req, ch, writing, stoped, responses, bucket, config, asking,
                 shownVars, messages>>

UnwatchKey ==
  /\ handler = "unwatch"
  /\ keys' = keys \ {req.key}
  /\ handler' = "select"
  /\ UNCHANGED <<ws, reader, req, ch, writing, stoped, responses, watcher, bucket, config, asking,
                 shownVars, messages>>

\* A reply is written when ConfigChanged.
TakeResponse ==
  /\ handler = "select" /\ responses # <<>>
  /\ LET k == Head(responses)[1]
         i == Head(responses)[2]
     IN /\ bucket' = [bucket EXCEPT ![k] = i]
        /\ \/ bucket[k] = i /\ UNCHANGED <<handler, writing>>
           \/ bucket[k] # i /\ handler' = "write" /\ writing' = Head(responses)
  /\ responses' = Tail(responses)
  /\ UNCHANGED <<ws, reader, req, ch, keys, stoped, watcher, config, asking, shownVars, messages>>

\* c.WriteJSON of the handler
WriteJSON ==
  /\ handler = "write"
  /\ shown' = [k \in Keys |-> IF k = writing[1] THEN writing[2] ELSE shown[k]]
  /\ lost' = lost \ {writing[1]}
  /\ handler' = "select" /\ writing' = NoReply
  /\ UNCHANGED <<ws, reader, req, ch, watchVars, panic, messages>>

\* The reader and the handler write at the same time. The library may notice it in the
\* handler, whose panic ends the process, or in the reader, whose panic net/http recovers
\* and which closes the websocket; or it ends the handler's message early.
WritesOverlap ==
  /\ handler = "write" /\ reader = "write"
  /\ \/ panic' = "write" /\ UNCHANGED <<ws, reader, handler, writing, lost>>
     \/ ws' = "failed" /\ reader' = "read" /\ UNCHANGED <<panic, handler, writing, lost>>
     \/ /\ lost' = lost \cup ({writing[1]} \cap Keys) /\ handler' = "select" /\ writing' = NoReply
        /\ UNCHANGED <<ws, reader, panic>>
  /\ UNCHANGED <<req, ch, watchVars, shown, messages>>

\* The channel is closed and empty: Stop.
Stop ==
  /\ handler = "select" /\ ws = "closed" /\ ch = 0
  /\ stoped' = TRUE
  /\ asking' = \E w \in Watchers : watcher[w].pc \in {"get", "send"}
  /\ handler' = "ended"
  /\ UNCHANGED <<ws, reader, req, ch, writing, keys, responses, watcher, bucket, config, shownVars,
                 messages>>

-----------------------------------------------------------------------------
Moves(w, state) ==
  /\ watcher' = [watcher EXCEPT ![w] = state]
  /\ UNCHANGED <<ws, reader, req, ch, handler, writing, keys, stoped, bucket, config, asking,
                 shown, lost, messages>>

\* Mutant: a watcher looks at its key only.
shouldStopByKey(w) == watcher[w].key \notin keys

shouldStop(w) == stoped \/ watcher[w].key \notin keys

\* watchKeybg
Checks(w) ==
  /\ watcher[w].pc = "check"
  /\ Moves(w, IF shouldStop(w) THEN NoWatcher ELSE [watcher[w] EXCEPT !.pc = "get"])
  /\ UNCHANGED <<responses, panic>>

\* GetConfig has a reply: the key has changed, or the time is over. The agent has no
\* key with an empty name.
GetConfig(w) ==
  /\ watcher[w].pc = "get" /\ watcher[w].key # NoKey
  /\ Moves(w, [watcher[w] EXCEPT !.pc = "send", !.index = config[watcher[w].key]])
  /\ UNCHANGED <<responses, panic>>

\* Mutant: the watcher gives up.
GetGivesUp(w) ==
  /\ watcher[w].pc = "get" /\ watcher[w].key # NoKey
  /\ Moves(w, NoWatcher)
  /\ UNCHANGED <<responses, panic>>

\* It has failed: the watcher tries again at once.
GetFails(w) ==
  /\ watcher[w].pc = "get"
  /\ Moves(w, [watcher[w] EXCEPT !.pc = "check"])
  /\ UNCHANGED <<responses, panic>>

\* The reply goes into responseC when it has room; when it is closed, the send panics.
Sends(w) ==
  /\ watcher[w].pc = "send"
  /\ \/ /\ stoped /\ panic' = "send" /\ responses' = responses
     \/ /\ ~stoped /\ Len(responses) < ReplySize
        /\ responses' = Append(responses, <<watcher[w].key, watcher[w].index>>)
        /\ UNCHANGED panic
  /\ Moves(w, [watcher[w] EXCEPT !.pc = "check"])

\* A value is changed by somebody else.
ConfigChanges(k) ==
  /\ config[k] < MaxIndex
  /\ config' = [config EXCEPT ![k] = @ + 1]
  /\ UNCHANGED <<ws, reader, req, ch, handler, writing, keys, stoped, responses, watcher, bucket,
                 asking, shownVars, messages>>

HandlerActs ==
  TakeRequest \/ ReadAction \/ PutConfig \/ WatchKey \/ UnwatchKey \/ WriteJSON \/ Stop

ReaderActs == SendRequest \/ WriteError

\* A step of the process, as long as there is one.
InProcess(A) == panic = "none" /\ A

ConfigNext ==
  InProcess(
     \/ \E message \in Message : ReadMessage(message)
     \/ ReaderActs \/ HandleClose \/ ReadFails \/ HandlerActs \/ TakeResponse \/ WritesOverlap
     \/ \E w \in Watchers : Checks(w) \/ GetConfig(w) \/ GetFails(w) \/ Sends(w)
     \/ \E k \in Keys : ConfigChanges(k))

ConfigSpec == ConfigInit /\ [][ConfigNext]_configVars

\* A goroutine that can go on does so; a request to the agent is answered or fails in
\* time, and does not fail for ever; a select takes each of its ready cases in turn.
ConfigFairness ==
  /\ WF_configVars(InProcess(HandlerActs))
  /\ WF_configVars(InProcess(ReaderActs))
  /\ SF_configVars(InProcess(TakeResponse))
  /\ \A w \in Watchers :
       /\ WF_configVars(InProcess(Checks(w)))
       /\ WF_configVars(InProcess(GetConfig(w) \/ GetFails(w)))
       /\ SF_configVars(InProcess(GetConfig(w)))
       /\ SF_configVars(InProcess(Sends(w)))

ConfigFairSpec == ConfigSpec /\ ConfigFairness

-----------------------------------------------------------------------------
\* Only a watcher that was asking the agent when Stop came can send on the closed
\* channel and end the process: none begins to ask afterwards, whether its key is
\* still watched or was watched again (watchKeybg, shouldStop, Stop).
PanicWasAsked == panic = "send" => asking

\* After a close frame the handler and every watcher end. The one way out is a watcher
\* that was asking the agent at the Stop: its reply may panic (shouldStop, Stop).
WatchersEnd ==
  ws = "closed" ~> \/ handler = "ended" /\ \A w \in Watchers : watcher[w].pc = "none"
                   \/ panic = "send" /\ asking

\* While a key stays watched, its last change reaches the client: whatever replies
\* fail, come twice or come out of order, a later one brings the index that holds
\* (watchKeybg, ConfigChanged). A reply that the reader's own write has spoilt is not
\* sent again.
ClientFollows ==
  \A k \in Keys :
    []<>(k \notin keys \/ ws # "open" \/ panic # "none" \/ k \in lost \/ shown[k] = config[k])

=============================================================================

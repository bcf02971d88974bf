--------------------------- MODULE GatewayProofs ---------------------------
(***************************************************************************)
(* Theorems about the gateway: its compose agent, its message queue, its   *)
(* registry of dynamic services and its configuration agent, for every set *)
(* of directories, files, topics, connections, names, requests, keys and   *)
(* watchers.                                                               *)
(***************************************************************************)
EXTENDS GatewayState, ConfigAgent, Compose, FiniteSetTheorems, WellFoundedInduction, TLAPS

-----------------------------------------------------------------------------
(* The compose agent *)

RequestType == [step : Steps, dir : Dirs \cup {Absent}, yaml : Files]

TruncateType ==
  [wait : Nat, downs : SUBSET TempDirs, results : Nat, removing : SUBSET TempDirs]

ComposeInv == ComposeTypeOK /\ TruncateServed

\* Writing to a directory, or to what runs in it, keeps the kinds of what is there.
LEMMA UpdateType ==
  ASSUME NEW S, NEW T, NEW f \in [S -> T], NEW x, NEW v, x \in S => v \in T
  PROVE  [f EXCEPT ![x] = v] \in [S -> T]
  OBVIOUS

\* What a request keeps of the file it was sent is a file (filterInvalidComposeSection).
LEMMA FilteredIsFile ==
  ASSUME NEW y \in Files
  PROVE  Filtered(y) \in Files
  BY DEF Filtered, Files

\* A request begins and goes on at one of its steps.
LEMMA RequestTypes ==
  ASSUME ComposeTypeOK, NEW r \in ComposeRequests, NEW step \in Steps
  PROVE  /\ Goes(r, step) => request' \in [ComposeRequests -> RequestType]
         /\ \A d \in Dirs \cup {Absent}, y \in Files :
              Begins(r, step, d, y) => request' \in [ComposeRequests -> RequestType]
<1>0. request \in [ComposeRequests -> RequestType]
  BY DEF ComposeTypeOK, RequestType
<1>1. [request[r] EXCEPT !.step = step] \in RequestType
  BY <1>0 DEF RequestType
<1>2. ASSUME Goes(r, step) PROVE request' \in [ComposeRequests -> RequestType]
  BY <1>0, <1>1, <1>2 DEF Goes
<1>3. ASSUME NEW d \in Dirs \cup {Absent}, NEW y \in Files, Begins(r, step, d, y)
      PROVE  request' \in [ComposeRequests -> RequestType]
  <2>1. [step |-> step, dir |-> d, yaml |-> y] \in RequestType
    BY DEF RequestType
  <2> QED BY <1>0, <1>3, <2>1 DEF Begins
<1> QED BY <1>2, <1>3

\* A docker-compose down, on any directory, leaves services or none.
LEMMA DownsType ==
  ASSUME ComposeTypeOK, NEW d, Downs(d)
  PROVE  running' \in [Dirs -> Files \cup {Nothing}]
  BY DEF ComposeTypeOK, Downs

\* The steps of the requests, other than a truncate, and of the goroutines of cleanUp.
LEMMA ComposeRequestStep ==
  ASSUME ComposeTypeOK, NEW r \in ComposeRequests,
         \/ \E d \in Dirs :
              \/ \E y \in Yamls : dockerComposeUp(r, d, y) \/ dockerComposeUpdate(r, d, y)
              \/ handleComposeCommand(r, d) \/ dockerComposeDown(r, d)
         \/ Mkdir(r) \/ OldDown(r) \/ WriteFile(r) \/ updateYaml(r) \/ ComposeUp(r) \/ RemoveAll(r)
         \/ ClientGone(r) \/ cleanUp(r) \/ CleanupDown(r) \/ CleanupRemove(r) \/ TruncateAnswers(r)
  PROVE  ComposeTypeOK' /\ truncate' = truncate
<1> DEFINE DirType == [Dirs -> Files \cup {Absent, Nothing}]
           RunningType == [Dirs -> Files \cup {Nothing}]
           CleanupType == [ComposeRequests -> {"none", "started", "down", "remove", "over"}]
<1>0. /\ dir \in DirType /\ running \in RunningType /\ cleanups \in CleanupType
      /\ request \in [ComposeRequests -> RequestType] /\ gone \subseteq ComposeRequests
  BY DEF ComposeTypeOK, RequestType
<1>f. {} \in Files /\ \A y \in Yamls : y \in Files /\ Filtered(y) \in Files
  BY FilteredIsFile DEF Files
<1>d. \A d \in Dirs \cup {Absent}, v \in Files \cup {Absent, Nothing} : [dir EXCEPT ![d] = v] \in DirType
  BY <1>0, UpdateType
<1>s. /\ {"mkdir", "olddown", "write", "update", "up", "remove", "over"} \subseteq Steps
      /\ request[r].yaml \in Files /\ request[r].dir \in Dirs \cup {Absent}
  BY <1>0 DEF Steps, RequestType
<1>q. SUFFICES /\ dir' \in DirType /\ running' \in RunningType /\ cleanups' \in CleanupType
               /\ request' \in [ComposeRequests -> RequestType] /\ gone' \subseteq ComposeRequests
               /\ truncate' = truncate
  BY DEF ComposeTypeOK, RequestType
<1> HIDE DEF DirType, RunningType, CleanupType
<1>1. ASSUME NEW d \in Dirs, NEW y \in Yamls, dockerComposeUp(r, d, y) \/ dockerComposeUpdate(r, d, y)
      PROVE  /\ dir' \in DirType /\ running' = running /\ cleanups' = cleanups /\ gone' = gone
             /\ truncate' = truncate /\ request' \in [ComposeRequests -> RequestType]
  <2>1. PICK step \in Steps, file \in Files : Begins(r, step, d, file)
    <3>1. (IF dir[d] = Absent THEN "mkdir" ELSE "olddown") \in Steps
      BY <1>s
    <3> QED BY <1>1, <1>f, <1>s, <3>1 DEF dockerComposeUp, dockerComposeUpdate
  <2>2. request' \in [ComposeRequests -> RequestType]
    BY <2>1, RequestTypes
  <2> QED BY <1>0, <1>1, <1>d, <2>2 DEF dockerComposeUp, dockerComposeUpdate
<1>2. ASSUME NEW d \in Dirs, handleComposeCommand(r, d) \/ dockerComposeDown(r, d)
      PROVE  /\ dir' = dir /\ running' \in RunningType /\ cleanups' = cleanups /\ gone' = gone
             /\ truncate' = truncate /\ request' \in [ComposeRequests -> RequestType]
  <2>1. PICK step \in Steps : Begins(r, step, d, {})
    BY <1>2, <1>s DEF handleComposeCommand, dockerComposeDown
  <2>2. request' \in [ComposeRequests -> RequestType]
    BY <1>f, <2>1, RequestTypes
  <2>3. HasFile(d) => dir[d] \in Files
    BY <1>0 DEF HasFile, DirType
  <2>4. running' = running \/ \E v \in Files \cup {Nothing} : running' = [running EXCEPT ![d] = v]
    BY <1>0, <1>2, <2>3 DEF handleComposeCommand, dockerComposeDown, RunningType
  <2>5. running' \in RunningType
    BY <1>0, <2>4, UpdateType DEF RunningType
  <2> QED BY <1>2, <2>2, <2>5 DEF handleComposeCommand, dockerComposeDown
<1>3. CASE Mkdir(r) \/ WriteFile(r) \/ updateYaml(r) \/ RemoveAll(r)
  <2>1. \E step \in Steps : Goes(r, step)
    BY <1>3, <1>s DEF Mkdir, WriteFile, updateYaml, RemoveAll
  <2>2. request' \in [ComposeRequests -> RequestType]
    BY <2>1, RequestTypes
  <2>3. dir' = dir \/ \E v \in Files \cup {Absent, Nothing} : dir' = [dir EXCEPT ![request[r].dir] = v]
    BY <1>3, <1>s, FilteredIsFile DEF Mkdir, WriteFile, updateYaml, RemoveAll
  <2>4. dir' \in DirType
    BY <1>0, <1>d, <1>s, <2>3
  <2>5. cleanups' \in CleanupType
    BY <1>0, <1>3 DEF Mkdir, WriteFile, updateYaml, RemoveAll, CleanupType
  <2> QED BY <1>0, <1>3, <2>2, <2>4, <2>5 DEF Mkdir, WriteFile, updateYaml, RemoveAll
<1>4. CASE ComposeUp(r) \/ OldDown(r)
  <2>1. \E step \in Steps : Goes(r, step)
    BY <1>4, <1>s DEF ComposeUp, OldDown
  <2>2. request' \in [ComposeRequests -> RequestType]
    BY <2>1, RequestTypes
  <2>3. HasFile(request[r].dir) /\ request[r].dir \in Dirs => dir[request[r].dir] \in Files
    BY <1>0 DEF HasFile, DirType
  <2>4. CASE OldDown(r)
    BY <1>0, <2>2, <2>4, DownsType DEF OldDown, RunningType
  <2>5. CASE ComposeUp(r)
    <3>1. running' \in RunningType
      BY <1>0, <2>3, <2>5, UpdateType DEF ComposeUp, RunningType
    <3> QED BY <1>0, <2>2, <2>5, <3>1 DEF ComposeUp
  <2> QED BY <1>4, <2>4, <2>5
<1>5. CASE cleanUp(r) \/ CleanupDown(r) \/ CleanupRemove(r)
  <2>1. cleanups' \in CleanupType
    BY <1>0, <1>5 DEF cleanUp, CleanupDown, CleanupRemove, CleanupGoes, CleanupType
  <2>2. running' \in RunningType
    BY <1>0, <1>5, DownsType DEF cleanUp, CleanupDown, CleanupRemove, RunningType
  <2>3. dir' \in DirType
    BY <1>0, <1>5, <1>d, <1>s DEF cleanUp, CleanupDown, CleanupRemove
  <2> QED BY <1>0, <1>5, <2>1, <2>2, <2>3 DEF cleanUp, CleanupDown, CleanupRemove
<1>6. CASE TruncateAnswers(r)
  BY <1>0, <1>6, <1>s, RequestTypes DEF TruncateAnswers
<1>7. CASE ClientGone(r)
  BY <1>0, <1>7 DEF ClientGone
<1> QED BY <1>0, <1>1, <1>2, <1>3, <1>4, <1>5, <1>6, <1>7

\* The steps of a truncate: what is waited for, what runs and what has been sent.
LEMMA TruncateStep ==
  ASSUME ComposeInv, NEW r \in ComposeRequests,
         \/ \E d \in Dirs : checkResult(r, d) \/ TruncateRemove(r, d)
         \/ DockerComposeTruncate(r) \/ TruncateReceives(r)
  PROVE  ComposeInv'
<1>0. /\ truncate \in [ComposeRequests -> TruncateType] /\ truncate[r] \in TruncateType
      /\ truncate[r].wait = Cardinality(truncate[r].downs) + truncate[r].results
  BY DEF ComposeInv, ComposeTypeOK, TruncateServed, TruncateType
<1>fin. \A S \in SUBSET TempDirs : IsFiniteSet(S) /\ Cardinality(S) \in Nat
  BY ComposeAssumption, FS_Subset, FS_CardinalityType
<1>1. ASSUME NEW new \in TruncateType, new.wait = Cardinality(new.downs) + new.results,
             truncate' = [truncate EXCEPT ![r] = new],
             dir' \in [Dirs -> Files \cup {Absent, Nothing}],
             running' \in [Dirs -> Files \cup {Nothing}],
             request' \in [ComposeRequests -> RequestType],
             UNCHANGED <<gone, cleanups>>
      PROVE  ComposeInv'
  <2>1. truncate' \in [ComposeRequests -> TruncateType]
    BY <1>0, <1>1
  <2>2. TruncateServed'
    <3> SUFFICES ASSUME NEW q \in ComposeRequests
                 PROVE  truncate'[q].wait = Cardinality(truncate'[q].downs) + truncate'[q].results
      BY DEF TruncateServed
    <3>1. CASE q = r
      BY <1>0, <1>1, <3>1
    <3>2. CASE q # r
      <4>1. truncate'[q] = truncate[q]
        BY <1>0, <1>1, <3>2
      <4> QED BY <4>1 DEF ComposeInv, TruncateServed
    <3> QED BY <3>1, <3>2
  <2> QED BY <1>1, <2>1, <2>2 DEF ComposeInv, ComposeTypeOK, RequestType, TruncateType
<1>t. /\ dir \in [Dirs -> Files \cup {Absent, Nothing}] /\ running \in [Dirs -> Files \cup {Nothing}]
      /\ request \in [ComposeRequests -> RequestType]
  BY DEF ComposeInv, ComposeTypeOK, RequestType
<1>2. ASSUME NEW d \in Dirs, checkResult(r, d) PROVE ComposeInv'
  <2>1. PICK done \in SUBSET {d} :
          /\ running' = [e \in Dirs |-> IF e \in done THEN Nothing ELSE running[e]]
          /\ truncate' = [truncate EXCEPT ![r] = [wait |-> truncate[r].wait,
                                                  downs |-> truncate[r].downs \ {d},
                                                  results |-> truncate[r].results + 1,
                                                  removing |-> truncate[r].removing \cup done]]
    BY <1>2 DEF checkResult
  <2> DEFINE new == [wait |-> truncate[r].wait, downs |-> truncate[r].downs \ {d},
                     results |-> truncate[r].results + 1,
                     removing |-> truncate[r].removing \cup done]
  <2>2. truncate' = [truncate EXCEPT ![r] = new]
    BY <2>1
  <2>3. d \in truncate[r].downs /\ d \in TempDirs /\ UNCHANGED <<dir, request, gone, cleanups>>
    BY <1>0, <1>2 DEF checkResult, TruncateType
  <2>4. /\ new \in TruncateType /\ new.wait = truncate[r].wait /\ new.results = truncate[r].results + 1
        /\ new.downs = truncate[r].downs \ {d}
    BY <1>0, <2>3 DEF TruncateType
  <2>5. Cardinality(new.downs) = Cardinality(truncate[r].downs) - 1
    BY <1>0, <1>fin, <2>3, <2>4, FS_RemoveElement DEF TruncateType
  <2> HIDE DEF new
  <2>6. new.wait = Cardinality(new.downs) + new.results
    BY <1>0, <1>fin, <2>4, <2>5 DEF TruncateType
  <2>7. running' \in [Dirs -> Files \cup {Nothing}]
    BY <1>t, <2>1
  <2> QED BY <1>1, <1>t, <2>2, <2>3, <2>4, <2>6, <2>7
<1>3. ASSUME NEW d \in Dirs, TruncateRemove(r, d) PROVE ComposeInv'
  <2> DEFINE new == [truncate[r] EXCEPT !.removing = @ \ {d}]
  <2>1. truncate' = [truncate EXCEPT ![r] = new]
    BY <1>3 DEF TruncateRemove
  <2>2. /\ new \in TruncateType /\ new.wait = truncate[r].wait
        /\ new.results = truncate[r].results /\ new.downs = truncate[r].downs
    BY <1>0 DEF TruncateType
  <2>3. dir' \in [Dirs -> Files \cup {Absent, Nothing}] /\ UNCHANGED <<running, request, gone, cleanups>>
    BY <1>3, <1>t DEF TruncateRemove
  <2> HIDE DEF new
  <2> QED BY <1>0, <1>1, <1>t, <2>1, <2>2, <2>3
<1>4. CASE DockerComposeTruncate(r)
  <2> DEFINE own == {d \in Dirs : dir[d] # Absent} \cap TempDirs
             new == [wait |-> Cardinality(own), downs |-> own, results |-> 0, removing |-> {}]
  <2>1. truncate' = [truncate EXCEPT ![r] = new] /\ UNCHANGED <<dir, running, gone, cleanups>>
    BY <1>4 DEF DockerComposeTruncate, dirCount
  <2>2. own \in SUBSET TempDirs
    OBVIOUS
  <2>3. request' \in [ComposeRequests -> RequestType]
    <3>1. {} \in Files /\ "truncate" \in Steps
      BY DEF Files, Steps
    <3> QED BY <1>4, <3>1, RequestTypes DEF DockerComposeTruncate, ComposeInv
  <2> HIDE DEF own
  <2>4. new \in TruncateType /\ new.wait = Cardinality(new.downs) + new.results
    BY <1>fin, <2>2 DEF TruncateType
  <2> HIDE DEF new
  <2> QED BY <1>1, <1>t, <2>1, <2>3, <2>4
<1>5. CASE TruncateReceives(r)
  <2> DEFINE new == [truncate[r] EXCEPT !.wait = truncate[r].wait - 1, !.results = truncate[r].results - 1]
  <2>1. truncate' = [truncate EXCEPT ![r] = new] /\ UNCHANGED <<dir, running, request, gone, cleanups>>
    BY <1>0, <1>5 DEF TruncateReceives
  <2>2. /\ new \in TruncateType /\ new.wait = truncate[r].wait - 1
        /\ new.results = truncate[r].results - 1 /\ new.downs = truncate[r].downs
    BY <1>0, <1>5 DEF TruncateType, TruncateReceives
  <2> HIDE DEF new
  <2>3. new.wait = Cardinality(new.downs) + new.results
    BY <1>0, <1>fin, <2>2 DEF TruncateType
  <2> QED BY <1>1, <1>t, <2>1, <2>2, <2>3
<1> QED BY <1>2, <1>3, <1>4, <1>5

\* Every step of the compose agent keeps ComposeInv.
LEMMA ComposeStep ==
  ASSUME ComposeInv, [ComposeNext]_composeVars
  PROVE  ComposeInv'
<1>1. CASE UNCHANGED composeVars
  BY <1>1 DEF composeVars, ComposeInv, ComposeTypeOK, TruncateServed
<1>2. ASSUME ComposeTypeOK', truncate' = truncate PROVE ComposeInv'
  BY <1>2 DEF ComposeInv, TruncateServed
<1> QED BY <1>1, <1>2, ComposeRequestStep, TruncateStep DEF ComposeNext, ComposeInv

\* A truncate is owed exactly the results it waits for, for any number of directories,
\* whatever requests, failures, goroutines of cleanUp and other truncates come together:
\* it is never left waiting (DockerComposeTruncate, checkResult).
THEOREM TruncateServedAlways == ComposeSpec => []TruncateServed
<1>1. ComposeInit => ComposeInv
  <2> SUFFICES ASSUME ComposeInit PROVE ComposeInv
    OBVIOUS
  <2>1. NewRequest \in RequestType /\ NoTruncate \in TruncateType
    BY DEF NewRequest, NoTruncate, RequestType, TruncateType, Steps, Files
  <2>2. dir \in [Dirs -> Files \cup {Absent, Nothing}]
    <3>1. \A yaml \in Yamls : Filtered(yaml) \in Files
      BY FilteredIsFile DEF Files
    <3> QED BY <3>1 DEF ComposeInit
  <2>3. running \in [Dirs -> Files \cup {Nothing}]
    BY <2>2 DEF ComposeInit, HasFile
  <2>4. ComposeTypeOK
    BY <2>1, <2>2, <2>3 DEF ComposeInit, ComposeTypeOK, RequestType, TruncateType
  <2>5. TruncateServed
    <3>1. \A r \in ComposeRequests : truncate[r] = NoTruncate
      BY DEF ComposeInit
    <3>2. NoTruncate.wait = Cardinality(NoTruncate.downs) + NoTruncate.results
      BY FS_EmptySet DEF NoTruncate
    <3> QED BY <3>1, <3>2 DEF TruncateServed
  <2> QED BY <2>4, <2>5 DEF ComposeInv
<1>2. ComposeInv => TruncateServed
  BY DEF ComposeInv
<1> QED BY <1>1, <1>2, ComposeStep, PTL DEF ComposeSpec

-----------------------------------------------------------------------------
(* The message queue *)

\* Nothing more is delivered to c, or it has topic t, or a sendTopic of its handler
\* that is still to write to it will bring it.
Coming(c, t) ==
  \/ broken[c] \/ t \in got[c] \/ <<owner[c], t>> \in toSend
  \/ sending[owner[c]].topic = t /\ c \in sending[owner[c]].left

HasStore(c) == ownStore[owner[c]] # NoStore

\* A handler has the store of its own start or none. One that has listed topics has
\* opened its store, so that no other one can be written to.
OwnStores ==
  /\ \A h \in Handlers : ownStore[h] \in {NoStore, h}
  /\ \A c \in Conns : conn[c] \notin {"none", "gone"} => owner[c] \in live
  /\ \A c \in Conns : conn[c] \in {"listed", "reading"} /\ HasStore(c) => holder = owner[c]

\* NotifyTopics lists the topics after it has registered its connection: what it has
\* still to write and what is coming are together all topics of the file.
Covered ==
  /\ \A c \in Conns : conn[c] \in {"added", "listed", "reading"} => c \in wsConns
  /\ \A c \in Conns : writer[c] = "handler" => conn[c] = "listed"
  /\ \A c \in Conns, t \in topics : HasStore(c) =>
       /\ conn[c] = "listed" => t \in todo[c] \/ Coming(c, t)
       /\ conn[c] = "reading" => Coming(c, t)

\* The next start is after those of all handlers, and without a directory no store
\* has been made.
StartsInOrder ==
  /\ starts \in Nat /\ live \subseteq 1..starts
  /\ ~workingDir => defaultStore = NoStore

QueueInv == MQTypeOK /\ OwnStores /\ Covered

TopicsInv == QueueInv /\ StartsInOrder

\* A delivery adds its topic and takes none away.
LEMMA DeliveredGrows ==
  ASSUME MQTypeOK, NEW c \in Conns, NEW m
  PROVE  /\ Delivered(c, m) \in [Conns -> SUBSET Topics]
         /\ \A e \in Conns : got[e] \subseteq Delivered(c, m)[e]
         /\ ~broken[c] /\ m \in Topics => m \in Delivered(c, m)[c]
  BY DEF MQTypeOK, Delivered

\* The handlers and the senders keep every topic covered.
LEMMA QueueStep ==
  ASSUME QueueInv, MQNext
  PROVE  QueueInv'
<1> USE DEF QueueInv, MQTypeOK, OwnStores, HasStore, storeVars
<1>0. ASSUME NEW c \in Conns, conn[c] \notin {"none", "gone"} PROVE owner[c] \in Handlers
  BY <1>0
<1>1. ASSUME NEW h \in Handlers, NEW t \in Topics, GrantTopic(h, t)
      PROVE  QueueInv'
  <2>1. MQTypeOK'
    BY <1>1 DEF GrantTopic, db, Usable
  <2>2. OwnStores'
    BY <1>1 DEF GrantTopic, db, Usable
  <2>3. ASSUME NEW c \in Conns, NEW u \in topics', HasStore(c), conn[c] \in {"listed", "reading"},
               u \notin topics
        PROVE  u = t /\ owner[c] = h
    BY <1>0, <1>1, <2>3 DEF GrantTopic, Usable, NoStore
  <2>4. \A c \in Conns, u \in Topics : Coming(c, u) => Coming(c, u)'
    BY <1>1 DEF GrantTopic, Coming
  <2>5. \A c \in Conns : owner[c] = h => Coming(c, t)'
    BY <1>1 DEF GrantTopic, Coming
  <2>6. UNCHANGED <<ownStore, wsConns, conn, owner, todo, writer>> /\ topics' \subseteq Topics
    BY <1>1 DEF GrantTopic
  <2> HIDE DEF Coming
  <2>7. Covered'
    BY <2>3, <2>4, <2>5, <2>6 DEF Covered
  <2> QED BY <2>1, <2>2, <2>7
<1>2. ASSUME NEW h \in Handlers, NEW t \in Topics, sendTopic(h, t)
      PROVE  QueueInv'
  <2>1. /\ sending' \in [Handlers -> [topic : Topics \cup {NoTopic}, left : SUBSET Conns]]
        /\ sending'[h].topic = t /\ sending'[h].left = {c \in wsConns : owner[c] = h}
        /\ \A k \in Handlers : k # h => sending'[k] = sending[k]
        /\ sending[h].left = {} /\ toSend' = toSend \ {<<h, t>>}
        /\ UNCHANGED <<storeVars, topics, owner, wsConns, conn, todo, writer, broken, got>>
    BY <1>2 DEF sendTopic, NotSending, Registered
  <2>2. MQTypeOK' /\ OwnStores'
    BY <2>1
  <2>3. ASSUME NEW c \in Conns, c \in wsConns, owner[c] \in Handlers, NEW u \in Topics,
               Coming(c, u)
        PROVE  Coming(c, u)'
    BY <2>1, <2>3 DEF Coming
  <2>4. \A c \in Conns, u \in Topics :
          conn[c] \in {"listed", "reading"} /\ Coming(c, u) => Coming(c, u)'
    BY <1>0, <2>3 DEF Covered
  <2> HIDE DEF Coming
  <2>5. Covered'
    BY <2>1, <2>4 DEF Covered
  <2> QED BY <2>2, <2>5
<1>3. ASSUME NEW h \in Handlers, NEW c \in Conns, Upgrade(c, h)
      PROVE  QueueInv'
  <2>1. MQTypeOK' /\ OwnStores'
    BY <1>3 DEF Upgrade
  <2>2. Covered'
    BY <1>3 DEF Upgrade, Covered, Coming
  <2> QED BY <2>1, <2>2
<1>4. ASSUME NEW c \in Conns, addWsConn(c)
      PROVE  QueueInv'
  BY <1>4 DEF addWsConn, Covered, Coming
<1>5. ASSUME NEW c \in Conns, ListTopics(c)
      PROVE  QueueInv'
  <2>1. MQTypeOK'
    BY <1>5 DEF ListTopics, db, Usable
  <2>2. OwnStores'
    BY <1>0, <1>5 DEF ListTopics, db, Usable
  <2>3. Covered'
    BY <1>0, <1>5 DEF ListTopics, Usable, Covered, Coming
  <2> QED BY <2>1, <2>2, <2>3
<1>6. ASSUME NEW c \in Conns, WriteToken(c)
      PROVE  QueueInv'
  <2>1. MQTypeOK' /\ OwnStores'
    BY <1>6 DEF WriteToken
  <2>2. Covered'
    BY <1>6 DEF WriteToken, Covered, Coming
  <2> QED BY <2>1, <2>2
<1>7. ASSUME NEW h \in Handlers, NEW c \in Conns, SendJSON(h, c) \/ Sent(h, c)
      PROVE  QueueInv'
  <2>1. /\ writer' \in [Conns -> {"handler", "sender", "no"}]
        /\ \A e \in Conns : writer'[e] = "handler" => writer[e] = "handler"
        /\ UNCHANGED <<storeVars, topics, toSend, owner, wsConns, conn, todo, broken>>
    BY <1>7 DEF SendJSON, Sent
  <2>2. /\ sending' \in [Handlers -> [topic : Topics \cup {NoTopic}, left : SUBSET Conns]]
        /\ \A k \in Handlers : sending'[k].topic = sending[k].topic
        /\ \A k \in Handlers, e \in Conns :
             e \in sending[k].left => e \in sending'[k].left \/ (k = h /\ e = c)
        /\ Sent(h, c) \/ conn[c] = "gone" \/ sending' = sending
    <3>1. CASE sending' = [sending EXCEPT ![h].left = @ \ {c}] /\ (Sent(h, c) \/ conn[c] = "gone")
      BY <3>1
    <3>2. CASE sending' = sending
      BY <3>2
    <3> QED BY <1>7, <3>1, <3>2 DEF SendJSON, Sent
  <2>3. /\ got' \in [Conns -> SUBSET Topics] /\ \A e \in Conns : got[e] \subseteq got'[e]
        /\ Sent(h, c) /\ ~broken[c] /\ sending[h].topic \in Topics => sending[h].topic \in got'[c]
    BY <1>7, DeliveredGrows DEF SendJSON, Sent
  <2>4. ASSUME NEW e \in Conns, conn[e] \in {"listed", "reading"}, NEW u \in Topics, Coming(e, u)
        PROVE  Coming(e, u)'
    BY <1>0, <2>1, <2>2, <2>3, <2>4 DEF Coming
  <2>5. MQTypeOK' /\ OwnStores'
    BY <2>1, <2>2, <2>3
  <2> HIDE DEF Coming
  <2>6. Covered'
    BY <2>1, <2>4 DEF Covered
  <2> QED BY <2>5, <2>6
<1>8. ASSUME NEW c \in Conns, Close(c)
      PROVE  QueueInv'
  BY <1>8 DEF Close, Covered, Coming
<1>9. ASSUME NEW c \in Conns, Fail(c)
      PROVE  QueueInv'
  BY <1>9 DEF Fail, Covered, Coming
<1>10. ASSUME NEW c \in Conns, ReadPanics(c)
      PROVE  QueueInv'
  BY <1>10 DEF ReadPanics, Covered, Coming
<1>11. ASSUME NEW c \in Conns, NEW m \in Topics \cup {TopicList}, Written(c, m)
      PROVE  QueueInv'
  <2>1. /\ got' \in [Conns -> SUBSET Topics] /\ \A e \in Conns : got[e] \subseteq got'[e]
        /\ ~broken[c] /\ m \in Topics => m \in got'[c]
    BY <1>11, DeliveredGrows DEF Written
  <2>2. MQTypeOK' /\ OwnStores'
    BY <1>11, <2>1 DEF Written, Covered
  <2>3. Covered'
    BY <1>11, <2>1 DEF Written, Covered, Coming
  <2> QED BY <2>2, <2>3
<1>12. ASSUME NEW h \in Handlers, SentAll(h)
      PROVE  QueueInv'
  <2>1. MQTypeOK' /\ OwnStores'
    BY <1>12 DEF SentAll, NotSending
  <2>2. \A c \in Conns, t \in Topics :
          owner[c] \in Handlers /\ Coming(c, t) => Coming(c, t)'
    BY <1>12 DEF SentAll, NotSending, Coming
  <2>3. UNCHANGED <<storeVars, topics, owner, wsConns, conn, todo, writer>>
    BY <1>12 DEF SentAll
  <2> HIDE DEF Coming
  <2>4. Covered'
    BY <1>0, <2>2, <2>3 DEF Covered
  <2> QED BY <2>1, <2>4
<1>13. ASSUME NEW h \in Handlers, ReadStore(h)
      PROVE  QueueInv'
  <2>1. MQTypeOK' /\ OwnStores'
    BY <1>13 DEF ReadStore, db, Usable
  <2>2. Covered'
    BY <1>13 DEF ReadStore, Covered, Coming
  <2> QED BY <2>1, <2>2
<1> HIDE DEF QueueInv, MQTypeOK, OwnStores, HasStore, storeVars
<1> QED BY <1>1, <1>2, <1>3, <1>4, <1>5, <1>6, <1>7, <1>8, <1>9, <1>10, <1>11, <1>12, <1>13 DEF MQNext

\* When the process ends every connection ends with it.
LEMMA QueueReset ==
  ASSUME QueueInv, MQReset, topics' \subseteq Topics
  PROVE  QueueInv'
  BY DEF QueueInv, MQTypeOK, OwnStores, MQReset, Covered, NotSending

\* A new handler has no connections yet, and those of the others keep their store.
LEMMA QueueStart ==
  ASSUME QueueInv, NEW h \in Handlers, h \notin live, NEW s \in {NoStore, h}, MQStart(h, s),
         holder' = holder \/ (holder' = s /\ Usable(s))
  PROVE  QueueInv'
<1> USE DEF QueueInv, MQTypeOK, OwnStores, HasStore, MQStart
<1>1. \A c \in Conns : conn[c] \in {"listed", "reading"} =>
        owner[c] \in Handlers /\ owner[c] # h /\ ownStore'[owner[c]] = ownStore[owner[c]]
  OBVIOUS
<1>2. MQTypeOK'
  OBVIOUS
<1>3. OwnStores'
  BY <1>1 DEF Usable
<1>4. Covered'
  BY <1>1 DEF Covered, Coming
<1> QED BY <1>2, <1>3, <1>4

\* What the queue keeps does not depend on the rest of the gateway.
LEMMA QueueKept ==
  ASSUME QueueInv, UNCHANGED mqVars
  PROVE  QueueInv'
  BY DEF QueueInv, MQTypeOK, OwnStores, HasStore, Covered, Coming, mqVars, storeVars

\* The use of a store by a handler for databases opens it, as that of a topic does.
LEMMA QueueOpened ==
  ASSUME QueueInv, NEW h \in live, db(ownStore[h]),
         UNCHANGED <<live, ownStore, topics, toSend, sending, owner, wsConns, conn, todo, writer,
                     broken, got>>
  PROVE  QueueInv'
<1> USE DEF QueueInv, MQTypeOK
<1>1. MQTypeOK'
  BY DEF db, Usable
<1>2. OwnStores'
  BY DEF OwnStores, HasStore, db, Usable
<1>3. Covered'
  BY DEF Covered, Coming, HasStore
<1> QED BY <1>1, <1>2, <1>3

\* Every step of the gateway keeps TopicsInv.
LEMMA TopicsStep ==
  ASSUME TopicsInv, [Next]_vars
  PROVE  TopicsInv'
<1> USE DEF TopicsInv
<1>t. topics \subseteq Topics /\ starts \in Nat
  BY DEF QueueInv, MQTypeOK, StartsInOrder
<1>1. CASE ServeGateway
  <2> DEFINE h == starts + 1
             s == IF workingDir THEN h ELSE defaultStore
  <2>1. /\ starts < MaxStarts /\ starts' = h /\ MQStart(h, s) /\ workingDir' = TRUE
        /\ holder' = holder \/ (holder' = s /\ Usable(s))
    BY <1>1 DEF ServeGateway, Setup
  <2>2. h \in Handlers /\ h \notin live
    BY <1>t, <2>1, GatewayAssumption DEF Handlers, StartsInOrder
  <2>3. s \in {NoStore, h}
    BY DEF StartsInOrder
  <2> HIDE DEF s
  <2>4. QueueInv'
    BY <2>1, <2>2, <2>3, QueueStart
  <2>5. live' = live \cup {h}
    BY <2>1 DEF MQStart
  <2>6. StartsInOrder'
    BY <1>t, <2>1, <2>5 DEF StartsInOrder
  <2> QED BY <2>4, <2>6
<1>2. CASE RouterPanics \/ Kill \/ SenderPanics \/ Corrupted
  <2>1. /\ MQReset /\ topics' \in {topics, {}} /\ defaultStore' = NoStore
        /\ starts' \in {starts, starts + 1}
    BY <1>2 DEF RouterPanics, Kill, SenderPanics, Corrupted, Ends, Exit
  <2>2. QueueInv'
    BY <1>t, <2>1, QueueReset
  <2> QED BY <1>t, <2>1, <2>2 DEF StartsInOrder, MQReset
<1>3. CASE focus = "mq" /\ MQNext /\ UNCHANGED <<dynamicVars, gatewayVars>>
  <2>1. QueueInv'
    BY <1>3, QueueStep
  <2>2. live' = live
    BY <1>3 DEF MQNext, ReadStore, GrantTopic, sendTopic, Upgrade, addWsConn, ListTopics, WriteToken,
                SendJSON, Sent, Close, Fail, ReadPanics, Written, SentAll, storeVars
  <2> QED BY <1>3, <2>1, <2>2 DEF StartsInOrder, gatewayVars
<1>4. CASE up /\ focus = "dynamic" /\ DynamicNext /\ UNCHANGED <<mqVars, gatewayVars>>
  BY <1>4, QueueKept DEF mqVars, storeVars, gatewayVars, StartsInOrder
<1>5. CASE /\ focus = "tsdb" /\ TSDBNext
           /\ UNCHANGED <<dynamicVars, focus, workingDir, defaultStore, starts>>
  <2>1. \E h \in live : db(ownStore[h])
    BY <1>5 DEF TSDBNext, AddDatabase, RemoveDatabase, ReadStore
  <2>2. UNCHANGED <<live, ownStore, topics, toSend, sending, owner, wsConns, conn, todo, writer,
                    broken, got>>
    BY <1>5 DEF TSDBNext, ReadStore
  <2>3. QueueInv'
    BY <2>1, <2>2, QueueOpened
  <2> QED BY <1>5, <2>2, <2>3 DEF StartsInOrder
<1>6. CASE UNCHANGED vars
  BY <1>6, QueueKept DEF vars, mqVars, storeVars, gatewayVars, StartsInOrder
<1> QED BY <1>1, <1>2, <1>3, <1>4, <1>5, <1>6 DEF Next

LEMMA TopicsInit == Init => TopicsInv
  BY DEF Init, MQInit, NotSending, TopicsInv, QueueInv, MQTypeOK, OwnStores, HasStore, Covered,
         StartsInOrder

\* A connection that has been sent the list of topics misses none of the file, if its
\* handler has a store: whatever topics are granted while it is registered and the
\* list is written, through its own handler or those of other starts of the gateway
\* in the same process, whatever connections fail and wherever the process ends
\* (NotifyTopics, GrantTopic, sendTopic, ServeGateway).
THEOREM NoTopicMissedAlways == Spec => []NoTopicMissed
<1>1. TopicsInv => NoTopicMissed
  BY DEF TopicsInv, QueueInv, Covered, Coming, HasStore, NoTopicMissed
<1> QED BY <1>1, TopicsInit, TopicsStep, PTL DEF Spec

-----------------------------------------------------------------------------
(* The registry of dynamic services: its lists *)

Entry == Service \cup Requests

\* A service is not a request, so that it is its own record.
LEMMA ServiceIsItself ==
  ASSUME NEW s \in Service
  PROVE  At(s) = s /\ s[1] \in Names /\ s[2] \in HostPorts
  BY NamesAssumption DEF At, Service

\* Two entries of a list that are exchanged are its only change.
LEMMA SwappedList ==
  ASSUME NEW T, NEW list \in Seq(T), NEW i \in DOMAIN list, NEW j \in DOMAIN list
  PROVE  /\ Swapped(list, i, j) \in Seq(T)
         /\ Len(Swapped(list, i, j)) = Len(list)
         /\ DOMAIN Swapped(list, i, j) = DOMAIN list
         /\ \A k \in DOMAIN list : Swapped(list, i, j)[k] =
              IF k = j THEN list[i] ELSE IF k = i THEN list[j] ELSE list[k]
  BY DEF Swapped

\* A set of natural numbers has a least one.
LEMMA LeastOf ==
  ASSUME NEW S \in SUBSET Nat, S # {}
  PROVE  \E x \in S : \A y \in S : x <= y
<1> DEFINE R == {ss \in Nat \X Nat : ss[1] < ss[2]}
<1>1. IsWellFoundedOn(R, Nat)
  BY NatLessThanWellFounded DEF OpToRel
<1>2. \A x, y \in Nat : <<y, x>> \in R <=> y < x
  OBVIOUS
<1> HIDE DEF R
<1>3. PICK x \in S : \A y \in S : ~(<<y, x>> \in R)
  BY <1>1, WFMin
<1>4. ASSUME NEW y \in S PROVE x <= y
  <2>1. x \in Nat /\ y \in Nat
    OBVIOUS
  <2>2. ~(y < x)
    BY <1>2, <1>3, <2>1
  <2> QED BY <2>1, <2>2
<1> QED BY <1>4

\* Add keeps the entries of the list; the one it puts first is the new one, or one
\* that has the host already (Add).
LEMMA AddedList ==
  ASSUME NEW T, NEW list \in Seq(T), NEW e \in T, NEW host,
         NEW new, new = Added(list, e, host)
  PROVE  /\ new \in Seq(T)
         /\ \A i \in DOMAIN new : new[i] = e \/ \E j \in DOMAIN list : new[i] = list[j]
         /\ \A j \in DOMAIN list : \E i \in DOMAIN new : new[i] = list[j]
         /\ \/ \E i \in DOMAIN new : new[i] = e
            \/ \E j \in DOMAIN list : At(list[j])[2] = host
<1> DEFINE at == {i \in DOMAIN list : At(list[i])[2] = host}
           longer == Append(list, e)
           first == CHOOSE i \in at : \A j \in at : i <= j
<1>1. CASE at # {}
  <2>1. at \in SUBSET Nat
    OBVIOUS
  <2>2. \E i \in at : \A j \in at : i <= j
    BY <1>1, <2>1, LeastOf
  <2>3. first \in at
    BY <2>2
  <2>4. Added(list, e, host) = Swapped(list, 1, first)
    BY <1>1 DEF Added
  <2> HIDE DEF first
  <2>5. first \in DOMAIN list /\ 1 \in DOMAIN list /\ At(list[first])[2] = host
    BY <2>3
  <2> HIDE DEF at
  <2>6. /\ Swapped(list, 1, first) \in Seq(T)
        /\ DOMAIN Swapped(list, 1, first) = DOMAIN list
        /\ \A k \in DOMAIN list : Swapped(list, 1, first)[k] =
              IF k = first THEN list[1] ELSE IF k = 1 THEN list[first] ELSE list[k]
    BY <2>5, SwappedList
  <2> DEFINE made == Swapped(list, 1, first)
  <2> HIDE DEF made
  <2>7. \A j \in DOMAIN list : \E i \in DOMAIN list : made[i] = list[j]
    <3> TAKE j \in DOMAIN list
    <3>1. CASE j = 1 BY <2>5, <2>6, <3>1 DEF made
    <3>2. CASE j # 1 /\ j = first BY <2>5, <2>6, <3>2 DEF made
    <3>3. CASE j # 1 /\ j # first BY <2>5, <2>6, <3>3 DEF made
    <3> QED BY <3>1, <3>2, <3>3
  <2>8. \A i \in DOMAIN list : \E j \in DOMAIN list : made[i] = list[j]
    BY <2>5, <2>6 DEF made
  <2>9. new = made /\ DOMAIN made = DOMAIN list /\ made \in Seq(T)
    BY <2>4, <2>6 DEF made
  <2> QED BY <2>5, <2>7, <2>8, <2>9
<1>2. CASE at = {}
  <2> DEFINE n == Len(longer)
             made == Swapped(longer, 1, n)
  <2>1. /\ longer \in Seq(T) /\ n = Len(list) + 1 /\ n \in DOMAIN longer /\ 1 \in DOMAIN longer
        /\ DOMAIN longer = 1 .. n /\ DOMAIN list = 1 .. n - 1 /\ n \in Nat \ {0}
        /\ longer[n] = e /\ \A j \in DOMAIN list : longer[j] = list[j]
    OBVIOUS
  <2>2. new = made
    BY <1>2 DEF Added
  <2> HIDE DEF longer, n, made
  <2>3. /\ made \in Seq(T) /\ DOMAIN made = DOMAIN longer
        /\ \A k \in DOMAIN longer :
              made[k] = IF k = n THEN longer[1] ELSE IF k = 1 THEN longer[n] ELSE longer[k]
    <3>1. longer \in Seq(T) /\ 1 \in DOMAIN longer /\ n \in DOMAIN longer
      BY <2>1
    <3> QED BY <3>1, SwappedList DEF made
  <2>4. \A j \in DOMAIN longer : longer[j] = e \/ \E m \in DOMAIN list : longer[j] = list[m]
    BY <2>1
  <2>5. \A i \in DOMAIN made : made[i] = e \/ \E j \in DOMAIN list : made[i] = list[j]
    BY <2>1, <2>3, <2>4
  <2>6. \A j \in DOMAIN longer : \E i \in DOMAIN made : made[i] = longer[j]
    <3> TAKE j \in DOMAIN longer
    <3>1. CASE j = n BY <2>1, <2>3, <3>1
    <3>2. CASE j # n /\ j = 1 BY <2>1, <2>3, <3>2
    <3>3. CASE j # n /\ j # 1 BY <2>1, <2>3, <3>3
    <3> QED BY <3>1, <3>2, <3>3
  <2>7. /\ \A j \in DOMAIN list : \E i \in DOMAIN made : made[i] = list[j]
        /\ \E i \in DOMAIN made : made[i] = e
    BY <2>1, <2>6
  <2> QED BY <2>2, <2>3, <2>5, <2>7
<1> QED BY <1>1, <1>2

-----------------------------------------------------------------------------
(* The registry of dynamic services: what Recovery makes of a store *)

StoreKeys == Names \X (0 .. MaxServices - 1)

\* A store of keys of the registry with services as their values.
IsStore(store) == DOMAIN store \subseteq StoreKeys /\ store \in [DOMAIN store -> Service]

\* Lists as Recovery makes them: no entry has another name than its list.
NamedLists ==
  {lists \in [Names -> Seq(Service)] : \A n \in Names : \A i \in DOMAIN lists[n] : lists[n][i][1] = n}

In(s, list) == \E i \in DOMAIN list : list[i] = s

\* A visited key leaves its value in the lists and takes none out of them.
LEMMA VisitList ==
  ASSUME NEW store, IsStore(store), NEW k, NEW lists \in NamedLists
  PROVE  /\ Visit(store, k, lists) \in NamedLists
         /\ \A n \in Names : \A s : In(s, lists[n]) => In(s, Visit(store, k, lists)[n])
         /\ k \in DOMAIN store => In(store[k], Visit(store, k, lists)[store[k][1]])
<1>1. CASE k \notin DOMAIN store
  BY <1>1 DEF Visit
<1>2. CASE k \in DOMAIN store
  <2> DEFINE v == store[k]
             m == v[1]
             list == lists[m]
             new == Added(list, v, v[2])
  <2>1. v \in Service /\ At(v) = v /\ m \in Names
    BY <1>2, ServiceIsItself DEF IsStore
  <2>2. list \in Seq(Service) /\ \A i \in DOMAIN list : list[i] \in Service /\ list[i][1] = m
    BY <2>1 DEF NamedLists
  <2>3. Visit(store, k, lists) = [lists EXCEPT ![m] = new]
    BY <1>2 DEF Visit
  <2>4. DOMAIN lists = Names /\ lists \in [Names -> Seq(Service)]
    BY DEF NamedLists
  <2>4a. \A n \in Names : \A i \in DOMAIN lists[n] : lists[n][i][1] = n
    BY DEF NamedLists
  <2> HIDE DEF v, m, list, new
  <2>5. /\ new \in Seq(Service)
        /\ \A i \in DOMAIN new : new[i] = v \/ \E j \in DOMAIN list : new[i] = list[j]
        /\ \A j \in DOMAIN list : \E i \in DOMAIN new : new[i] = list[j]
        /\ \/ \E i \in DOMAIN new : new[i] = v
           \/ \E j \in DOMAIN list : At(list[j])[2] = v[2]
    BY <2>1, <2>2, AddedList DEF new
  <2>6. \A i \in DOMAIN new : new[i][1] = m
    BY <2>2, <2>5 DEF m
  <2>7. In(v, new)
    <3>1. ASSUME NEW j \in DOMAIN list, At(list[j])[2] = v[2] PROVE list[j] = v
      <4>1. list[j] \in Service /\ list[j][1] = v[1] /\ At(list[j]) = list[j]
        BY <2>2, ServiceIsItself DEF m
      <4> QED BY <2>1, <3>1, <4>1 DEF Service
    <3> QED BY <2>5, <3>1 DEF In
  <2>8. \A s : In(s, list) => In(s, new)
    BY <2>5 DEF In
  <2>9. Visit(store, k, lists)[m] = new /\ Visit(store, k, lists) \in [Names -> Seq(Service)]
    BY <2>1, <2>3, <2>4, <2>5
  <2>10. \A n \in Names : n # m => Visit(store, k, lists)[n] = lists[n]
    BY <2>1, <2>3, <2>4
  <2>11. \A n \in Names : \A s : In(s, lists[n]) => In(s, Visit(store, k, lists)[n])
    BY <2>8, <2>9, <2>10 DEF list
  <2>12. \A n \in Names : \A i \in DOMAIN Visit(store, k, lists)[n] :
           Visit(store, k, lists)[n][i][1] = n
    BY <2>4a, <2>6, <2>9, <2>10
  <2>13. Visit(store, k, lists) \in NamedLists
    BY <2>9, <2>12 DEF NamedLists
  <2>14. In(store[k], Visit(store, k, lists)[store[k][1]])
    BY <2>7, <2>9 DEF m, v
  <2> QED BY <2>11, <2>13, <2>14
<1> QED BY <1>1, <1>2

NoLists == [n \in Names |-> <<>>]

LEMMA NoListsNamed == NoLists \in NamedLists
<1>1. NoLists \in [Names -> Seq(Service)]
  BY DEF NoLists
<1>2. \A n \in Names : DOMAIN NoLists[n] = {}
  BY DEF NoLists
<1> QED BY <1>1, <1>2 DEF NamedLists

\* The function that Recovered defines by recursion exists, up to every place: a
\* least place up to which it does not would be one more than a place up to which
\* it does.
LEMMA WalkExists ==
  ASSUME NEW store, NEW N \in Nat
  PROVE  \E f : f = [p \in 0 .. N |->
                       IF p = 0 THEN NoLists ELSE Visit(store, KeyAt(p - 1), f[p - 1])]
<1> DEFINE V(p, l) == Visit(store, KeyAt(p - 1), l)
           Is(f, n) == f = [p \in 0 .. n |-> IF p = 0 THEN NoLists ELSE V(p, f[p - 1])]
           S == {n \in Nat : ~\E f : Is(f, n)}
<1> HIDE DEF V
<1> SUFFICES S = {}
  <2>1. \E f : Is(f, N)
    BY DEF S
  <2> QED BY <2>1 DEF V
<1> SUFFICES ASSUME S # {} PROVE FALSE
  OBVIOUS
<1>1. S \in SUBSET Nat
  OBVIOUS
<1>2. PICK n \in S : \A y \in S : n <= y
  <2> HIDE DEF S
  <2> QED BY <1>1, LeastOf
<1>3. n \in Nat /\ ~\E f : Is(f, n)
  BY <1>2
<1>4. CASE n = 0
  <2> DEFINE f == [p \in 0 .. 0 |-> NoLists]
  <2>1. Is(f, 0)
    OBVIOUS
  <2> QED BY <1>3, <1>4, <2>1
<1>5. CASE n # 0
  <2>1. n - 1 \in Nat /\ ~(n <= n - 1)
    BY <1>3, <1>5
  <2>2. n - 1 \notin S
    <3> HIDE DEF S
    <3> QED BY <1>2, <2>1
  <2>3. PICK f : Is(f, n - 1)
    BY <2>1, <2>2
  <2>4. \A p \in 0 .. n - 1 : f[p] = IF p = 0 THEN NoLists ELSE V(p, f[p - 1])
    BY <2>3
  <2> DEFINE g == [p \in 0 .. n |-> IF p = n THEN V(n, f[n - 1]) ELSE f[p]]
  <2>5. \A p \in 0 .. n : g[p] = IF p = 0 THEN NoLists ELSE V(p, g[p - 1])
    <3> TAKE p \in 0 .. n
    <3>1. CASE p = n
      <4>1. n - 1 \in 0 .. n /\ n - 1 # n /\ n # 0 /\ n \in 0 .. n
        BY <1>3, <1>5
      <4>2. g[n] = V(n, f[n - 1]) /\ g[n - 1] = f[n - 1]
        BY <4>1
      <4> QED BY <3>1, <4>1, <4>2
    <3>2. CASE p # n
      <4>1. p \in 0 .. n - 1 /\ g[p] = f[p]
        BY <1>3, <3>2
      <4>2. p # 0 => g[p - 1] = f[p - 1]
        BY <1>3, <3>2
      <4> QED BY <2>4, <4>1, <4>2
    <3> QED BY <3>1, <3>2
  <2>6. g = [p \in 0 .. n |-> IF p = 0 THEN NoLists ELSE V(p, g[p - 1])]
    <3>1. DOMAIN g = 0 .. n /\ g = [p \in 0 .. n |-> g[p]]
      OBVIOUS
    <3> HIDE DEF g
    <3> QED BY <2>5, <3>1
  <2> HIDE DEF g
  <2> QED BY <1>3, <2>6
<1> QED BY <1>4, <1>5

\* Every key of the registry has a place in the order of the keys.
LEMMA KeyHasPlace ==
  ASSUME NEW k \in StoreKeys
  PROVE  AllKeys \in Nat /\ \E q \in 0 .. AllKeys - 1 : KeyAt(q) = k
<1>1. NameOrder \in Seq(Names) /\ Len(NameOrder) \in Nat /\ DOMAIN NameOrder = 1 .. Len(NameOrder)
  BY NamesAssumption
<1>2. PICK n \in Names, i \in 0 .. 9 : k = <<n, i>>
  BY DEF StoreKeys, MaxServices
<1>3. PICK j \in DOMAIN NameOrder : NameOrder[j] = n
  BY <1>2 DEF Names, ToSet
<1> DEFINE len == Len(NameOrder)
           q == (j - 1) * 10 + i
<1>4. AllKeys = len * 10
  BY DEF AllKeys, MaxServices
<1>5. len \in Nat /\ j \in 1 .. len /\ i \in 0 .. 9
  BY <1>1, <1>2, <1>3
<1> HIDE DEF len
<1>6. AllKeys \in Nat /\ q \in 0 .. AllKeys - 1
  BY <1>4, <1>5
<1>7. q \div 10 + 1 = j /\ q % 10 = i
  BY <1>5
<1> HIDE DEF q
<1>8. KeyAt(q) = k
  BY <1>2, <1>3, <1>7 DEF KeyAt, MaxServices
<1> QED BY <1>6, <1>8

\* Recovery makes lists of services, each under its own name, and loses no value of
\* the store (Recovery, Add).
LEMMA RecoveredLists ==
  ASSUME NEW store, IsStore(store)
  PROVE  /\ Recovered(store) \in NamedLists
         /\ \A k \in DOMAIN store : In(store[k], Recovered(store)[store[k][1]])
<1>1. AllKeys \in Nat
  BY NamesAssumption DEF AllKeys, MaxServices
<1> DEFINE F(f) == [p \in 0 .. AllKeys |->
                      IF p = 0 THEN NoLists ELSE Visit(store, KeyAt(p - 1), f[p - 1])]
           L == CHOOSE f : f = F(f)
<1>2. \E f : f = F(f)
  BY <1>1, WalkExists
<1>3. L = F(L)
  <2> HIDE DEF F
  <2> QED BY <1>2
<1>4. Recovered(store) = L[AllKeys]
  BY DEF Recovered, NoLists
<1> HIDE DEF L
<1>5. L[0] = NoLists
  BY <1>1, <1>3
<1>6. \A p \in 1 .. AllKeys : L[p] = Visit(store, KeyAt(p - 1), L[p - 1])
  BY <1>1, <1>3
<1> HIDE DEF F
\* Up to every place the lists hold the values of the keys that come before.
<1> DEFINE Good(p) ==
             /\ L[p] \in NamedLists
             /\ \A q \in 0 .. p - 1 :
                  KeyAt(q) \in DOMAIN store => In(store[KeyAt(q)], L[p][store[KeyAt(q)][1]])
           S == {p \in 0 .. AllKeys : ~Good(p)}
<1>7. S = {}
  <2> SUFFICES ASSUME S # {} PROVE FALSE
    OBVIOUS
  <2>1. S \in SUBSET Nat
    BY <1>1
  <2>2. PICK p \in S : \A y \in S : p <= y
    <3> HIDE DEF S
    <3> QED BY <2>1, LeastOf
  <2>3. p \in 0 .. AllKeys /\ ~Good(p)
    BY <2>2
  <2>4. Good(0)
    BY <1>5, NoListsNamed
  <2> HIDE DEF Good
  <2>5. p \in 1 .. AllKeys /\ p - 1 \in 0 .. AllKeys /\ ~(p <= p - 1)
    BY <1>1, <2>3, <2>4
  <2>6. Good(p - 1)
    <3>1. p - 1 \notin S
      <4> HIDE DEF S
      <4> QED BY <2>2, <2>5
    <3> QED BY <2>5, <3>1
  <2> DEFINE l == L[p - 1]
             k == KeyAt(p - 1)
  <2>7. /\ l \in NamedLists
        /\ \A q \in 0 .. p - 2 :
             KeyAt(q) \in DOMAIN store => In(store[KeyAt(q)], l[store[KeyAt(q)][1]])
    BY <2>5, <2>6 DEF Good
  <2>8. L[p] = Visit(store, k, l)
    BY <1>6, <2>5
  <2> HIDE DEF l, k
  <2>9. /\ Visit(store, k, l) \in NamedLists
        /\ \A n \in Names : \A s : In(s, l[n]) => In(s, Visit(store, k, l)[n])
        /\ k \in DOMAIN store => In(store[k], Visit(store, k, l)[store[k][1]])
    BY <2>7, VisitList
  <2>10. \A q \in 0 .. p - 1 :
           KeyAt(q) \in DOMAIN store => In(store[KeyAt(q)], L[p][store[KeyAt(q)][1]])
    <3> TAKE q \in 0 .. p - 1
    <3> HAVE KeyAt(q) \in DOMAIN store
    <3>1. CASE q = p - 1
      BY <2>8, <2>9, <3>1 DEF k
    <3>2. CASE q # p - 1
      <4>1. q \in 0 .. p - 2
        BY <2>5, <3>2
      <4>2. store[KeyAt(q)][1] \in Names
        BY ServiceIsItself DEF IsStore
      <4> QED BY <2>7, <2>8, <2>9, <4>1, <4>2
    <3> QED BY <3>1, <3>2
  <2>11. Good(p)
    BY <2>8, <2>9, <2>10 DEF Good
  <2> QED BY <2>3, <2>11
<1>8. Good(AllKeys)
  BY <1>1, <1>7
<1> HIDE DEF S
<1>9. ASSUME NEW k \in DOMAIN store
      PROVE  In(store[k], Recovered(store)[store[k][1]])
  <2>1. PICK q \in 0 .. AllKeys - 1 : KeyAt(q) = k
    BY KeyHasPlace DEF IsStore
  <2> QED BY <1>4, <1>8, <2>1
<1> QED BY <1>4, <1>8, <1>9

-----------------------------------------------------------------------------
(* The registry of dynamic services: Store, key by key *)

StoringType ==
  [by : Requests \cup {Free}, todo : SUBSET Names, name : Names \cup {Free},
   i : Nat, gone : SUBSET StoreKeys]

RegistryType ==
  /\ services \in [Names -> Seq(Entry)]
  /\ record \in [Requests -> Service]
  /\ pc \in [Requests -> {"idle", "next", "add", "remove", "store"}]
  /\ batch \in [Requests -> Seq(Service)]
  /\ IsStore(dsStore)
  /\ storing \in StoringType
  /\ torn \in BOOLEAN

\* A Store belongs to a request that is at it, and a request that goes on has a
\* service left.
RegistryPlaces ==
  /\ \A r \in Requests : pc[r] = "next" => batch[r] # <<>>
  /\ storing.by = Free => storing = NotStoring
  /\ storing.by # Free =>
       pc[storing.by] = "store" /\ \A n \in Names : Len(services[n]) <= MaxServices
  /\ storing.name # Free =>
       storing.gone = {} /\ storing.by # Free /\ Len(services[storing.name]) > 0

\* The gateway runs, with a registry.
ServesRegistry == up /\ EnableDynamicService

\* While it does, a list points only to requests that register.
RegistryPointers ==
  ServesRegistry \/ ~torn =>
    \A n \in Names : \A i \in DOMAIN services[n] : \A r \in Requests :
      services[n][i] = r => pc[r] \in {"next", "add", "store"}

\* What an entry stands for changes no more while this Store runs. A request that
\* waits may write another service over its own.
Fixed(e) == e \notin Requests \/ e = storing.by

Holds(n, i) == Fixed(services[n][i + 1]) => dsStore[<<n, i>>] = At(services[n][i + 1])

\* The first len entries of n are in the store.
Saved(n, len) == \A i \in 0 .. len - 1 : <<n, i>> \in DOMAIN dsStore /\ Holds(n, i)

\* The store has nothing else for n, but what is about to be deleted.
Clean(n) ==
  \A i \in 0 .. MaxServices - 1 :
    <<n, i>> \in DOMAIN dsStore \ storing.gone => i < Len(services[n]) /\ Holds(n, i)

\* The keys of n may be deleted for a name that n extends.
Extended(n) == \E m \in Names : <<m, n>> \in Extensions /\ Len(services[m]) > 0

\* What the names that are done have in the store.
DoneSoFar ==
  \A n \in Names \ storing.todo : n # storing.name =>
    /\ ~Extended(n) => Saved(n, Len(services[n]))
    /\ Len(services[n]) > 0 => Clean(n)

\* How far a Store that has not failed is: the names it is done with, the one it
\* writes, and the keys it deletes, which are those of no entry.
StoreSoFar ==
  ~torn =>
    /\ DoneSoFar
    /\ storing.name # Free => Saved(storing.name, storing.i)
    /\ \A k \in storing.gone : Extended(k[1]) \/ k[2] >= Len(services[k[1]])

RegistryInv == RegistryType /\ RegistryPlaces /\ RegistryPointers /\ StoreSoFar

\* No Store runs.
LEMMA NotStoringIs ==
  /\ NotStoring \in StoringType
  /\ NotStoring.by = Free /\ NotStoring.todo = {} /\ NotStoring.name = Free
  /\ NotStoring.i = 0 /\ NotStoring.gone = {}
  BY DEF NotStoring, StoringType

LEMMA StoringFields ==
  ASSUME storing \in StoringType
  PROVE  /\ storing.by \in Requests \cup {Free} /\ storing.todo \in SUBSET Names
         /\ storing.name \in Names \cup {Free} /\ storing.i \in Nat
         /\ storing.gone \in SUBSET StoreKeys
         /\ storing = [by |-> storing.by, todo |-> storing.todo, name |-> storing.name,
                       i |-> storing.i, gone |-> storing.gone]
  BY DEF StoringType

\* A request that is not the one of the Store may change its record: no claim is
\* made of the entries that point to it.
LEMMA ClaimsKept ==
  ASSUME StoreSoFar, RegistryType,
         services' = services, dsStore' = dsStore, storing' = storing, torn' = torn,
         \A r \in Requests : r = storing.by => record'[r] = record[r]
  PROVE  StoreSoFar'
<1>1. \A e : Fixed(e)' <=> Fixed(e)
  BY DEF Fixed
<1>2. \A e : Fixed(e) => At(e)' = At(e)
  BY DEF Fixed, At
<1>3. \A n, i : Holds(n, i) => Holds(n, i)'
  BY <1>1, <1>2 DEF Holds
<1>4. \A n, len : Saved(n, len) => Saved(n, len)'
  BY <1>3 DEF Saved
<1>5. \A n : Clean(n) => Clean(n)'
  BY <1>3 DEF Clean
<1>6. \A n : Extended(n)' <=> Extended(n)
  BY DEF Extended
<1>7. DoneSoFar => DoneSoFar'
  BY <1>4, <1>5, <1>6 DEF DoneSoFar
<1> QED BY <1>4, <1>6, <1>7 DEF StoreSoFar

\* A request to register or to remove something begins, or goes on to its next
\* service.
LEMMA RequestStep ==
  ASSUME RegistryInv, ServesRegistry, ServesRegistry', NEW r \in Requests,
         \/ \E list \in Batches : Register(r, list)
         \/ \E host \in HostPorts : Unregister(r, host)
         \/ NextService(r)
  PROVE  RegistryInv'
<1> USE DEF RegistryInv
<1>1. services' = services /\ dsStore' = dsStore /\ storing' = storing /\ torn' = torn
  BY DEF Register, Unregister, NextService
<1>2. RegistryType /\ DOMAIN pc = Requests /\ DOMAIN batch = Requests /\ DOMAIN record = Requests
  BY DEF RegistryType
<1>3. pc[r] \in {"idle", "next"} /\ \A q \in Requests : q # r => pc'[q] = pc[q] /\ batch'[q] = batch[q] /\ record'[q] = record[q]
  BY <1>2 DEF Register, Unregister, NextService
<1>4. storing.by # r
  <2>1. storing.by = r => storing.by # Free
    BY NamesAssumption
  <2> QED BY <1>3, <2>1 DEF RegistryPlaces
<1>5. RegistryType'
  <2>1. batch[r] \in Seq(Service) /\ record[r] \in Service /\ record[r][1] \in Names
    BY <1>2, ServiceIsItself DEF RegistryType
  <2>2. ASSUME NEW list \in Batches, Register(r, list) PROVE RegistryType'
    <3>1. list \in Seq(Service)
      BY NamesAssumption
    <3> QED BY <2>2, <3>1 DEF Register, RegistryType, IsStore
  <2>3. ASSUME NEW host \in HostPorts, Unregister(r, host) PROVE RegistryType'
    <3>1. <<record[r][1], host>> \in Service
      BY <2>1 DEF Service
    <3>2. record' \in [Requests -> Service]
      BY <1>2, <2>3, <3>1 DEF Unregister, RegistryType
    <3> QED BY <2>3, <3>2 DEF Unregister, RegistryType, IsStore
  <2>4. CASE NextService(r)
    <3>1. batch[r] # <<>>
      BY <2>4 DEF NextService, RegistryPlaces
    <3>2. Head(batch[r]) \in Service /\ Tail(batch[r]) \in Seq(Service)
      BY <2>1, <3>1
    <3> QED BY <2>4, <3>2 DEF NextService, RegistryType, IsStore
  <2> QED BY <2>2, <2>3, <2>4
<1>6. pc'[r] \in {"next", "add", "remove"} /\ (pc'[r] = "next" => batch'[r] # <<>>)
  <2>1. \A list \in Batches : list # <<>>
    BY NamesAssumption
  <2> QED BY <1>2, <2>1 DEF Register, Unregister, NextService
<1>7. RegistryPlaces'
  <2>1. \A q \in Requests : pc'[q] = "next" => batch'[q] # <<>>
    BY <1>3, <1>6 DEF RegistryPlaces
  <2>2. storing.by # Free => pc'[storing.by] = "store"
    BY <1>2, <1>3, <1>4, StoringFields DEF RegistryPlaces, RegistryType
  <2> QED BY <1>1, <2>1, <2>2 DEF RegistryPlaces
<1>8. RegistryPointers'
  <2> SUFFICES ASSUME NEW n \in Names, NEW i \in DOMAIN services[n], NEW q \in Requests,
                      services[n][i] = q
               PROVE  pc'[q] \in {"next", "add", "store"}
    BY <1>1 DEF RegistryPointers
  <2>1. pc[q] \in {"next", "add", "store"}
    BY DEF RegistryPointers
  <2>2. CASE q # r
    BY <1>3, <2>1, <2>2
  <2>3. CASE q = r
    <3>1. NextService(r)
      BY <2>1, <2>3 DEF Register, Unregister
    <3> QED BY <1>2, <2>3, <3>1 DEF NextService
  <2> QED BY <2>2, <2>3
<1>9. StoreSoFar'
  BY <1>1, <1>3, <1>4, ClaimsKept DEF RegistryType
<1> QED BY <1>5, <1>7, <1>8, <1>9

\* With every change of the lists a new Store begins, which has written nothing yet.
LEMMA OnChangeStep ==
  ASSUME RegistryInv, ServesRegistry, ServesRegistry', NEW r \in Requests, OnChange(r),
         services' \in [Names -> Seq(Entry)],
         record' = record, batch' = batch, dsStore' = dsStore,
         \A n \in Names : \A i \in DOMAIN services'[n] :
           services'[n][i] = r \/ \E m \in Names : \E j \in DOMAIN services[m] :
                                    services'[n][i] = services[m][j]
  PROVE  RegistryInv'
<1> USE DEF RegistryInv
<1>1. DOMAIN pc = Requests /\ r # Free
  BY NamesAssumption DEF RegistryType
<1>2. /\ storing' = [by |-> r, todo |-> Names, name |-> Free, i |-> 0, gone |-> {}]
      /\ torn' = FALSE
      /\ pc' = [pc EXCEPT ![r] = "store"]
      /\ \A n \in Names : Len(services'[n]) <= MaxServices
  BY DEF OnChange, NotStoring
<1>3. /\ storing'.by = r /\ storing'.todo = Names /\ storing'.name = Free /\ storing'.gone = {}
      /\ storing' \in StoringType
  BY <1>2 DEF StoringType
<1>4. pc'[r] = "store" /\ \A q \in Requests : q # r => pc'[q] = pc[q]
  BY <1>1, <1>2
<1>5. RegistryType'
  BY <1>1, <1>2, <1>3 DEF RegistryType, IsStore
<1>6. RegistryPlaces'
  BY <1>1, <1>2, <1>3, <1>4 DEF RegistryPlaces
<1>7. RegistryPointers'
  <2> SUFFICES ASSUME NEW n \in Names, NEW i \in DOMAIN services'[n], NEW q \in Requests,
                      services'[n][i] = q
               PROVE  pc'[q] \in {"next", "add", "store"}
    BY DEF RegistryPointers
  <2>1. CASE q = r
    BY <1>4, <2>1
  <2>2. CASE q # r
    <3>1. PICK m \in Names : \E j \in DOMAIN services[m] : services'[n][i] = services[m][j]
      BY <2>2
    <3>2. pc[q] \in {"next", "add", "store"}
      BY <3>1 DEF RegistryPointers
    <3> QED BY <1>4, <2>2, <3>2
  <2> QED BY <2>1, <2>2
<1>8. StoreSoFar'
  BY <1>3 DEF StoreSoFar, DoneSoFar
<1> QED BY <1>5, <1>6, <1>7, <1>8

LEMMA AddStep ==
  ASSUME RegistryInv, ServesRegistry, ServesRegistry', NEW r \in Requests, Add(r)
  PROVE  RegistryInv'
<1> DEFINE name == record[r][1]
           list == services[name]
           new == Added(list, r, record[r][2])
<1>1. /\ record[r] \in Service /\ name \in Names /\ r \in Entry
      /\ services \in [Names -> Seq(Entry)] /\ list \in Seq(Entry)
  BY ServiceIsItself DEF RegistryInv, RegistryType, Entry
<1>2. services' = [services EXCEPT ![name] = new]
  BY DEF Add
<1> HIDE DEF name, new
<1>3. /\ new \in Seq(Entry)
      /\ \A i \in DOMAIN new : new[i] = r \/ \E j \in DOMAIN list : new[i] = list[j]
  <2> HIDE DEF list
  <2> QED BY <1>1, AddedList DEF new
<1>4. services' \in [Names -> Seq(Entry)] /\ services'[name] = new
      /\ \A n \in Names : n # name => services'[n] = services[n]
  BY <1>1, <1>2, <1>3
<1>5. \A n \in Names : \A i \in DOMAIN services'[n] :
        services'[n][i] = r \/ \E m \in Names : \E j \in DOMAIN services[m] :
                                 services'[n][i] = services[m][j]
  BY <1>1, <1>3, <1>4
<1>6. OnChange(r) /\ record' = record /\ batch' = batch /\ dsStore' = dsStore
  BY DEF Add
<1> QED BY <1>4, <1>5, <1>6, OnChangeStep

\* An entry that leaves a list leaves the others in it.
LEMMA RemovedList ==
  ASSUME NEW T, NEW list \in Seq(T), NEW k \in DOMAIN list
  PROVE  /\ RemoveAt(list, k) \in Seq(T)
         /\ \A i \in DOMAIN RemoveAt(list, k) : \E j \in DOMAIN list : RemoveAt(list, k)[i] = list[j]
<1> DEFINE a == SubSeq(list, 1, k - 1)
           b == SubSeq(list, k + 1, Len(list))
<1>1. k \in 1 .. Len(list) /\ Len(list) \in Nat
  OBVIOUS
<1>2. /\ a \in Seq(T) /\ Len(a) = k - 1 /\ \A i \in 1 .. k - 1 : a[i] = list[i]
  BY <1>1
<1>3. /\ b \in Seq(T) /\ Len(b) = Len(list) - k /\ \A i \in 1 .. Len(list) - k : b[i] = list[k + i]
  BY <1>1
<1>4. RemoveAt(list, k) = a \o b
  BY DEF RemoveAt
<1> HIDE DEF a, b
<1>5. a \o b \in Seq(T) /\ DOMAIN (a \o b) = 1 .. Len(list) - 1
  BY <1>1, <1>2, <1>3
<1>6. ASSUME NEW i \in 1 .. Len(list) - 1 PROVE \E j \in DOMAIN list : (a \o b)[i] = list[j]
  <2>1. CASE i <= k - 1
    <3>1. (a \o b)[i] = a[i] /\ i \in DOMAIN list
      BY <1>1, <1>2, <1>3, <2>1
    <3> QED BY <1>1, <1>2, <2>1, <3>1
  <2>2. CASE ~(i <= k - 1)
    <3>1. (a \o b)[i] = b[i - k + 1] /\ i - k + 1 \in 1 .. Len(list) - k /\ i + 1 \in DOMAIN list
      BY <1>1, <1>2, <1>3, <2>2
    <3>2. b[i - k + 1] = list[i + 1]
      BY <1>1, <1>3, <3>1
    <3> QED BY <3>1, <3>2
  <2> QED BY <2>1, <2>2
<1> QED BY <1>4, <1>5, <1>6

LEMMA RemoveStep ==
  ASSUME RegistryInv, ServesRegistry, ServesRegistry', NEW r \in Requests, RemoveByHostPort(r)
  PROVE  RegistryInv'
<1> DEFINE host == record[r][2]
           at(n) == {i \in DOMAIN services[n] : At(services[n][i])[2] = host}
           first(n) == CHOOSE i \in at(n) : \A j \in at(n) : i <= j
<1>1. /\ pc[r] = "remove" /\ record' = record /\ batch' = batch /\ dsStore' = dsStore
      /\ services \in [Names -> Seq(Entry)] /\ DOMAIN pc = Requests
  BY DEF RemoveByHostPort, RegistryInv, RegistryType
<1>2. ASSUME NEW n \in Names, at(n) # {},
             services' = [services EXCEPT ![n] = RemoveAt(@, first(n))], OnChange(r)
      PROVE  RegistryInv'
  <2> DEFINE list == services[n]
             new == RemoveAt(list, first(n))
  <2>1. first(n) \in DOMAIN list
    <3>1. at(n) \in SUBSET Nat
      BY <1>1
    <3>2. \E i \in at(n) : \A j \in at(n) : i <= j
      BY <1>2, <3>1, LeastOf
    <3>3. first(n) \in at(n)
      BY <3>2
    <3> QED BY <3>3
  <2> HIDE DEF first
  <2>2. /\ new \in Seq(Entry)
        /\ \A i \in DOMAIN new : \E j \in DOMAIN list : new[i] = list[j]
    <3>1. list \in Seq(Entry)
      BY <1>1
    <3> HIDE DEF list
    <3> QED BY <2>1, <3>1, RemovedList
  <2>3. services' = [services EXCEPT ![n] = new]
    BY <1>2
  <2> HIDE DEF new
  <2>4. services' \in [Names -> Seq(Entry)] /\ services'[n] = new
        /\ \A m \in Names : m # n => services'[m] = services[m]
    BY <1>1, <2>2, <2>3
  <2>5. \A m \in Names : \A i \in DOMAIN services'[m] :
          services'[m][i] = r \/ \E q \in Names : \E j \in DOMAIN services[q] :
                                   services'[m][i] = services[q][j]
    BY <2>2, <2>4
  <2> QED BY <1>1, <1>2, <2>4, <2>5, OnChangeStep
<1>3. ASSUME pc' = [pc EXCEPT ![r] = "idle"], UNCHANGED <<services, storing, torn>>
      PROVE  RegistryInv'
  <2>1. pc'[r] = "idle" /\ \A q \in Requests : q # r => pc'[q] = pc[q]
    BY <1>1, <1>3
  <2>2. RegistryType'
    BY <1>1, <1>3 DEF RegistryInv, RegistryType, IsStore
  <2>3. storing.by # r
    <3>1. storing.by = r => storing.by # Free
      BY NamesAssumption
    <3> QED BY <1>1, <3>1 DEF RegistryInv, RegistryPlaces
  <2>4. RegistryPlaces'
    <3>1. \A q \in Requests : pc'[q] = "next" => batch'[q] # <<>>
      BY <1>1, <2>1 DEF RegistryInv, RegistryPlaces
    <3>2. storing.by # Free => pc'[storing.by] = "store"
      BY <2>1, <2>3, StoringFields DEF RegistryInv, RegistryPlaces, RegistryType
    <3> QED BY <1>3, <3>1, <3>2 DEF RegistryInv, RegistryPlaces
  <2>5. RegistryPointers'
    <3> SUFFICES ASSUME NEW n \in Names, NEW i \in DOMAIN services[n], NEW q \in Requests,
                        services[n][i] = q
                 PROVE  pc'[q] \in {"next", "add", "store"}
      BY <1>3 DEF RegistryPointers
    <3>1. pc[q] \in {"next", "add", "store"}
      BY DEF RegistryInv, RegistryPointers
    <3> QED BY <1>1, <2>1, <3>1
  <2>6. StoreSoFar'
    BY <1>1, <1>3, ClaimsKept DEF RegistryInv
  <2> QED BY <2>2, <2>4, <2>5, <2>6 DEF RegistryInv
<1> QED BY <1>2, <1>3 DEF RemoveByHostPort

LEMMA SearchStep ==
  ASSUME RegistryInv, ServesRegistry, ServesRegistry', NEW n \in Names, Search(n)
  PROVE  RegistryInv'
<1> USE DEF RegistryInv
<1>1. PICK i \in DOMAIN services[n], j \in DOMAIN services[n] :
        services' = [services EXCEPT ![n] = Swapped(services[n], i, j)]
  BY DEF Search
<1>2. /\ torn' = TRUE /\ record' = record /\ pc' = pc /\ batch' = batch
      /\ dsStore' = dsStore /\ storing' = storing
  BY DEF Search
<1> DEFINE list == services[n]
           new == Swapped(list, i, j)
<1>3. services \in [Names -> Seq(Entry)] /\ list \in Seq(Entry)
  BY DEF RegistryType
<1>4. /\ new \in Seq(Entry) /\ Len(new) = Len(list)
      /\ \A k \in DOMAIN new : \E m \in DOMAIN list : new[k] = list[m]
  <2> HIDE DEF list
  <2>1. i \in DOMAIN list /\ j \in DOMAIN list
    BY DEF list
  <2>2. /\ new \in Seq(Entry) /\ Len(new) = Len(list) /\ DOMAIN new = DOMAIN list
        /\ \A k \in DOMAIN list : new[k] = IF k = j THEN list[i] ELSE IF k = i THEN list[j] ELSE list[k]
    BY <1>3, <2>1, SwappedList
  <2> QED BY <2>1, <2>2
<1> HIDE DEF new
<1>5. services' \in [Names -> Seq(Entry)] /\ services'[n] = new
      /\ \A m \in Names : m # n => services'[m] = services[m]
  BY <1>1, <1>3, <1>4 DEF new
<1>6. RegistryType'
  BY <1>2, <1>5 DEF RegistryType, IsStore
<1>7. RegistryPlaces'
  <2>1. \A m \in Names : Len(services'[m]) = Len(services[m])
    BY <1>4, <1>5
  <2> QED BY <1>2, <2>1, StoringFields DEF RegistryPlaces, RegistryType
<1>8. RegistryPointers'
  <2> SUFFICES ASSUME NEW m \in Names, NEW k \in DOMAIN services'[m], NEW q \in Requests,
                      services'[m][k] = q
               PROVE  pc[q] \in {"next", "add", "store"}
    BY <1>2 DEF RegistryPointers
  <2>1. PICK l \in DOMAIN services[m] : services'[m][k] = services[m][l]
    BY <1>4, <1>5
  <2> QED BY <2>1 DEF RegistryPointers
<1>9. StoreSoFar'
  BY <1>2 DEF StoreSoFar
<1> QED BY <1>6, <1>7, <1>8, <1>9

\* A step of Store changes neither the lists nor the requests, and keeps mu.
LEMMA StoreKeeps ==
  ASSUME RegistryInv, ServesRegistry, ServesRegistry',
         services' = services, record' = record, pc' = pc, batch' = batch,
         IsStore(dsStore'), storing' \in StoringType, torn' \in BOOLEAN,
         storing.by # Free, storing'.by = storing.by,
         storing'.name # Free => storing'.gone = {} /\ Len(services[storing'.name]) > 0
  PROVE  RegistryType' /\ RegistryPlaces' /\ RegistryPointers'
<1>1. RegistryType'
  BY DEF RegistryInv, RegistryType, IsStore
<1>2. RegistryPlaces'
  BY DEF RegistryInv, RegistryPlaces
<1>3. RegistryPointers'
  BY DEF RegistryInv, RegistryPointers
<1> QED BY <1>1, <1>2, <1>3

\* Nor does it change what an entry stands for.
LEMMA StoreHolds ==
  ASSUME services' = services, record' = record, storing'.by = storing.by
  PROVE  /\ \A n, i : dsStore'[<<n, i>>] = dsStore[<<n, i>>] => (Holds(n, i)' <=> Holds(n, i))
         /\ \A n : Extended(n)' <=> Extended(n)
<1>1. \A e : (Fixed(e)' <=> Fixed(e)) /\ At(e)' = At(e)
  BY DEF Fixed, At
<1> QED BY <1>1 DEF Holds, Extended

LEMMA StoreNameStep ==
  ASSUME RegistryInv, ServesRegistry, ServesRegistry', storing.gone = {}, NEW n \in Names, StoreName(n)
  PROVE  RegistryInv'
<1> USE DEF RegistryInv
<1>1. /\ services' = services /\ record' = record /\ pc' = pc /\ batch' = batch
      /\ dsStore' = dsStore /\ torn' = torn
      /\ storing.by # Free /\ storing.name = Free /\ n \in storing.todo
  BY DEF StoreName
<1>2. RegistryType /\ services[n] \in Seq(Entry) /\ storing \in StoringType
  BY DEF RegistryType
<1>3. /\ storing'.by = storing.by /\ storing'.todo = storing.todo \ {n} /\ storing'.gone = {}
      /\ storing'.name = IF services[n] = <<>> THEN Free ELSE n
      /\ storing'.i = 0 /\ storing' \in StoringType
  BY <1>2, StoringFields DEF StoreName, StoringType
<1>4. services[n] # <<>> => Len(services[n]) > 0
  BY <1>2
<1>5. RegistryType' /\ RegistryPlaces' /\ RegistryPointers'
  <2>1. IsStore(dsStore') /\ torn' \in BOOLEAN
    BY <1>1 DEF RegistryType
  <2> QED BY <1>1, <1>3, <1>4, <2>1, StoreKeeps
<1>6. StoreSoFar'
  <2> SUFFICES ASSUME ~torn PROVE StoreSoFar'
    BY <1>1 DEF StoreSoFar
  <2>1. \A m, i : Holds(m, i)' <=> Holds(m, i)
    BY <1>1, <1>3, StoreHolds
  <2>2. \A m : Extended(m)' <=> Extended(m)
    BY <1>1, <1>3, StoreHolds
  <2>3. \A m, len : Saved(m, len)' <=> Saved(m, len)
    BY <1>1, <2>1 DEF Saved
  <2>4. \A m : Clean(m)' <=> Clean(m)
    BY <1>1, <1>3, <2>1 DEF Clean
  <2>5. \A m : Saved(m, 0)
    BY DEF Saved
  <2>6. DoneSoFar'
    <3> SUFFICES ASSUME NEW m \in Names, m \notin storing.todo \ {n}, m # storing'.name
                 PROVE  /\ ~Extended(m) => Saved(m, Len(services[m]))
                        /\ Len(services[m]) > 0 => Clean(m)
      BY <1>1, <1>3, <2>2, <2>3, <2>4 DEF DoneSoFar
    <3>1. CASE m = n
      <4>1. services[n] = <<>>
        BY <1>3, <3>1
      <4>2. Len(services[m]) = 0
        BY <3>1, <4>1
      <4> QED BY <2>5, <4>2
    <3>2. CASE m # n
      <4>1. m \in Names \ storing.todo /\ m # storing.name
        BY <1>1, <3>2, NamesAssumption
      <4> QED BY <4>1 DEF StoreSoFar, DoneSoFar
    <3> QED BY <3>1, <3>2
  <2> QED BY <1>1, <1>3, <2>3, <2>5, <2>6 DEF StoreSoFar
<1> QED BY <1>5, <1>6

LEMMA StorePutStep ==
  ASSUME RegistryInv, ServesRegistry, ServesRegistry', storing.gone = {}, StorePut
  PROVE  RegistryInv'
<1> USE DEF RegistryInv
<1>0. PICK n \in Names, i \in Nat : storing.name = n /\ storing.i = i
  BY StoringFields DEF StorePut, RegistryType
<1> DEFINE k == <<n, i>>
           v == At(services[n][i + 1])
<1>1. /\ services' = services /\ record' = record /\ pc' = pc /\ batch' = batch
      /\ n # Free /\ i < Len(services[n])
  BY <1>0 DEF StorePut
<1>2. RegistryType /\ storing \in StoringType /\ services[n] \in Seq(Entry)
  BY DEF RegistryType
<1>3. /\ storing'.by = storing.by /\ storing'.todo = storing.todo /\ storing'.gone = {}
      /\ storing'.name = n /\ storing'.i = i + 1 /\ storing' \in StoringType
  BY <1>0, <1>2, StoringFields DEF StorePut, StoringType
<1>4. storing.by # Free /\ Len(services[n]) <= MaxServices /\ Len(services[n]) > 0
  BY <1>0, <1>1, <1>2 DEF RegistryPlaces
<1>5. k \in StoreKeys /\ v \in Service
  <2>1. i \in 0 .. MaxServices - 1 /\ i + 1 \in DOMAIN services[n]
    BY <1>1, <1>2, <1>4 DEF MaxServices
  <2>2. services[n][i + 1] \in Entry
    BY <1>2, <2>1
  <2>3. v \in Service
    BY <2>2 DEF Entry, At, RegistryType
  <2> QED BY <1>2, <2>1, <2>3 DEF StoreKeys
<1>6. \/ /\ dsStore' = [x \in DOMAIN dsStore \cup {k} |-> IF x = k THEN v ELSE dsStore[x]]
         /\ torn' = torn
      \/ dsStore' = dsStore /\ torn' = TRUE
  BY <1>0 DEF StorePut
<1> HIDE DEF v
<1>7. IsStore(dsStore') /\ torn' \in BOOLEAN
  <2>1. IsStore(dsStore) /\ torn \in BOOLEAN
    BY DEF RegistryType
  <2>2. CASE dsStore' = dsStore /\ torn' = TRUE
    BY <2>1, <2>2
  <2>3. CASE /\ dsStore' = [x \in DOMAIN dsStore \cup {k} |-> IF x = k THEN v ELSE dsStore[x]]
             /\ torn' = torn
    <3> HIDE DEF k
    <3>1. DOMAIN dsStore' = DOMAIN dsStore \cup {k}
      BY <2>3
    <3>2. DOMAIN dsStore' \subseteq StoreKeys /\ \A x \in DOMAIN dsStore' : dsStore'[x] \in Service
      BY <1>5, <2>1, <2>3, <3>1 DEF IsStore
    <3>3. dsStore' \in [DOMAIN dsStore' -> Service]
      BY <2>3, <3>1, <3>2
    <3> QED BY <2>1, <2>3, <3>2, <3>3 DEF IsStore
  <2> QED BY <1>6, <2>2, <2>3
<1>8. RegistryType' /\ RegistryPlaces' /\ RegistryPointers'
  BY <1>1, <1>3, <1>4, <1>7, StoreKeeps
<1>9. StoreSoFar'
  <2>1. CASE torn' = TRUE
    BY <2>1 DEF StoreSoFar
  <2>2. CASE torn' # TRUE
    <3>1. dsStore' = [x \in DOMAIN dsStore \cup {k} |-> IF x = k THEN v ELSE dsStore[x]]
      BY <1>6, <2>2
    <3>2. DoneSoFar /\ Saved(n, i)
      BY <1>0, <1>1, <1>6, <2>2 DEF StoreSoFar, RegistryType
    <3>3. \A m : Extended(m)' <=> Extended(m)
      BY <1>1, <1>3, StoreHolds
    <3>4. k \in DOMAIN dsStore' /\ dsStore'[k] = v
      BY <3>1
    <3>5. \A m, j : <<m, j>> # k =>
            /\ (<<m, j>> \in DOMAIN dsStore' <=> <<m, j>> \in DOMAIN dsStore)
            /\ <<m, j>> \in DOMAIN dsStore => dsStore'[<<m, j>>] = dsStore[<<m, j>>]
      <4> HIDE DEF k
      <4> QED BY <3>1
    <3>6. \A m, j : <<m, j>> # k /\ <<m, j>> \in DOMAIN dsStore => (Holds(m, j)' <=> Holds(m, j))
      BY <1>1, <1>3, <3>5, StoreHolds
    <3>7. Holds(n, i)'
      BY <1>1, <3>4 DEF Holds, v, At
    <3>8. Saved(n, i + 1)'
      <4> SUFFICES ASSUME NEW j \in 0 .. i PROVE <<n, j>> \in DOMAIN dsStore' /\ Holds(n, j)'
        BY <1>2 DEF Saved
      <4>1. CASE j = i
        BY <3>4, <3>7, <4>1
      <4>2. CASE j # i
        <5>1. <<n, j>> # k /\ j \in 0 .. i - 1
          BY <1>2, <4>2
        <5> QED BY <3>2, <3>5, <3>6, <5>1 DEF Saved
      <4> QED BY <4>1, <4>2
    <3>9. \A m \in Names : m # n => (\A len : Saved(m, len) => Saved(m, len)') /\ (Clean(m) => Clean(m)')
      <4> TAKE m \in Names
      <4> HAVE m # n
      <4>1. \A j : <<m, j>> # k
        OBVIOUS
      <4>2. \A len : Saved(m, len) => Saved(m, len)'
        BY <3>5, <3>6, <4>1 DEF Saved
      <4>3. Clean(m) => Clean(m)'
        BY <1>1, <1>3, <3>5, <3>6, <4>1 DEF Clean
      <4> QED BY <4>2, <4>3
    <3>10. DoneSoFar'
      BY <1>0, <1>1, <1>3, <3>2, <3>3, <3>9 DEF DoneSoFar
    <3> QED BY <1>3, <3>8, <3>10 DEF StoreSoFar
  <2> QED BY <2>1, <2>2
<1> QED BY <1>8, <1>9

LEMMA StoreIterateStep ==
  ASSUME RegistryInv, ServesRegistry, ServesRegistry', storing.gone = {}, StoreIterate
  PROVE  RegistryInv'
<1> USE DEF RegistryInv
<1>0. PICK n \in Names : storing.name = n
  BY StoringFields DEF StoreIterate, RegistryType
<1>1. /\ services' = services /\ record' = record /\ pc' = pc /\ batch' = batch
      /\ dsStore' = dsStore /\ torn' = torn
      /\ n # Free /\ storing.i = Len(services[n])
  BY <1>0 DEF StoreIterate
<1>2. RegistryType /\ storing \in StoringType /\ IsStore(dsStore)
  BY DEF RegistryType
<1>3. Beyond(n) \in SUBSET StoreKeys
  BY <1>2 DEF Beyond, IsStore
<1>4. /\ storing'.by = storing.by /\ storing'.todo = storing.todo /\ storing'.gone = Beyond(n)
      /\ storing'.name = Free /\ storing' \in StoringType
  <2>1. storing' = [storing EXCEPT !.gone = Beyond(n), !.name = Free]
    BY <1>0 DEF StoreIterate
  <2> QED BY <1>2, <1>3, <2>1, StoringFields DEF StoringType
<1>5. storing.by # Free /\ Len(services[n]) > 0
  BY <1>0, <1>1 DEF RegistryPlaces
<1>6. RegistryType' /\ RegistryPlaces' /\ RegistryPointers'
  <2>1. IsStore(dsStore') /\ torn' \in BOOLEAN
    BY <1>1 DEF RegistryType
  <2> QED BY <1>1, <1>4, <1>5, <2>1, StoreKeeps
<1>7. StoreSoFar'
  <2> SUFFICES ASSUME ~torn PROVE StoreSoFar'
    BY <1>1 DEF StoreSoFar
  <2>1. DoneSoFar /\ Saved(n, Len(services[n]))
    BY <1>0, <1>1 DEF StoreSoFar
  <2>2. (\A m, i : Holds(m, i)' <=> Holds(m, i)) /\ (\A m : Extended(m)' <=> Extended(m))
    BY <1>1, <1>4, StoreHolds
  <2>3. \A m, len : Saved(m, len)' <=> Saved(m, len)
    BY <1>1, <2>2 DEF Saved
  <2>4. \A m : Clean(m) => Clean(m)'
    BY <1>1, <2>2 DEF Clean
  <2>5. Clean(n)'
    <3> SUFFICES ASSUME NEW i \in 0 .. MaxServices - 1, <<n, i>> \in DOMAIN dsStore \ Beyond(n)
                 PROVE  i < Len(services[n]) /\ Holds(n, i)
      BY <1>1, <1>4, <2>2 DEF Clean
    <3>1. ~(i >= Len(services[n]))
      BY DEF Beyond
    <3>2. Len(services[n]) \in Nat /\ i \in Nat
      BY DEF RegistryType, MaxServices
    <3>3. i < Len(services[n]) /\ i \in 0 .. Len(services[n]) - 1
      BY <3>1, <3>2
    <3> QED BY <2>1, <3>3 DEF Saved
  <2>6. DoneSoFar'
    <3> SUFFICES ASSUME NEW m \in Names \ storing.todo
                 PROVE  /\ ~Extended(m) => Saved(m, Len(services[m]))
                        /\ Len(services[m]) > 0 => Clean(m)'
      BY <1>1, <1>4, <2>2, <2>3 DEF DoneSoFar
    <3>1. CASE m = n
      BY <2>1, <2>5, <3>1
    <3>2. CASE m # n
      BY <1>0, <2>1, <2>4, <3>2 DEF DoneSoFar
    <3> QED BY <3>1, <3>2
  <2>7. \A k \in Beyond(n) : Extended(k[1]) \/ k[2] >= Len(services[k[1]])
    BY <1>5 DEF Beyond, Extended
  <2> QED BY <1>1, <1>4, <2>2, <2>6, <2>7 DEF StoreSoFar
<1> QED BY <1>6, <1>7

LEMMA StoreDeleteStep ==
  ASSUME RegistryInv, ServesRegistry, ServesRegistry', NEW k \in storing.gone, StoreDelete(k)
  PROVE  RegistryInv'
<1> USE DEF RegistryInv
<1>1. /\ services' = services /\ record' = record /\ pc' = pc /\ batch' = batch /\ torn' = torn
      /\ dsStore' = [x \in DOMAIN dsStore \ {k} |-> dsStore[x]]
  BY DEF StoreDelete
<1>2. RegistryType /\ storing \in StoringType /\ IsStore(dsStore) /\ k \in StoreKeys
  BY StoringFields DEF RegistryType
<1>3. /\ storing'.by = storing.by /\ storing'.todo = storing.todo /\ storing'.name = storing.name
      /\ storing'.gone = storing.gone \ {k} /\ storing' \in StoringType
  BY <1>2, StoringFields DEF StoreDelete, StoringType
<1>4. storing.by # Free /\ storing.name = Free
  BY NotStoringIs DEF RegistryPlaces
<1>5. /\ DOMAIN dsStore' = DOMAIN dsStore \ {k}
      /\ \A x \in DOMAIN dsStore' : dsStore'[x] = dsStore[x]
  BY <1>1
<1>6. RegistryType' /\ RegistryPlaces' /\ RegistryPointers'
  <2>1. dsStore' \in [DOMAIN dsStore' -> Service]
    BY <1>1, <1>2, <1>5 DEF IsStore
  <2>2. IsStore(dsStore') /\ torn' \in BOOLEAN
    BY <1>1, <1>2, <1>5, <2>1 DEF RegistryType, IsStore
  <2> QED BY <1>1, <1>3, <1>4, <2>2, StoreKeeps
<1>7. StoreSoFar'
  <2> SUFFICES ASSUME ~torn PROVE StoreSoFar'
    BY <1>1 DEF StoreSoFar
  <2>1. DoneSoFar /\ \A x \in storing.gone : Extended(x[1]) \/ x[2] >= Len(services[x[1]])
    BY DEF StoreSoFar
  <2>2. \A m : Extended(m)' <=> Extended(m)
    BY <1>1, <1>3, StoreHolds
  <2>3. \A m, i : <<m, i>> \in DOMAIN dsStore' => (Holds(m, i)' <=> Holds(m, i))
    BY <1>1, <1>3, <1>5, StoreHolds
  <2>4. ASSUME NEW m \in Names, ~Extended(m), Saved(m, Len(services[m]))
        PROVE  Saved(m, Len(services[m]))'
    <3> SUFFICES ASSUME NEW i \in 0 .. Len(services[m]) - 1
                 PROVE  <<m, i>> \in DOMAIN dsStore' /\ Holds(m, i)'
      BY <1>1 DEF Saved
    <3>1. <<m, i>> \in DOMAIN dsStore /\ Holds(m, i)
      BY <2>4 DEF Saved
    <3>2. Len(services[m]) \in Nat
      BY DEF RegistryType
    <3>3. <<m, i>> # k
      <4>1. ~(i >= Len(services[m]))
        BY <3>2
      <4> QED BY <2>1, <2>4, <4>1
    <3> QED BY <1>5, <2>3, <3>1, <3>3
  <2>5. ASSUME NEW m \in Names, Clean(m) PROVE Clean(m)'
    <3>1. \A i : <<m, i>> \in DOMAIN dsStore' \ storing'.gone
                   => <<m, i>> \in DOMAIN dsStore \ storing.gone /\ <<m, i>> \in DOMAIN dsStore'
      BY <1>3, <1>5
    <3> QED BY <1>1, <2>3, <2>5, <3>1 DEF Clean
  <2>6. DoneSoFar'
    BY <1>1, <1>3, <2>1, <2>2, <2>4, <2>5 DEF DoneSoFar
  <2> QED BY <1>1, <1>3, <1>4, <2>1, <2>2, <2>6 DEF StoreSoFar
<1> QED BY <1>6, <1>7

\* When the Store of a request is over, what its entries point to is in the store;
\* when the request is over too, that is what they are.
LEMMA StoreEndStep ==
  ASSUME RegistryInv, ServesRegistry, ServesRegistry', StoreEnd
  PROVE  RegistryInv'
<1> USE DEF RegistryInv
<1>0. PICK r \in Requests : storing.by = r
  BY StoringFields DEF StoreEnd, RegistryType
<1>1. /\ storing.name = Free /\ storing.todo = {} /\ storing.gone = {} /\ storing' = NotStoring
      /\ record' = record /\ batch' = batch /\ dsStore' = dsStore /\ torn' = torn
      /\ pc' = [pc EXCEPT ![r] = IF batch[r] = <<>> THEN "idle" ELSE "next"]
  BY <1>0 DEF StoreEnd
<1>2. /\ services \in [Names -> Seq(Entry)] /\ DOMAIN pc = Requests
      /\ record[r] \in Service /\ record[r] \notin Requests
  BY NamesAssumption DEF RegistryType
<1>3. \/ batch[r] # <<>> /\ services' = services
      \/ /\ batch[r] = <<>>
         /\ services' = [n \in Names |-> [i \in DOMAIN services[n] |->
              IF services[n][i] = r THEN record[r] ELSE services[n][i]]]
  BY <1>0 DEF StoreEnd
<1>4. \A n \in Names :
        /\ services'[n] \in Seq(Entry) /\ Len(services'[n]) = Len(services[n])
        /\ DOMAIN services'[n] = DOMAIN services[n]
        /\ \A i \in DOMAIN services[n] :
             IF services[n][i] = r /\ batch[r] = <<>> THEN services'[n][i] = record[r]
             ELSE services'[n][i] = services[n][i]
  <2> TAKE n \in Names
  <2>1. CASE services' = services /\ batch[r] # <<>>
    BY <1>2, <2>1
  <2>2. CASE /\ batch[r] = <<>>
             /\ services' = [m \in Names |-> [i \in DOMAIN services[m] |->
                  IF services[m][i] = r THEN record[r] ELSE services[m][i]]]
    <3> DEFINE list == services[n]
    <3>1. list \in Seq(Entry) /\ record[r] \in Entry
      BY <1>2 DEF Entry
    <3>2. services'[n] = [i \in DOMAIN list |-> IF list[i] = r THEN record[r] ELSE list[i]]
      BY <2>2
    <3> HIDE DEF list
    <3>3. /\ services'[n] \in Seq(Entry) /\ Len(services'[n]) = Len(list)
          /\ DOMAIN services'[n] = DOMAIN list
      BY <3>1, <3>2
    <3>4. \A i \in DOMAIN list : services'[n][i] = IF list[i] = r THEN record[r] ELSE list[i]
      BY <3>2
    <3> QED BY <2>2, <3>3, <3>4 DEF list
  <2> QED BY <1>3, <2>1, <2>2
<1>5. services' \in [Names -> Seq(Entry)]
  <2>1. DOMAIN services' = Names /\ services' = [n \in Names |-> services'[n]]
    BY <1>2, <1>3
  <2> QED BY <1>4, <2>1
<1>6. /\ pc'[r] = IF batch[r] = <<>> THEN "idle" ELSE "next"
      /\ \A q \in Requests : q # r => pc'[q] = pc[q]
  BY <1>1, <1>2
<1>7. RegistryType'
  BY <1>1, <1>5, NotStoringIs DEF RegistryType, IsStore
<1>8. RegistryPlaces'
  <2>1. \A q \in Requests : pc'[q] = "next" => batch'[q] # <<>>
    BY <1>1, <1>6 DEF RegistryPlaces
  <2> QED BY <1>1, <2>1, NotStoringIs DEF RegistryPlaces
<1>9. RegistryPointers'
  <2> SUFFICES ASSUME NEW n \in Names, NEW i \in DOMAIN services'[n], NEW q \in Requests,
                      services'[n][i] = q
               PROVE  pc'[q] \in {"next", "add", "store"}
    BY DEF RegistryPointers
  <2>1. i \in DOMAIN services[n] /\ services[n][i] = q /\ ~(q = r /\ batch[r] = <<>>)
    BY <1>2, <1>4
  <2>2. pc[q] \in {"next", "add", "store"}
    BY <2>1 DEF RegistryPointers
  <2> QED BY <1>6, <2>1, <2>2
<1>10. StoreSoFar'
  <2> SUFFICES ASSUME ~torn PROVE StoreSoFar'
    BY <1>1 DEF StoreSoFar
  <2>1. ASSUME NEW n \in Names, NEW i \in Nat, i + 1 \in DOMAIN services[n], Holds(n, i)
        PROVE  Holds(n, i)'
    <3> DEFINE e == services[n][i + 1]
               new == services'[n][i + 1]
    <3> SUFFICES ASSUME new \notin Requests PROVE dsStore[<<n, i>>] = new
      <4>1. storing'.by = Free /\ Free \notin Requests
        BY <1>1, NotStoringIs, NamesAssumption
      <4> QED BY <1>1, <4>1 DEF Holds, Fixed, At
    <3>1. CASE e = r
      <4>1. new = record[r]
        BY <1>4, <2>1, <3>1
      <4>2. Fixed(e) /\ At(e) = record[r]
        BY <1>0, <3>1 DEF Fixed, At
      <4> QED BY <2>1, <4>1, <4>2 DEF Holds
    <3>2. CASE e # r
      <4>1. new = e
        BY <1>4, <2>1, <3>2
      <4>2. Fixed(e) /\ At(e) = e
        BY <4>1 DEF Fixed, At
      <4> QED BY <2>1, <4>1, <4>2 DEF Holds
    <3> QED BY <3>1, <3>2
  <2>2. \A n \in Names : Len(services[n]) \in Nat /\ DOMAIN services[n] = 1 .. Len(services[n])
    BY <1>2
  <2>3. ASSUME NEW n \in Names, Saved(n, Len(services[n])) PROVE Saved(n, Len(services[n]))'
    <3> SUFFICES ASSUME NEW i \in 0 .. Len(services[n]) - 1
                 PROVE  <<n, i>> \in DOMAIN dsStore /\ Holds(n, i)'
      BY <1>1, <1>4 DEF Saved
    <3>1. <<n, i>> \in DOMAIN dsStore /\ Holds(n, i)
      BY <2>3 DEF Saved
    <3>2. i \in Nat /\ i + 1 \in DOMAIN services[n]
      BY <2>2
    <3> QED BY <2>1, <3>1, <3>2
  <2>4. ASSUME NEW n \in Names, Clean(n) PROVE Clean(n)'
    <3> SUFFICES ASSUME NEW i \in 0 .. MaxServices - 1, <<n, i>> \in DOMAIN dsStore
                 PROVE  i < Len(services[n]) /\ Holds(n, i)'
      BY <1>1, <1>4 DEF Clean
    <3>1. i < Len(services[n]) /\ Holds(n, i)
      BY <1>1, <2>4 DEF Clean
    <3>2. i \in Nat /\ i + 1 \in DOMAIN services[n]
      BY <2>2, <3>1 DEF MaxServices
    <3> QED BY <2>1, <3>1, <3>2
  <2>5. \A n : Extended(n)' <=> Extended(n)
    BY <1>4 DEF Extended
  <2>6. DoneSoFar'
    <3> SUFFICES ASSUME NEW n \in Names
                 PROVE  /\ ~Extended(n) => Saved(n, Len(services[n]))'
                        /\ Len(services[n]) > 0 => Clean(n)'
      BY <1>1, <1>4, <2>5 DEF DoneSoFar
    <3>1. n # storing.name /\ n \in Names \ storing.todo
      BY <1>1, NamesAssumption
    <3> QED BY <2>3, <2>4, <3>1 DEF StoreSoFar, DoneSoFar
  <2> QED BY <1>1, <2>6, NotStoringIs DEF StoreSoFar
<1> QED BY <1>7, <1>8, <1>9, <1>10

LEMMA RegistryNextStep ==
  ASSUME RegistryInv, ServesRegistry, ServesRegistry', DynamicNext
  PROVE  RegistryInv'
<1>1. ASSUME NEW r \in Requests,
             \/ \E list \in Batches : Register(r, list)
             \/ \E host \in HostPorts : Unregister(r, host)
             \/ NextService(r)
      PROVE  RegistryInv'
  BY <1>1, RequestStep
<1>2. ASSUME NEW r \in Requests, Add(r) PROVE RegistryInv'
  BY <1>2, AddStep
<1>3. ASSUME NEW r \in Requests, RemoveByHostPort(r) PROVE RegistryInv'
  BY <1>3, RemoveStep
<1>4. ASSUME NEW n \in Names, Search(n) PROVE RegistryInv'
  BY <1>4, SearchStep
<1>5. CASE StoreNext
  <2>1. ASSUME NEW n \in Names, storing.gone = {}, StoreName(n) PROVE RegistryInv'
    BY <2>1, StoreNameStep
  <2>2. ASSUME NEW k \in storing.gone, StoreDelete(k) PROVE RegistryInv'
    BY <2>2, StoreDeleteStep
  <2> QED BY <1>5, <2>1, <2>2, StorePutStep, StoreIterateStep, StoreEndStep DEF StoreNext
<1> QED BY <1>1, <1>2, <1>3, <1>4, <1>5 DEF DynamicNext

\* After a start, and after the end of the process, nothing runs; the lists of a
\* start are those of Recovery, which point to no request.
LEMMA RegistryResetStep ==
  ASSUME RegistryType, DynamicReset, IsStore(dsStore'),
         services' = Recovered(dsStore) \/ (services' = services /\ ~ServesRegistry')
  PROVE  RegistryInv'
<1>1. /\ storing' = NotStoring /\ torn' = TRUE /\ record' = record
      /\ pc' = [r \in Requests |-> "idle"] /\ batch' = [r \in Requests |-> <<>>]
  BY DEF DynamicReset
<1>2. /\ storing'.by = Free /\ storing'.name = Free /\ storing' \in StoringType
  BY <1>1, NotStoringIs
<1>3. Recovered(dsStore) \in NamedLists
  BY RecoveredLists DEF RegistryType
<1>4. Recovered(dsStore) \in [Names -> Seq(Service)]
  BY <1>3 DEF NamedLists
<1>5. services' \in [Names -> Seq(Entry)]
  <2>1. \A s \in Seq(Service) : s \in Seq(Entry)
    BY DEF Entry
  <2> QED BY <1>4, <2>1 DEF RegistryType
<1>6. RegistryType'
  BY <1>1, <1>2, <1>5 DEF RegistryType
<1>7. RegistryPlaces'
  BY <1>1, <1>2 DEF RegistryPlaces
<1>8. RegistryPointers'
  <2>1. CASE services' = services /\ ~ServesRegistry'
    BY <1>1, <2>1 DEF RegistryPointers
  <2>2. CASE services' = Recovered(dsStore)
    <3>1. \A n \in Names : \A i \in DOMAIN services'[n] : services'[n][i] \in Service
      BY <1>4, <2>2
    <3>2. \A n \in Names : \A i \in DOMAIN services'[n] : services'[n][i] \notin Requests
      BY <3>1, NamesAssumption
    <3> QED BY <3>2 DEF RegistryPointers
  <2> QED BY <2>1, <2>2
<1>9. StoreSoFar'
  BY <1>1 DEF StoreSoFar
<1> QED BY <1>6, <1>7, <1>8, <1>9 DEF RegistryInv

\* Every step of the gateway keeps RegistryInv.
LEMMA RegistryStep ==
  ASSUME RegistryInv, [Next]_vars
  PROVE  RegistryInv'
<1>0. RegistryType /\ IsStore(dsStore)
  BY DEF RegistryInv, RegistryType
<1>1. CASE ServeGateway /\ EnableDynamicService
  <2>1. DynamicReset /\ dsStore' = dsStore /\ services' = Recovered(dsStore)
    BY <1>1 DEF ServeGateway
  <2> QED BY <1>0, <2>1, RegistryResetStep
<1>2. CASE RouterPanics \/ Kill \/ Corrupted \/ SenderPanics
  <2>1. DynamicReset /\ services' = services /\ ~ServesRegistry'
    BY <1>2 DEF RouterPanics, Kill, Corrupted, SenderPanics, Ends, Exit, MQReset, up, ServesRegistry
  <2>2. dsStore' = dsStore \/ dsStore' = [k \in {} |-> <<>>]
    BY <1>2 DEF RouterPanics, Kill, Corrupted, SenderPanics
  <2>3. IsStore([k \in {} |-> <<>>])
    BY DEF IsStore
  <2>4. IsStore(dsStore')
    BY <1>0, <2>2, <2>3
  <2> QED BY <1>0, <2>1, <2>4, RegistryResetStep
<1>3. CASE up /\ focus = "dynamic" /\ DynamicNext /\ UNCHANGED <<mqVars, gatewayVars>>
  <2>1. ServesRegistry /\ ServesRegistry'
    BY <1>3 DEF gatewayVars, mqVars, storeVars, ServesRegistry, up, EnableDynamicService
  <2> QED BY <1>3, <2>1, RegistryNextStep
<1>4. ASSUME UNCHANGED dynamicVars, ServesRegistry' => ServesRegistry PROVE RegistryInv'
  <2>1. RegistryType' /\ RegistryPlaces' /\ RegistryPointers'
    BY <1>4 DEF RegistryInv, RegistryType, RegistryPlaces, RegistryPointers, dynamicVars, IsStore
  <2>2. StoreSoFar'
    BY <1>0, <1>4, ClaimsKept DEF RegistryInv, dynamicVars
  <2> QED BY <2>1, <2>2 DEF RegistryInv
<1>5. CASE ServeGateway /\ ~EnableDynamicService
  <2>1. UNCHANGED dynamicVars /\ focus' = focus
    BY <1>5 DEF ServeGateway, dynamicVars
  <2> QED BY <1>4, <1>5, <2>1 DEF ServesRegistry, EnableDynamicService
<1>6. CASE focus = "mq" /\ MQNext /\ UNCHANGED <<dynamicVars, gatewayVars>>
  BY <1>4, <1>6 DEF gatewayVars, ServesRegistry, EnableDynamicService
<1>7. CASE /\ focus = "tsdb" /\ TSDBNext
           /\ UNCHANGED <<dynamicVars, focus, workingDir, defaultStore, starts>>
  BY <1>4, <1>7 DEF ServesRegistry, EnableDynamicService
<1>8. CASE UNCHANGED vars
  BY <1>4, <1>8 DEF vars, gatewayVars, mqVars, storeVars, ServesRegistry, up, EnableDynamicService
<1> QED BY <1>1, <1>2, <1>3, <1>5, <1>6, <1>7, <1>8 DEF Next

LEMMA RegistryInit == Init => RegistryInv
<1> SUFFICES ASSUME Init PROVE RegistryInv
  OBVIOUS
<1>1. /\ services = [n \in Names |-> <<>>] /\ pc = [r \in Requests |-> "idle"]
      /\ record = [r \in Requests |-> CHOOSE s \in Service : TRUE]
      /\ batch = [r \in Requests |-> <<>>] /\ dsStore = [k \in {} |-> <<>>]
      /\ storing = NotStoring /\ torn = FALSE
  BY DEF Init, DynamicInit
<1>2. \E s : s \in Service
  <2>1. PICK n \in Names, h \in HostPorts : TRUE
    BY NamesAssumption
  <2>2. <<n, h>> \in Service
    BY DEF Service
  <2> QED BY <2>2
<1>3. (CHOOSE s \in Service : TRUE) \in Service
  BY <1>2
<1>4. IsStore(dsStore)
  BY <1>1 DEF IsStore
<1>5. storing.by = Free /\ storing.name = Free /\ storing.gone = {} /\ storing \in StoringType
  BY <1>1, NotStoringIs
<1>6. RegistryType
  <2> DEFINE some == CHOOSE s \in Service : TRUE
  <2>1. record = [r \in Requests |-> some] /\ some \in Service
    BY <1>1, <1>3
  <2> HIDE DEF some
  <2>2. record \in [Requests -> Service]
    BY <2>1
  <2>3. services \in [Names -> Seq(Entry)] /\ batch \in [Requests -> Seq(Service)]
    BY <1>1
  <2>4. pc \in [Requests -> {"idle", "next", "add", "remove", "store"}] /\ torn \in BOOLEAN
    BY <1>1
  <2> QED BY <1>4, <1>5, <2>2, <2>3, <2>4 DEF RegistryType
<1>7. RegistryPlaces
  BY <1>1, <1>5 DEF RegistryPlaces
<1>8. \A n \in Names : DOMAIN services[n] = {} /\ Len(services[n]) = 0
  BY <1>1
<1>9. RegistryPointers
  BY <1>8 DEF RegistryPointers
<1>10. StoreSoFar
  BY <1>5, <1>8 DEF StoreSoFar, DoneSoFar, Saved
<1> QED BY <1>6, <1>7, <1>9, <1>10 DEF RegistryInv

\* At rest no Store runs and no entry points to a request, so that the store holds
\* the lists and Recovery gives them back.
LEMMA RegistryMatches == RegistryInv => StoreMatches
<1> SUFFICES ASSUME RegistryInv, AtRest, NEW n \in Names
             PROVE  /\ (\A m \in Names : <<m, n>> \in Extensions => services[m] = <<>>)
                         => Entries(services[n]) \subseteq UNION {Entries(Recovered(dsStore)[m]) : m \in Names}
                    /\ services[n] # <<>>
                         => {dsStore[k] : k \in {x \in DOMAIN dsStore : x[1] = n}} \subseteq Entries(services[n])
  BY DEF StoreMatches
<1>1. RegistryType /\ ~torn /\ \A r \in Requests : pc[r] = "idle"
  BY DEF AtRest, RegistryInv
<1>2. storing = NotStoring
  <2>1. storing.by \in Requests \cup {Free}
    BY <1>1, StoringFields DEF RegistryType
  <2> QED BY <1>1, <2>1 DEF RegistryInv, RegistryPlaces
<1>3. DoneSoFar /\ n \in Names \ storing.todo /\ n # storing.name /\ storing.gone = {}
  BY <1>1, <1>2, NotStoringIs, NamesAssumption DEF RegistryInv, StoreSoFar
<1>4. \A m \in Names : services[m] \in Seq(Entry)
  BY <1>1 DEF RegistryType
<1>5. Len(services[n]) \in Nat /\ DOMAIN services[n] = 1 .. Len(services[n])
  BY <1>4
<1>6. \A i \in DOMAIN services[n] : services[n][i] \in Service /\ Fixed(services[n][i])
  <2> TAKE i \in DOMAIN services[n]
  <2>1. services[n][i] \notin Requests
    BY <1>1 DEF RegistryInv, RegistryPointers
  <2> QED BY <1>4, <1>5, <2>1 DEF Entry, Fixed
<1>7. ASSUME \A m \in Names : <<m, n>> \in Extensions => services[m] = <<>>, NEW s \in Entries(services[n])
      PROVE  s \in UNION {Entries(Recovered(dsStore)[m]) : m \in Names}
  <2>1. ~Extended(n)
    <3>1. \A m \in Names : Len(services[m]) > 0 => services[m] # <<>>
      BY <1>4
    <3> QED BY <1>7, <3>1 DEF Extended
  <2>2. Saved(n, Len(services[n]))
    BY <1>3, <2>1 DEF DoneSoFar
  <2>3. PICK i \in DOMAIN services[n] : s = At(services[n][i])
    BY <1>7 DEF Entries
  <2>4. i - 1 \in 0 .. Len(services[n]) - 1 /\ (i - 1) + 1 = i
    BY <1>5
  <2>5. <<n, i - 1>> \in DOMAIN dsStore /\ dsStore[<<n, i - 1>>] = s
    BY <1>6, <2>2, <2>3, <2>4 DEF Saved, Holds
  <2> DEFINE back == Recovered(dsStore)
  <2>6. IsStore(dsStore) /\ s \in Service /\ s[1] \in Names
    BY <1>1, <2>5, ServiceIsItself DEF RegistryType, IsStore
  <2>7. In(s, back[s[1]]) /\ back \in NamedLists
    BY <2>5, <2>6, RecoveredLists
  <2> HIDE DEF back
  <2>8. PICK j \in DOMAIN back[s[1]] : back[s[1]][j] = s
    BY <2>7 DEF In
  <2>9. s \in Entries(back[s[1]])
    BY <2>6, <2>8, ServiceIsItself DEF Entries
  <2>10. s \in UNION {Entries(back[m]) : m \in Names}
    BY <2>6, <2>9
  <2> QED BY <2>10 DEF back
<1>8. ASSUME services[n] # <<>>, NEW k \in DOMAIN dsStore, k[1] = n
      PROVE  dsStore[k] \in Entries(services[n])
  <2>1. Len(services[n]) > 0
    BY <1>4, <1>8
  <2>2. Clean(n)
    BY <1>3, <2>1 DEF DoneSoFar
  <2>3. PICK i \in 0 .. MaxServices - 1 : k = <<n, i>>
    BY <1>1, <1>8 DEF RegistryType, IsStore, StoreKeys
  <2>4. i < Len(services[n]) /\ Holds(n, i)
    BY <1>3, <1>8, <2>2, <2>3 DEF Clean
  <2>5. i + 1 \in DOMAIN services[n]
    BY <1>5, <2>4 DEF MaxServices
  <2>6. dsStore[k] = At(services[n][i + 1])
    BY <1>6, <2>3, <2>4, <2>5 DEF Holds
  <2> QED BY <2>5, <2>6 DEF Entries
<1> QED BY <1>7, <1>8

\* When no request runs, a restart would lose no registered service whose name
\* extends no other one's, and bring none back that was removed, whatever names and
\* hosts there are, however many requests share the lists, and wherever the process
\* ended before (Add, RemoveByHostPort, Store, Recovery).
THEOREM StoreMatchesAlways == Spec => []StoreMatches
  BY RegistryInit, RegistryStep, RegistryMatches, PTL DEF Spec

\* The counters stay below their bounds, and the store and the databases in it are
\* of their kinds.
CountersOK ==
  /\ registers \in 0..MaxRegisters
  /\ focus \in {"dynamic", "mq", "tsdb"}
  /\ workingDir \in BOOLEAN /\ defaultStore \in Handlers \cup {NoStore}
  /\ syncs \subseteq Databases /\ starts \in 0..MaxStarts

LEMMA CountersStep ==
  ASSUME CountersOK, [Next]_vars
  PROVE  CountersOK'
<1> USE GatewayAssumption DEF CountersOK
<1>1. CASE ServeGateway \/ RouterPanics
  <2>1. /\ registers' = registers /\ focus' = focus /\ syncs' = syncs /\ workingDir' = TRUE
        /\ defaultStore' \in {NoStore, defaultStore, starts + 1}
        /\ starts < MaxStarts /\ starts' = starts + 1
    BY <1>1 DEF ServeGateway, RouterPanics, Setup, Exit
  <2>2. starts' \in 0..MaxStarts /\ starts + 1 \in Handlers
    BY <2>1 DEF Handlers
  <2>3. defaultStore' \in Handlers \cup {NoStore}
    BY <2>1, <2>2
  <2> QED BY <2>1, <2>2, <2>3
<1>2. CASE Kill \/ Corrupted \/ SenderPanics
  <2>1. /\ registers' = registers /\ focus' = focus /\ workingDir' = workingDir
        /\ starts' = starts /\ defaultStore' = NoStore
    BY <1>2 DEF Kill, Corrupted, SenderPanics, Ends, Exit
  <2>2. syncs' \subseteq syncs
    BY <1>2 DEF Kill, Corrupted, SenderPanics
  <2> QED BY <2>1, <2>2
<1>3. CASE up /\ focus = "dynamic" /\ DynamicNext /\ UNCHANGED <<mqVars, gatewayVars>>
  <2>1. registers' = registers \/ (registers < MaxRegisters /\ registers' = registers + 1)
    BY <1>3 DEF DynamicNext, Register, Unregister, NextService, Add, RemoveByHostPort, Search,
                StoreNext, StorePut, StoreIterate, StoreEnd, StoreName, StoreDelete
  <2>2. registers' \in 0..MaxRegisters
    BY <2>1
  <2>3. UNCHANGED gatewayVars
    BY <1>3
  <2> QED BY ZenonT(30), <2>2, <2>3 DEF gatewayVars
<1>4. CASE focus = "mq" /\ MQNext /\ UNCHANGED <<dynamicVars, gatewayVars>>
  BY <1>4 DEF gatewayVars, dynamicVars
<1>5. CASE /\ focus = "tsdb" /\ TSDBNext
           /\ UNCHANGED <<dynamicVars, focus, workingDir, defaultStore, starts>>
  <2>1. syncs' \subseteq Databases
    BY <1>5 DEF TSDBNext, AddDatabase, RemoveDatabase
  <2> QED BY <1>5, <2>1 DEF dynamicVars
<1>6. CASE UNCHANGED vars
  BY <1>6 DEF vars, gatewayVars, dynamicVars
<1> QED BY <1>1, <1>2, <1>3, <1>4, <1>5, <1>6 DEF Next

\* The gateway, with its registry, its topics and its store, keeps its types.
THEOREM TypeCorrect == Spec => []TypeOK
<1>1. ASSUME Init PROVE CountersOK
  <2>1. registers \in 0..MaxRegisters /\ starts \in 0..MaxStarts
    BY <1>1, GatewayAssumption DEF Init, DynamicInit
  <2> QED BY <1>1, <2>1 DEF Init, CountersOK
<1>2. ASSUME RegistryInv, CountersOK PROVE DynamicTypeOK
  <2>1. DOMAIN dsStore \subseteq Names \X Nat
    <3>1. 0 .. MaxServices - 1 \subseteq Nat
      BY DEF MaxServices
    <3>2. StoreKeys \subseteq Names \X Nat
      BY <3>1 DEF StoreKeys
    <3> QED BY <1>2, <3>2 DEF RegistryInv, RegistryType, IsStore
  <2>2. torn \in BOOLEAN /\ registers \in 0..MaxRegisters
    BY <1>2 DEF RegistryInv, RegistryType, CountersOK
  <2>3. /\ \A n \in Names : services[n] \in Seq(Service \cup Requests)
        /\ \A r \in Requests : batch[r] \in Seq(Service)
    BY <1>2 DEF RegistryInv, RegistryType, Entry
  <2> QED BY <1>2, <2>1, <2>2, <2>3 DEF RegistryInv, RegistryType, DynamicTypeOK
<1>3. RegistryInv /\ TopicsInv /\ CountersOK => TypeOK
  BY <1>2 DEF TopicsInv, QueueInv, CountersOK, TypeOK
<1> QED BY <1>1, <1>3, TopicsInit, RegistryInit, RegistryStep, TopicsStep, CountersStep, PTL DEF Spec

-----------------------------------------------------------------------------
(* The config agent *)

WatcherType ==
  [pc : {"none", "check", "get", "send"}, key : AnyKey, index : 0 .. MaxIndex]

\* A reply is one for a key.
KeysKnown == \A w \in Watchers : watcher[w].pc = "send" => watcher[w].key \in Keys

\* After the Stop a watcher that asks, or has a reply to send, was asking then.
AskedBefore ==
  /\ stoped /\ ~asking => \A w \in Watchers : watcher[w].pc \in {"none", "check"}
  /\ PanicWasAsked

ConfigInv == ConfigTypeOK /\ KeysKnown /\ AskedBefore

\* The reader and the handler: they move no watcher that runs.
LEMMA ReaderStep ==
  ASSUME ConfigInv, panic = "none",
         \/ \E message \in Message : ReadMessage(message)
         \/ ReaderActs \/ HandleClose \/ ReadFails \/ HandlerActs \/ TakeResponse \/ WritesOverlap
         \/ \E k \in Keys : ConfigChanges(k)
  PROVE  ConfigInv'
<1> USE DEF ConfigInv, ConfigTypeOK, KeysKnown, AskedBefore, PanicWasAsked
<1>0. /\ ChSize \in Nat /\ MaxMessages \in Nat /\ MaxIndex \in Nat /\ ReplySize \in Nat
      /\ req.action \in Actions /\ req.key \in AnyKey /\ NoReply \in AnyKey \X (0 .. MaxIndex)
  BY ConfigAssumption DEF Message, NoReply, AnyKey
<1>1. ASSUME NEW message \in Message, ReadMessage(message) PROVE ConfigInv'
  <2>0. UNCHANGED <<ws, ch, handler, writing, watchVars, shownVars>>
    BY <1>1 DEF ReadMessage
  <2>1. messages' \in 0..MaxMessages
    BY SMTT(40), <1>0, <1>1 DEF ReadMessage
  <2>2. req' \in Message /\ reader' \in {"send", "write"}
    BY <1>1 DEF ReadMessage
  <2> QED BY <2>0, <2>1, <2>2 DEF watchVars, shownVars
<1>2. CASE HandleClose \/ ReadFails
  <2>1. /\ ws' \in {"open", "closed", "failed"}
        /\ UNCHANGED <<reader, req, ch, handler, writing, watchVars, shownVars, messages>>
    BY <1>2 DEF HandleClose, ReadFails, ReaderEnds
  <2> QED BY <2>1 DEF watchVars, shownVars
<1>3. CASE TakeRequest
  BY <1>0, <1>3 DEF TakeRequest, watchVars, shownVars
<1>4. CASE ReadAction
  BY <1>0, <1>4 DEF ReadAction, watchVars, shownVars
<1>5. CASE PutConfig
  BY <1>5 DEF PutConfig, watchVars, shownVars
<1>6. CASE WatchKey
  <2>2. \/ watcher' = watcher
        \/ \E w \in Watchers :
             watcher' = [watcher EXCEPT ![w] = [pc |-> "check", key |-> req.key, index |-> 0]]
    BY <1>6 DEF WatchKey
  <2> DEFINE new == [pc |-> "check", key |-> req.key, index |-> 0]
  <2>3. new \in WatcherType /\ new.pc = "check"
    BY <1>0 DEF WatcherType
  <2>3a. watcher \in [Watchers -> WatcherType]
    BY DEF WatcherType
  <2>3b. watcher' = watcher \/ \E w \in Watchers : watcher' = [watcher EXCEPT ![w] = new]
    BY <2>2
  <2> HIDE DEF new
  <2>4. /\ watcher' \in [Watchers -> WatcherType]
        /\ \A w \in Watchers : watcher'[w] = watcher[w] \/ watcher'[w] = new
    <3> HIDE DEF ConfigInv, ConfigTypeOK, KeysKnown, AskedBefore, PanicWasAsked
    <3> QED BY <2>3, <2>3a, <2>3b
  <2>5. /\ \A w \in Watchers : watcher'[w].pc = "send" => watcher'[w].key \in Keys
        /\ \A w \in Watchers : watcher[w].pc \in {"none", "check"} => watcher'[w].pc \in {"none", "check"}
    BY <2>3, <2>4
  <2>6. ConfigTypeOK'
    BY <1>0, <1>6, <2>4 DEF WatchKey, WatcherType, shownVars
  <2> QED BY <1>6, <2>5, <2>6 DEF WatchKey, shownVars
<1>7. CASE UnwatchKey
  BY <1>7 DEF UnwatchKey, shownVars
<1>8. CASE Stop
  BY <1>8 DEF Stop, shownVars
<1>9. CASE TakeResponse
  <2> DEFINE T == Keys \X (0 .. MaxIndex)
  <2>0. responses \in Seq(T) /\ responses # <<>> /\ Len(responses) <= ReplySize
    BY <1>9 DEF TakeResponse
  <2>1. /\ Head(responses) \in T
        /\ Tail(responses) \in Seq(T) /\ Len(Tail(responses)) <= ReplySize
    <3> HIDE DEF T, ConfigInv, ConfigTypeOK, KeysKnown, AskedBefore, PanicWasAsked
    <3>1. Head(responses) \in T /\ Tail(responses) \in Seq(T)
      BY <2>0
    <3>2. Len(Tail(responses)) = Len(responses) - 1 /\ Len(responses) \in Nat
      BY <2>0
    <3> QED BY <1>0, <2>0, <3>1, <3>2
  <2>2. bucket' \in [Keys -> 0 .. MaxIndex]
    BY <1>9, <2>1 DEF TakeResponse
  <2>3. /\ handler' \in {handler, "write"} /\ writing' \in AnyKey \X (0 .. MaxIndex)
        /\ responses' = Tail(responses)
        /\ UNCHANGED <<ws, reader, req, ch, keys, stoped, watcher, config, asking, shown, lost, panic,
                       messages>>
    <3>1. Head(responses) \in AnyKey \X (0 .. MaxIndex)
      BY <2>1 DEF AnyKey
    <3>2. writing' \in {writing, Head(responses)} /\ handler' \in {handler, "write"}
      BY <1>9 DEF TakeResponse
    <3> QED BY <1>9, <3>1, <3>2 DEF TakeResponse, shownVars
  <2> QED BY <2>1, <2>2, <2>3
<1>10. ASSUME NEW k \in Keys, ConfigChanges(k) PROVE ConfigInv'
  <2>1. config' \in [Keys -> 0 .. MaxIndex]
    BY <1>0, <1>10 DEF ConfigChanges
  <2> QED BY <1>10, <2>1 DEF ConfigChanges, shownVars
<1>11. CASE ReaderActs
  <2>1. ch' \in 0 .. ChSize /\ reader' = "read"
    BY <1>0, <1>11 DEF ReaderActs, SendRequest, WriteError
  <2>2. UNCHANGED <<ws, req, handler, writing, watchVars, shownVars, messages>>
    BY <1>11 DEF ReaderActs, SendRequest, WriteError
  <2> QED BY <2>1, <2>2 DEF watchVars, shownVars
<1>12. CASE WriteJSON
  <2>1. shown' \in [Keys -> 0 .. MaxIndex]
    <3>1. writing[2] \in 0 .. MaxIndex
      OBVIOUS
    <3> QED BY <1>12, <3>1 DEF WriteJSON
  <2> QED BY <1>0, <1>12, <2>1 DEF WriteJSON, watchVars
<1>13. CASE WritesOverlap
  <2>1. /\ ws' \in {ws, "failed"} /\ reader' \in {reader, "read"} /\ panic' \in {"none", "write"}
        /\ handler' \in {handler, "select"} /\ lost' \subseteq Keys
        /\ UNCHANGED <<req, ch, watchVars, shown, messages>>
    BY <1>13 DEF WritesOverlap
  <2>2. writing' \in {writing, NoReply}
    BY <1>13 DEF WritesOverlap
  <2> QED BY <1>0, <2>1, <2>2 DEF watchVars
<1> HIDE DEF ConfigInv, ConfigTypeOK, KeysKnown, AskedBefore, PanicWasAsked
<1> QED BY <1>1, <1>2, <1>3, <1>4, <1>5, <1>6, <1>7, <1>8, <1>9, <1>10, <1>11, <1>12, <1>13
        DEF HandlerActs

\* A watcher looks at Stop before it asks.
LEMMA WatcherStep ==
  ASSUME ConfigInv, panic = "none", NEW w \in Watchers,
         Checks(w) \/ GetConfig(w) \/ GetFails(w) \/ Sends(w)
  PROVE  ConfigInv'
<1> USE DEF ConfigInv
<1>1. /\ watcher \in [Watchers -> WatcherType] /\ watcher[w] \in WatcherType
      /\ watcher[w].pc # "none" /\ watcher[w].key \in AnyKey /\ watcher[w].index \in 0 .. MaxIndex
  BY DEF ConfigTypeOK, KeysKnown, WatcherType, Checks, GetConfig, GetFails, Sends
<1>2. PICK new : /\ Moves(w, new) /\ new \in WatcherType
                 /\ new.pc = "send" => new.key \in Keys
                 /\ stoped /\ watcher[w].pc = "check" => new.pc \in {"none", "check"}
  <2>1. CASE Checks(w)
    <3>1. CASE shouldStop(w)
      <4>1. NoWatcher \in WatcherType /\ NoWatcher.pc = "none"
        BY ConfigAssumption DEF NoWatcher, WatcherType, AnyKey
      <4> QED BY <2>1, <3>1, <4>1 DEF Checks
    <3>2. CASE ~shouldStop(w)
      <4> DEFINE new == [watcher[w] EXCEPT !.pc = "get"]
      <4>1. new \in WatcherType /\ new.pc = "get" /\ ~stoped
        BY <1>1, <3>2 DEF WatcherType, shouldStop
      <4>2. Moves(w, new)
        BY <2>1, <3>2 DEF Checks
      <4> HIDE DEF new
      <4> QED BY <4>1, <4>2
    <3> QED BY <3>1, <3>2
  <2>2. CASE GetConfig(w)
    <3> DEFINE new == [watcher[w] EXCEPT !.pc = "send", !.index = config[watcher[w].key]]
    <3>0. watcher[w].key \in Keys
      BY <1>1, <2>2 DEF GetConfig, AnyKey
    <3>1. config[watcher[w].key] \in 0 .. MaxIndex
      BY <3>0 DEF ConfigTypeOK
    <3>2. new \in WatcherType /\ new.key \in Keys
      BY <1>1, <3>0, <3>1 DEF WatcherType
    <3>3. Moves(w, new) /\ watcher[w].pc = "get"
      BY <2>2 DEF GetConfig
    <3> HIDE DEF new
    <3> QED BY <3>2, <3>3
  <2>3. CASE GetFails(w) \/ Sends(w)
    <3> DEFINE new == [watcher[w] EXCEPT !.pc = "check"]
    <3>1. new \in WatcherType /\ new.pc = "check"
      BY <1>1 DEF WatcherType
    <3>2. Moves(w, new)
      BY <2>3 DEF GetFails, Sends
    <3> HIDE DEF new
    <3> QED BY <3>1, <3>2
  <2> QED BY <2>1, <2>2, <2>3
<1>3. /\ UNCHANGED <<ws, reader, req, ch, handler, writing, keys, stoped, bucket, config, asking,
                    shown, lost, messages>>
      /\ watcher' = [watcher EXCEPT ![w] = new]
  BY <1>2 DEF Moves
<1>4. /\ watcher' \in [Watchers -> WatcherType] /\ watcher'[w] = new
      /\ \A v \in Watchers : v # w => watcher'[v] = watcher[v]
  BY <1>1, <1>2, <1>3
<1>5. /\ responses' \in Seq(Keys \X (0 .. MaxIndex)) /\ Len(responses') <= ReplySize
      /\ panic' \in {"none", "send"}
      /\ panic' = "send" => stoped /\ watcher[w].pc = "send"
  <2>1. CASE responses' = responses /\ panic' = panic
    BY <2>1 DEF ConfigTypeOK
  <2>2. CASE Sends(w) /\ stoped
    BY <2>2 DEF Sends, ConfigTypeOK
  <2>3. CASE Sends(w) /\ ~stoped
    <3> DEFINE reply == <<watcher[w].key, watcher[w].index>>
    <3>1. reply \in Keys \X (0 .. MaxIndex)
      BY <1>1, <2>3 DEF Sends, KeysKnown
    <3>2. responses' = Append(responses, reply) /\ Len(responses) < ReplySize /\ UNCHANGED panic
      BY <2>3 DEF Sends
    <3>3. responses \in Seq(Keys \X (0 .. MaxIndex)) /\ ReplySize \in Nat
      BY ConfigAssumption DEF ConfigTypeOK
    <3> HIDE DEF reply
    <3>4. responses' \in Seq(Keys \X (0 .. MaxIndex)) /\ Len(responses') = Len(responses) + 1
      BY <3>1, <3>2, <3>3
    <3>5. Len(responses) \in Nat
      BY <3>3
    <3>6. Len(responses') <= ReplySize
      BY <3>2, <3>3, <3>4, <3>5
    <3> QED BY <3>2, <3>4, <3>6
  <2> QED BY <2>1, <2>2, <2>3 DEF Checks, GetConfig, GetFails
<1>6. ConfigTypeOK'
  BY <1>3, <1>4, <1>5 DEF ConfigTypeOK, WatcherType
<1>7. KeysKnown'
  BY <1>2, <1>3, <1>4 DEF KeysKnown
<1>8. AskedBefore'
  <2>1. panic' = "send" => asking
    BY <1>5 DEF AskedBefore
  <2>2. ASSUME stoped, ~asking, NEW v \in Watchers PROVE watcher'[v].pc \in {"none", "check"}
    <3>1. \A u \in Watchers : watcher[u].pc \in {"none", "check"}
      BY <2>2 DEF AskedBefore
    <3> QED BY <1>1, <1>2, <1>4, <2>2, <3>1
  <2> QED BY <1>3, <2>1, <2>2 DEF AskedBefore, PanicWasAsked
<1> QED BY <1>6, <1>7, <1>8

LEMMA ConfigStep ==
  ASSUME ConfigInv, [ConfigNext]_configVars
  PROVE  ConfigInv'
<1>1. CASE ConfigNext
  <2>1. ASSUME NEW w \in Watchers, Checks(w) \/ GetConfig(w) \/ GetFails(w) \/ Sends(w)
        PROVE  ConfigInv'
    BY <1>1, <2>1, WatcherStep DEF ConfigNext, InProcess
  <2> QED BY <1>1, <2>1, ReaderStep DEF ConfigNext, InProcess
<1>2. CASE UNCHANGED configVars
  BY <1>2 DEF configVars, ConfigInv, ConfigTypeOK, KeysKnown, AskedBefore, PanicWasAsked
<1> QED BY <1>1, <1>2

LEMMA ConfigStarts == ConfigInit => ConfigInv
<1> SUFFICES ASSUME ConfigInit PROVE ConfigInv
  OBVIOUS
<1>1. NoWatcher \in WatcherType /\ NoWatcher.pc = "none"
  BY ConfigAssumption DEF NoWatcher, WatcherType, AnyKey
<1>2. watcher \in [Watchers -> WatcherType] /\ \A w \in Watchers : watcher[w].pc = "none"
  BY <1>1 DEF ConfigInit
<1>3. ConfigTypeOK
  <2>1. /\ bucket \in [Keys -> 0 .. MaxIndex] /\ config \in [Keys -> 0 .. MaxIndex]
        /\ shown \in [Keys -> 0 .. MaxIndex] /\ ch \in 0 .. ChSize /\ messages \in 0 .. MaxMessages
    BY ConfigAssumption DEF ConfigInit
  <2>2. responses \in Seq(Keys \X (0 .. MaxIndex)) /\ Len(responses) <= ReplySize
    BY ConfigAssumption DEF ConfigInit
  <2>3. req \in Message
    BY DEF ConfigInit, Actions, Message, AnyKey
  <2>4. writing \in AnyKey \X (0 .. MaxIndex)
    BY ConfigAssumption DEF ConfigInit, NoReply, AnyKey
  <2> QED BY <1>2, <2>1, <2>2, <2>3, <2>4 DEF ConfigInit, ConfigTypeOK, WatcherType
<1> QED BY <1>2, <1>3 DEF ConfigInit, ConfigInv, KeysKnown, AskedBefore, PanicWasAsked

\* The variables of the config agent have their types, for any keys, watchers and sizes
\* of the channels.
THEOREM ConfigTypeCorrect == ConfigSpec => []ConfigTypeOK
<1>1. ConfigInv => ConfigTypeOK
  BY DEF ConfigInv
<1> QED BY <1>1, ConfigStarts, ConfigStep, PTL DEF ConfigSpec

\* Only a watcher that was asking the agent when Stop came ends the process with its
\* reply, however many watchers there are and whatever keys are unwatched and watched
\* again before (watchKeybg, shouldStop, Stop).
THEOREM PanicWasAskedAlways == ConfigSpec => []PanicWasAsked
<1>1. ConfigInv => PanicWasAsked
  BY DEF ConfigInv, AskedBefore
<1> QED BY <1>1, ConfigStarts, ConfigStep, PTL DEF ConfigSpec

=============================================================================

---------------------------- MODULE GatewayState ----------------------------
(***************************************************************************)
(* The gateway and what its handlers keep: Setup, ServeGateway and the     *)
(* router of gateway/gateway.go and gateway/setup.go, the LevelDB store of *)
(* gateway/store/store.go, the databases to be synchronised of             *)
(* gateway/serve/tsdb.go, and the handlers of DynamicService and           *)
(* MessageQueue.                                                           *)
(*                                                                         *)
(* The handlers share the store, under prefixes of their own, and the life *)
(* of the process. A behaviour moves one of them (focus).                  *)
(***************************************************************************)
EXTENDS DynamicService, MessageQueue

CONSTANTS
  Databases

ASSUME GatewayAssumption == MaxRegisters \in Nat /\ MaxStarts \in Nat

VARIABLES
  focus,
  workingDir,   \* the directory of the file exists
  defaultStore, \* the store that the next router is given
  syncs,        \* the names of databases in the file
  starts

gatewayVars == <<focus, workingDir, defaultStore, syncs, starts>>
vars == <<dynamicVars, mqVars, gatewayVars>>

TypeOK ==
  /\ DynamicTypeOK /\ MQTypeOK
  /\ focus \in {"dynamic", "mq", "tsdb"}
  /\ workingDir \in BOOLEAN /\ defaultStore \in Handlers \cup {NoStore}
  /\ syncs \subseteq Databases /\ starts \in 0..MaxStarts

Init ==
  /\ DynamicInit /\ MQInit
  /\ focus \in {"dynamic", "mq", "tsdb"}
  /\ workingDir \in BOOLEAN /\ defaultStore = NoStore
  /\ syncs = {} /\ starts = 0

-----------------------------------------------------------------------------
\* The configuration enables the dynamic services.
EnableDynamicService == focus = "dynamic"

\* The gateway serves.
up == live # {}

\* Setup: without the directory the store stays what it was, and only the directory
\* is made; otherwise it is a new one, for start h.
Setup(h) ==
  /\ workingDir' = TRUE
  /\ defaultStore' = IF workingDir THEN h ELSE defaultStore

\* The process ends.
Exit == MQReset /\ DynamicReset /\ UNCHANGED <<registers, focus>>

\* Setup and makeRouter, for the start of the process and after web.Serve has failed.
\* The handlers of a router keep the store it was made with.
ServeGateway ==
  LET h == starts + 1
      s == IF workingDir THEN h ELSE defaultStore
  IN /\ starts < MaxStarts /\ starts' = h
     /\ ~EnableDynamicService \/ Usable(s)
     /\ Setup(h) /\ MQStart(h, s)
     /\ IF EnableDynamicService
        THEN holder' = s /\ services' = Recovered(dsStore) /\ DynamicReset
        ELSE holder' = holder /\ UNCHANGED <<services, record, pc, batch, storing, torn>>
     /\ UNCHANGED <<dsStore, registers, focus, syncs>>

\* With the dynamic services the router needs the store: without one, or with one
\* whose file another has open, makeRouter panics, and the process ends.
RouterPanics ==
  LET h == starts + 1
  IN /\ starts < MaxStarts /\ starts' = h
     /\ EnableDynamicService /\ ~Usable(IF workingDir THEN h ELSE defaultStore)
     /\ workingDir' = TRUE /\ defaultStore' = NoStore
     /\ Exit
     /\ UNCHANGED <<services, dsStore, topics, syncs>>

\* The process is killed, or a goroutine of sendTopic has panicked.
Ends ==
  /\ up /\ Exit
  /\ defaultStore' = NoStore
  /\ UNCHANGED <<services, workingDir, starts>>

Kill == Ends /\ UNCHANGED <<dsStore, topics, syncs>>

SenderPanics == fatal /\ Ends /\ UNCHANGED <<dsStore, topics, syncs>>

\* The device loses power and the file of the store is corrupted. The next Open
\* removes it, and nobody reads it before: what it held is lost at once here.
Corrupted == Ends /\ dsStore' = [k \in {} |-> <<>>] /\ topics' = {} /\ syncs' = {}

-----------------------------------------------------------------------------
\* AddDatabase and RemoveDatabase; without a store they do nothing and succeed, and
\* errors are dropped.
AddDatabase(h, d) ==
  db(ownStore[h]) /\ syncs' = IF Usable(ownStore[h]) THEN syncs \cup {d} ELSE syncs

RemoveDatabase(h, d) ==
  db(ownStore[h]) /\ syncs' = IF Usable(ownStore[h]) THEN syncs \ {d} ELSE syncs

\* ServeHTTP of the databases.
TSDBNext ==
  \/ \E h \in live, d \in Databases :
       /\ AddDatabase(h, d) \/ RemoveDatabase(h, d)
       /\ UNCHANGED <<live, ownStore, topics, toSend, sending, owner, wsConns, conn, todo, writer,
                      broken, got>>
  \/ (\E h \in live : ReadStore(h)) /\ syncs' = syncs

Next ==
  \/ ServeGateway \/ RouterPanics \/ Kill \/ Corrupted \/ SenderPanics
  \/ up /\ focus = "dynamic" /\ DynamicNext /\ UNCHANGED <<mqVars, gatewayVars>>
  \/ focus = "mq" /\ MQNext /\ UNCHANGED <<dynamicVars, gatewayVars>>
  \/ focus = "tsdb" /\ TSDBNext
     /\ UNCHANGED <<dynamicVars, focus, workingDir, defaultStore, starts>>

Spec == Init /\ [][Next]_vars

=============================================================================

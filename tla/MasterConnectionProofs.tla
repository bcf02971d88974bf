----------------------- MODULE MasterConnectionProofs -----------------------
(***************************************************************************)
(* Theorems about MasterConnection, and about the Heartbeat on the         *)
(* connection, for every set of masters, VPN modes and connections.        *)
(***************************************************************************)
EXTENDS MasterConnection, Heartbeat, TLAPS

-----------------------------------------------------------------------------
(* Type correctness *)

\* The part of TypeOK about Boolean variables.
Flags == public \in BOOLEAN /\ ctxDone \in BOOLEAN /\ once \in BOOLEAN /\ gateway \in BOOLEAN

\* Every step keeps every variable within its type.
LEMMA TypeStep == TypeOK /\ [Next]_vars => TypeOK'
<1> SUFFICES ASSUME TypeOK, [Next]_vars PROVE TypeOK'
  OBVIOUS
<1> USE DEF TypeOK, Addr, NotFound, fixed, envVars, vpnVars, beatVars, Fail
<1>1. CASE Top \/ Tick \/ TickCancelled
  BY <1>1 DEF Top, Tick, TickCancelled
<1>2. CASE RegisterOk \/ RegisterFails \/ UnzipOk \/ UnzipFails
  BY <1>2 DEF RegisterOk, RegisterFails, UnzipOk, UnzipFails
<1>3. CASE StopOk \/ StopFails \/ StartOk \/ StartFails
  BY <1>3 DEF StopOk, AfterStop, StopFails, StartOk, StartFails
<1>4. CASE IpOk \/ IpFails \/ HostsOk \/ HostsFails
  BY <1>4 DEF IpOk, IpFails, HostsOk, HostsFails, HostsError
<1>5. CASE ParseOk \/ ParseFails
  BY <1>5 DEF ParseOk, ParseMasterIP, ParseFails
<1>6. CASE Found \/ RouteOk \/ RouteFails \/ MasterIPChanged
  <2>1. Flags'
    BY <1>6 DEF Flags, Found, RouteOk, RouteFails, MasterIPChanged
  <2> QED
    BY <1>6, <2>1 DEF Flags, Found, RouteOk, RouteFails, MasterIPChanged
<1>7. CASE BeatFails \/ Cancel \/ GatewayChanges
  <2>1. Flags'
    BY <1>7 DEF Flags, BeatFails, Cancel, GatewayChanges
  <2> QED
    BY <1>7, <2>1 DEF Flags, BeatFails, Cancel, GatewayChanges
<1>8. CASE UNCHANGED vars
  BY <1>8 DEF vars
<1> QED
  BY <1>1, <1>2, <1>3, <1>4, <1>5, <1>6, <1>7, <1>8 DEF Next, MainNext, Succeeds, Fails

\* The variables of the connection loop always have their types.
THEOREM TypeCorrect == Spec => []TypeOK
<1>1. Init => TypeOK
  <2>1. Init => Flags
    BY DEF Init, Flags
  <2> QED
    BY <2>1 DEF Flags, Init, TypeOK, Addr, NotFound
<1>2. QED
  BY <1>1, TypeStep, PTL DEF Spec

-----------------------------------------------------------------------------
(* One master *)

\* How far the chain of calls has got: what the calls done so far in this turn
\* have made consistent with the answer of the DHCP server.
Chain ==
  /\ pc \in {"unzip", "stop", "start", "ip", "hosts", "parse"} => info \in Masters
  /\ pc \in {"stop", "start", "ip", "hosts", "parse"} => file = info
  /\ pc = "start" => vpn = nil
  /\ pc \in {"ip", "hosts", "parse"} => vpn = info
  /\ pc \in {"hosts", "parse"} => lastVpnIp = info
  /\ pc = "parse" => hosts = info

\* Everything belongs to master m.
AllOf(m) == file = m /\ vpn = m /\ lastVpnIp = m /\ hosts = m

\* What retryfindMaster returned: nothing, because the context is done, or both
\* addresses of one master, to which everything else belongs.
FoundOne ==
  pc \in {"found", "route"} =>
    \/ found = NotFound /\ ctxDone
    \/ \E m \in Masters : found = [public |-> m, vpn |-> m] /\ AllOf(m)

TargetOne == pc \in {"changed", "beat"} => target = nil \/ AllOf(target)

Consistent == Chain /\ FoundOne /\ TargetOne

\* Every step preserves the invariant: the calls that succeed extend the chain,
\* those that fail leave the turn.
LEMMA ConsistentStep == TypeOK /\ Consistent /\ [Next]_vars => Consistent'
<1> SUFFICES ASSUME TypeOK, Consistent, [Next]_vars PROVE Consistent'
  OBVIOUS
<1> USE MasterAssumption
    DEF TypeOK, Consistent, Chain, FoundOne, TargetOne, AllOf, Addr, NotFound,
        fixed, envVars, vpnVars, beatVars, Fail
<1>1. CASE Top \/ Tick \/ TickCancelled
  BY <1>1 DEF Top, Tick, TickCancelled
<1>2. CASE RegisterOk \/ RegisterFails \/ UnzipOk \/ UnzipFails
  BY <1>2 DEF RegisterOk, RegisterFails, UnzipOk, UnzipFails
<1>3. CASE StopOk \/ StopFails \/ StartOk \/ StartFails
  BY <1>3 DEF StopOk, AfterStop, StopFails, StartOk, StartFails
<1>4. CASE IpOk \/ IpFails \/ HostsOk \/ HostsFails
  BY <1>4 DEF IpOk, IpFails, HostsOk, HostsFails, HostsError
<1>5. CASE ParseOk \/ ParseFails
  BY <1>5 DEF ParseOk, ParseMasterIP, ParseFails
<1>6. CASE Found \/ RouteOk \/ RouteFails \/ MasterIPChanged
  BY <1>6 DEF Found, RouteOk, RouteFails, MasterIPChanged
<1>7. CASE BeatFails \/ Cancel \/ GatewayChanges
  BY <1>7 DEF BeatFails, Cancel, GatewayChanges
<1>8. CASE UNCHANGED vars
  BY <1>8 DEF vars
<1> HIDE DEF TypeOK, Consistent
<1> QED
  BY <1>1, <1>2, <1>3, <1>4, <1>5, <1>6, <1>7, <1>8 DEF Next, MainNext, Succeeds, Fails

\* The invariant holds in every reachable state.
LEMMA ConsistentAlways == Spec => [](TypeOK /\ Consistent)
<1>1. Init => Consistent
  BY DEF Init, Consistent, Chain, FoundOne, TargetOne
<1>2. TypeOK /\ Consistent /\ [Next]_vars => Consistent'
  BY ConsistentStep
<1>3. QED
  BY <1>1, <1>2, TypeCorrect, PTL DEF Spec

\* Heartbeats never go to one master over the VPN, or with the host entry, of
\* another, whatever failed attempts there were before.
THEOREM OneMasterAlways == Spec => []OneMaster
<1>1. TypeOK /\ Consistent => OneMaster
  BY DEF Consistent, TargetOne, AllOf, OneMaster
<1>2. QED
  BY <1>1, ConsistentAlways, PTL

\* onFirstConnect is called, and the updates start, with the address of the found
\* master in the hosts file and with its VPN up, unless the context is done
\* (FirstConnectHasMaster), whatever failed in earlier attempts.
THEOREM FirstConnectHasMasterAlways == Spec => FirstConnectHasMaster
<1>1. TypeOK /\ Consistent /\ [Next]_vars =>
        [once' # once =>
           ctxDone \/ \E m \in Masters : found.vpn = m /\ hosts = m /\ vpn = m /\ lastVpnIp = m]_vars
  <2> SUFFICES ASSUME TypeOK, Consistent, Next, once' # once
               PROVE  ctxDone \/ \E m \in Masters : found.vpn = m /\ hosts = m /\ vpn = m
                                                     /\ lastVpnIp = m
    BY DEF vars
  <2>1. Found
    BY DEF Next, MainNext, Top, Tick, TickCancelled, Succeeds, RegisterOk, UnzipOk, StopOk, StartOk,
           IpOk, HostsOk, ParseOk, RouteOk, Fails, RegisterFails, UnzipFails, StopFails, StartFails,
           IpFails, HostsFails, ParseFails, RouteFails, MasterIPChanged, BeatFails, Cancel,
           GatewayChanges, beatVars
  <2> QED
    BY <2>1 DEF Found, Consistent, FoundOne, AllOf
<1> QED
  BY <1>1, ConsistentAlways, PTL DEF Spec, FirstConnectHasMaster

-----------------------------------------------------------------------------
(* The heartbeats on the connection *)

\* b.conn is set exactly while beat() may run, it is the only connection that is not
\* closed, and its context is cancelled only after it broke: the reader of an earlier
\* connection in the same slot has ended before.
BeatInv ==
  /\ link \in [Conns -> {"closed", "up", "broken"}]
  /\ conn \in Conns \cup {NoConn}
  /\ bpc \in {"dial", "returned"} <=> conn = NoConn
  /\ conn # NoConn => link[conn] # "closed"
  /\ conn # NoConn /\ conn \in done => link[conn] = "broken"
  /\ OneConnection

\* Every step keeps BeatInv.
LEMMA BeatStep ==
  ASSUME BeatInv, [HeartbeatNext]_heartbeatVars
  PROVE  BeatInv'
<1> USE HeartbeatAssumption DEF BeatInv, OneConnection
<1>1. ASSUME NEW c \in Conns, Connect(c) PROVE BeatInv'
  BY <1>1 DEF Connect
<1>2. CASE ConnectFails
  BY <1>2 DEF ConnectFails
<1>3. CASE Disconnect
  BY <1>3 DEF Disconnect, CloseConn
<1>4. CASE \/ Hello \/ MaxErrorCountExceed \/ WriteOk \/ WriteBroken
           \/ WriteError \/ SendEmpty \/ Done \/ BeatTick
  <2>1. UNCHANGED <<conn, link, done>> /\ bpc \notin {"dial", "returned"}
        /\ bpc' \notin {"dial", "returned"}
    BY <1>4 DEF Hello, MaxErrorCountExceed, WriteOk, WriteBroken,
                WriteError, SendEmpty, Done, BeatTick, Selecting
  <2> QED BY <2>1
<1>5. ASSUME NEW c \in Conns, ReaderEnd(c) PROVE BeatInv'
  BY <1>5 DEF ReaderEnd
<1>6. ASSUME NEW c \in Conns, PeerCloses(c) PROVE BeatInv'
  BY <1>6 DEF PeerCloses
<1>7. CASE UNCHANGED <<bpc, conn, link, done>>
  BY <1>7
<1> HIDE DEF BeatInv
<1> QED
  BY <1>1, <1>2, <1>3, <1>4, <1>5, <1>6, <1>7
  DEF HeartbeatNext, BeatNext, Dial, ReaderNext, Reply, Request,
      CancelBeat, heartbeatVars

\* BeatInv holds at the start.
LEMMA BeatInit == HeartbeatInit => BeatInv
  BY HeartbeatAssumption DEF HeartbeatInit, BeatInv, OneConnection

\* The device manager holds at most one connection of this worker, whatever readers
\* earlier connections have left behind (Beat, disconnect).
THEOREM OneConnectionAlways == HeartbeatSpec => []OneConnection
<1>1. HeartbeatInit => BeatInv
  BY BeatInit
<1>2. BeatInv /\ [HeartbeatNext]_heartbeatVars => BeatInv'
  BY BeatStep
<1>3. BeatInv => OneConnection
  BY DEF BeatInv
<1> QED BY <1>1, <1>2, <1>3, PTL DEF HeartbeatSpec

\* A reader left over from an earlier connection never ends the current beat(): it is
\* left for a fault of its own connection, its own write errors or the cancellation
\* of the caller's context (beat, readFromConn).
THEOREM LeavesForOwnFaultAlways == HeartbeatSpec => LeavesForOwnFault
<1>1. HeartbeatInit => BeatInv
  BY BeatInit
<1>2. BeatInv /\ [HeartbeatNext]_heartbeatVars => BeatInv'
  BY BeatStep
<1>3. BeatInv /\ [HeartbeatNext]_heartbeatVars =>
        [bpc = "select" /\ bpc' = "down" =>
           cancelled \/ link[conn] = "broken" \/ errorCount >= AllowErrorCount]_heartbeatVars
  <2> SUFFICES ASSUME BeatInv, HeartbeatNext, bpc = "select", bpc' = "down"
               PROVE  cancelled \/ link[conn] = "broken" \/ errorCount >= AllowErrorCount
    BY DEF heartbeatVars
  <2>1. \/ MaxErrorCountExceed \/ WriteBroken \/ Done
    BY DEF HeartbeatNext, BeatNext, Dial, ReaderNext, Reply, Request,
           CancelBeat, Disconnect, Hello, WriteOk, WriteError,
           SendEmpty, BeatTick, ConnectFails, Connect, ReaderEnd,
           PeerCloses
  <2> QED
    BY <2>1 DEF BeatInv, MaxErrorCountExceed, ErrorsUsedUp, WriteBroken,
                Done, CtxDone
<1> QED BY <1>1, <1>2, <1>3, PTL DEF HeartbeatSpec, LeavesForOwnFault

\* What the types need: a connect is tried while failures are left, and a reader that
\* replies owes an answer.
HeartbeatTypeInv ==
  /\ HeartbeatTypeOK
  /\ bpc = "dial" => errCount <= AllowErrorCount
  /\ \A c \in Conns : reader[c] = "replying" => owed[c] >= 1

\* A packet goes into a channel that has room, or out of one that is not empty.
LEMMA ChannelKept ==
  ASSUME toBeSent \in Seq(Packet), Len(toBeSent) <= Cap
  PROVE  /\ \A p \in Packet : SendPacket(p) => toBeSent' \in Seq(Packet) /\ Len(toBeSent') <= Cap
         /\ toBeSent # <<>> => Tail(toBeSent) \in Seq(Packet) /\ Len(Tail(toBeSent)) <= Cap
<1>0. Cap \in Nat
  BY HeartbeatAssumption
<1>1. ASSUME NEW p \in Packet, SendPacket(p)
      PROVE  toBeSent' \in Seq(Packet) /\ Len(toBeSent') <= Cap
  BY <1>0, <1>1 DEF SendPacket
<1>2. ASSUME toBeSent # <<>>
      PROVE  Tail(toBeSent) \in Seq(Packet) /\ Len(Tail(toBeSent)) <= Cap
  BY <1>0, <1>2
<1> QED BY <1>1, <1>2

\* Every step keeps the types.
LEMMA HeartbeatTypeStep ==
  ASSUME HeartbeatTypeInv, BeatInv, [HeartbeatNext]_heartbeatVars
  PROVE  HeartbeatTypeInv'
<1> USE HeartbeatAssumption DEF HeartbeatTypeInv, HeartbeatTypeOK
<1>p. {"workerID", "report", "empty"} = Packet
  BY DEF Packet
<1>1. ASSUME NEW c \in Conns, Connect(c) PROVE HeartbeatTypeInv'
  BY <1>1 DEF Connect
<1>2. CASE ConnectFails
  <2>1. errCount' \in 0 .. AllowErrorCount + 1 /\ (bpc' = "dial" => errCount' <= AllowErrorCount)
        /\ bpc' \in {"dial", "returned"}
    BY <1>2 DEF ConnectFails, TooManyErrors
  <2> QED BY <1>2, <2>1 DEF ConnectFails
<1>3. CASE Disconnect
  <2>1. conn \in Conns
    BY <1>3 DEF Disconnect, BeatInv
  <2> QED BY <1>3, <2>1 DEF Disconnect, CloseConn
<1>4. CASE Hello \/ SendEmpty
  <2>1. toBeSent' \in Seq(Packet) /\ Len(toBeSent') <= Cap
    BY <1>4, <1>p, ChannelKept DEF Hello, SendEmpty
  <2> QED BY <1>4, <2>1 DEF Hello, SendEmpty
<1>5. CASE WriteOk \/ WriteBroken \/ WriteError
  <2>1. toBeSent' \in Seq(Packet) /\ Len(toBeSent') <= Cap
    BY <1>5, ChannelKept DEF WriteOk, WriteBroken, WriteError
  <2>2. errorCount' \in 0 .. AllowErrorCount
    BY <1>5 DEF WriteOk, WriteBroken, WriteError, Selecting, ErrorsUsedUp
  <2> QED BY <1>5, <2>1, <2>2 DEF WriteOk, WriteBroken, WriteError, Selecting
<1>6. CASE MaxErrorCountExceed \/ BeatTick \/ Done
  BY <1>6 DEF MaxErrorCountExceed, BeatTick, Done
<1>7. ASSUME NEW c \in Conns, NEW n \in 1 .. MaxRequires, Request(c, n) PROVE HeartbeatTypeInv'
  BY <1>7 DEF Request
<1>8. ASSUME NEW c \in Conns, Reply(c) PROVE HeartbeatTypeInv'
  <2>1. toBeSent' \in Seq(Packet) /\ Len(toBeSent') <= Cap
    BY <1>8, <1>p, ChannelKept DEF Reply
  <2>2. owed[c] \in 1 .. MaxRequires
    BY <1>8 DEF Reply
  <2>3. owed' \in [Conns -> 0 .. MaxRequires] /\ reader' \in [Conns -> {"idle", "reading", "replying"}]
        /\ \A d \in Conns : reader'[d] = "replying" => owed'[d] >= 1
    BY <1>8, <2>2 DEF Reply
  <2> QED BY <1>8, <2>1, <2>3 DEF Reply
<1>9. ASSUME NEW c \in Conns, ReaderEnd(c) \/ PeerCloses(c) PROVE HeartbeatTypeInv'
  BY <1>9 DEF ReaderEnd, PeerCloses
<1>10. CASE CancelBeat \/ UNCHANGED heartbeatVars
  BY <1>10 DEF CancelBeat, heartbeatVars
<1> HIDE DEF HeartbeatTypeInv
<1> QED
  BY <1>1, <1>2, <1>3, <1>4, <1>5, <1>6, <1>7, <1>8, <1>9, <1>10
  DEF HeartbeatNext, BeatNext, Dial, ReaderNext

\* The client keeps its types for any channel and any limits: toBeSent never exceeds
\* its capacity, and Beat and beat() stop counting errors at their limits.
THEOREM HeartbeatTypeCorrect == HeartbeatSpec => []HeartbeatTypeOK
<1>1. HeartbeatInit => HeartbeatTypeInv
  <2> SUFFICES ASSUME HeartbeatInit PROVE HeartbeatTypeInv
    OBVIOUS
  <2>1. toBeSent \in Seq(Packet) /\ Len(toBeSent) <= Cap
    BY HeartbeatAssumption DEF HeartbeatInit
  <2>2. /\ errCount \in 0 .. AllowErrorCount + 1 /\ errCount <= AllowErrorCount
        /\ errorCount \in 0 .. AllowErrorCount
        /\ owed \in [Conns -> 0 .. MaxRequires]
    BY HeartbeatAssumption DEF HeartbeatInit
  <2>3. cancelled \in BOOLEAN
    BY DEF HeartbeatInit
  <2> QED BY <2>1, <2>2, <2>3 DEF HeartbeatInit, HeartbeatTypeInv, HeartbeatTypeOK
<1>2. HeartbeatTypeInv => HeartbeatTypeOK
  BY DEF HeartbeatTypeInv
<1> QED BY <1>1, <1>2, BeatInit, BeatStep, HeartbeatTypeStep, PTL DEF HeartbeatSpec

=============================================================================

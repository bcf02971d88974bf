-------------------------- MODULE MasterConnection --------------------------
(***************************************************************************)
(* The connection to the IoTEdge master: core/register/register.go and     *)
(* side_effect.go, with internal/network/vpn and the hosts file of         *)
(* internal/network/dns.                                                   *)
(*                                                                         *)
(* MaintainMasterConnection is one goroutine. It registers with the DHCP   *)
(* server, unpacks the VPN configuration it is sent, restarts the VPN,     *)
(* saves the master's address, reconfigures the clients of the master and  *)
(* sends heartbeats until they fail; then it starts over. Every call of    *)
(* the chain may fail and leave the files and the VPN half changed. The    *)
(* context may be cancelled at any time.                                   *)
(*                                                                         *)
(* An address, a VPN configuration and a VPN are represented by the master *)
(* they belong to; nil is the empty address, no file, or a VPN that is     *)
(* down.                                                                   *)
(***************************************************************************)

CONSTANTS
  Masters,
  Modes, \* the VPN modes of the device: a subset of VpnModes
  nil

VpnModes == {"openvpn", "wireguard"}

ASSUME MasterAssumption ==
  /\ nil \notin Masters
  /\ Modes \subseteq VpnModes

VARIABLES
  mode,      \* device.Vpn, fixed
  public,    \* Config.HeartBeatThroughPublic, fixed
  pc,        \* control point of MaintainMasterConnection
  ctxDone,   \* the context is cancelled
  info,      \* registerInfo: the master the DHCP server answered with
  file,      \* the configuration file in the directory of the VPN
  vpn,       \* the configuration the VPN was last brought up with, or nil
  lastVpnIp, \* the node's address in the VPN
  hosts,     \* the entry for master.iotedge in dnsmasq.hosts
  found,     \* what retryfindMaster returned: public and VPN address
  target,    \* heartbeatIP
  once,      \* onFirstConnect has been called
  gateway    \* the current network interface has a gateway route

fixed == <<mode, public>>
envVars == <<ctxDone, gateway>>
vpnVars == <<file, vpn, lastVpnIp, hosts>>
beatVars == <<found, target, once>>
vars == <<mode, public, pc, ctxDone, info, file, vpn, lastVpnIp, hosts, found, target,
          once, gateway>>

Addr == Masters \cup {nil}

TypeOK ==
  /\ mode \in Modes /\ public \in BOOLEAN
  /\ pc \in {"top", "tick", "register", "unzip", "stop", "start", "ip", "hosts",
             "parse", "found", "route", "changed", "beat", "returned"}
  /\ ctxDone \in BOOLEAN
  /\ info \in Addr /\ file \in Addr /\ vpn \in Addr
  /\ lastVpnIp \in Addr /\ hosts \in Addr /\ target \in Addr
  /\ found \in [public : Addr, vpn : Addr]
  /\ once \in BOOLEAN
  /\ gateway \in BOOLEAN

NotFound == [public |-> nil, vpn |-> nil]

\* The VPN may be up from before the start of edge-guard; TrySetupDnsConfig has
\* reset the hosts file.
Init ==
  /\ mode \in Modes /\ public \in BOOLEAN
  /\ pc = "top"
  /\ ctxDone = FALSE
  /\ info = nil
  /\ file \in Addr
  /\ vpn \in {nil, file}
  /\ lastVpnIp = nil
  /\ hosts = nil
  /\ found = NotFound
  /\ target = nil
  /\ once = FALSE
  /\ gateway \in BOOLEAN

-----------------------------------------------------------------------------
(* The loops *)

\* The select at the top of MaintainMasterConnection.
Top ==
  /\ pc = "top"
  /\ pc' = IF ctxDone THEN "returned" ELSE "tick"
  /\ UNCHANGED <<fixed, envVars, info, vpnVars, beatVars>>

\* retryfindMaster: the ticker fires.
Tick ==
  /\ pc = "tick"
  /\ pc' = "register"
  /\ UNCHANGED <<fixed, envVars, info, vpnVars, beatVars>>

\* Mutant: retryfindMaster does not look at the context.
TickDeaf == FALSE

\* retryfindMaster: the context is done. It returns two empty addresses.
TickCancelled ==
  /\ pc = "tick"
  /\ ctxDone
  /\ pc' = "found"
  /\ found' = NotFound
  /\ UNCHANGED <<fixed, envVars, info, vpnVars, target, once>>

-----------------------------------------------------------------------------
(* findMasterFromDHCPServer *)

\* Any failing call sends retryfindMaster back to its ticker.
Fail ==
  /\ pc' = "tick"
  /\ info' = nil

\* register: the server names a master, in the header of its answer, and sends the
\* VPN configuration for it.
RegisterOk ==
  /\ pc = "register"
  /\ \E m \in Masters : info' = m
  /\ pc' = "unzip"
  /\ UNCHANGED <<fixed, envVars, vpnVars, beatVars>>

RegisterFails ==
  /\ pc = "register"
  /\ Fail
  /\ UNCHANGED <<fixed, envVars, vpnVars, beatVars>>

\* vpn.updateConfig
UnzipOk ==
  /\ pc = "unzip"
  /\ file' = info
  /\ pc' = "stop"
  /\ UNCHANGED <<fixed, envVars, info, vpn, lastVpnIp, hosts, beatVars>>

\* Unpacking fails, with the old, already the new, or a truncated file in place.
UnzipFails ==
  /\ pc = "unzip"
  /\ file' \in {file, info, nil}
  /\ Fail
  /\ UNCHANGED <<fixed, envVars, vpn, lastVpnIp, hosts, beatVars>>

\* Mutant: stopping a service that is not running is an error.
CanStopRunning == vpn # nil

\* systemctl stop succeeds for a service that is not running; wg-quick down
\* fails for an interface that is not there.
CanStop == mode = "openvpn" \/ vpn # nil

\* Mutant: the VPN is not stopped, only started again.
StillRunning(v) == v

\* What a successful vpn.stop leaves of the VPN.
AfterStop(v) == nil

StopOk ==
  /\ pc = "stop"
  /\ CanStop
  /\ vpn' = AfterStop(vpn)
  /\ pc' = "start"
  /\ UNCHANGED <<fixed, envVars, info, file, lastVpnIp, hosts, beatVars>>

StopFails ==
  /\ pc = "stop"
  /\ Fail
  /\ UNCHANGED <<fixed, envVars, vpnVars, beatVars>>

\* A VPN that is up keeps the configuration it was brought up with.
StartOk ==
  /\ pc = "start"
  /\ vpn' = IF vpn = nil THEN file ELSE vpn
  /\ pc' = "ip"
  /\ UNCHANGED <<fixed, envVars, info, file, lastVpnIp, hosts, beatVars>>

\* The time-out of openvpn's retries, or the one attempt of wireguard.
StartFails ==
  /\ pc = "start"
  /\ Fail
  /\ UNCHANGED <<fixed, envVars, vpnVars, beatVars>>

IpOk ==
  /\ pc = "ip"
  /\ lastVpnIp' = vpn
  /\ pc' = "hosts"
  /\ UNCHANGED <<fixed, envVars, info, file, vpn, hosts, beatVars>>

\* No address within the time-out; the VPN stays up.
IpFails ==
  /\ pc = "ip"
  /\ Fail
  /\ UNCHANGED <<fixed, envVars, vpnVars, beatVars>>

\* dns.SaveMasterIPToHostFile
HostsOk ==
  /\ pc = "hosts"
  /\ hosts' = info
  /\ pc' = "parse"
  /\ UNCHANGED <<fixed, envVars, info, file, vpn, lastVpnIp, beatVars>>

\* What findMasterFromDHCPServer makes of the error of SaveMasterIPToHostFile.
HostsError == Fail

\* Reading fails, or writing does, which has truncated the file: with the old entry,
\* none, or already the new one.
HostsFails ==
  /\ pc = "hosts"
  /\ hosts' \in {hosts, nil, info}
  /\ HostsError
  /\ UNCHANGED <<fixed, envVars, file, vpn, lastVpnIp, beatVars>>

\* The address in the "remote" or "Endpoint" line of a configuration file.
ParseMasterIP(f) == f

ParseOk ==
  /\ pc = "parse"
  /\ found' = [public |-> ParseMasterIP(file), vpn |-> info]
  /\ info' = nil
  /\ pc' = "found"
  /\ UNCHANGED <<fixed, envVars, vpnVars, target, once>>

ParseFails ==
  /\ pc = "parse"
  /\ Fail
  /\ UNCHANGED <<fixed, envVars, vpnVars, beatVars>>

-----------------------------------------------------------------------------
(* The rest of a turn of MaintainMasterConnection *)

\* The first time, onFirstConnect reports the version and starts the updates.
Found ==
  /\ pc = "found"
  /\ once' = TRUE
  /\ IF public
     THEN pc' = "route" /\ UNCHANGED target
     ELSE pc' = "changed" /\ target' = found.vpn
  /\ UNCHANGED <<fixed, envVars, info, vpnVars, found>>

\* The public address is routed over the current interface.
RouteOk ==
  /\ pc = "route"
  /\ gateway
  /\ target' = found.public
  /\ pc' = "changed"
  /\ UNCHANGED <<fixed, envVars, info, vpnVars, found, once>>

\* There is no gateway route or it cannot be replaced: everything again.
RouteFails ==
  /\ pc = "route"
  /\ pc' = "top"
  /\ found' = NotFound
  /\ UNCHANGED <<fixed, envVars, info, vpnVars, target, once>>

\* onMasterIPChanged: the configurations of consul and telegraf, which nothing
\* here reads back, are written and their containers restarted; errors are only
\* logged.
MasterIPChanged ==
  /\ pc = "changed"
  /\ pc' = "beat"
  /\ UNCHANGED <<fixed, envVars, info, vpnVars, found, target, once>>

\* AliveReport returns: the heartbeats have failed too often.
BeatFails ==
  /\ pc = "beat"
  /\ pc' = "top"
  /\ found' = NotFound /\ target' = nil
  /\ UNCHANGED <<fixed, envVars, info, vpnVars, once>>

-----------------------------------------------------------------------------

Cancel ==
  /\ ~ctxDone
  /\ ctxDone' = TRUE
  /\ UNCHANGED <<fixed, pc, info, vpnVars, beatVars, gateway>>

\* The goroutine of MaintainBestIFace and the network around it.
GatewayChanges ==
  /\ public
  /\ gateway' = ~gateway
  /\ UNCHANGED <<fixed, pc, info, vpnVars, beatVars, ctxDone>>

Succeeds ==
  \/ RegisterOk \/ UnzipOk \/ StopOk \/ StartOk \/ IpOk \/ HostsOk \/ ParseOk \/ RouteOk

Fails ==
  \/ RegisterFails \/ UnzipFails \/ StopFails \/ StartFails \/ IpFails
  \/ HostsFails \/ ParseFails \/ RouteFails

MainNext == Top \/ Tick \/ TickCancelled \/ Succeeds \/ Fails \/ Found \/ MasterIPChanged

Next == MainNext \/ BeatFails \/ Cancel \/ GatewayChanges

Spec == Init /\ [][Next]_vars

\* The goroutine runs. A select with two ready cases does not choose the same
\* one for ever, and a call that is repeated again and again and may succeed
\* does so at last: without that no retry loop is of use. A heartbeat need not
\* fail, nobody has to cancel.
Fairness ==
  /\ WF_vars(MainNext)
  /\ SF_vars(TickCancelled)
  /\ SF_vars(RegisterOk) /\ SF_vars(UnzipOk) /\ SF_vars(StopOk) /\ SF_vars(StartOk)
  /\ SF_vars(IpOk) /\ SF_vars(HostsOk) /\ SF_vars(ParseOk) /\ SF_vars(RouteOk)

FairSpec == Spec /\ Fairness

-----------------------------------------------------------------------------
(* Properties *)

\* Heartbeats go to the master whose VPN is up, in which the node has the address
\* it tells the clients of the master, and whose address resolves as
\* master.iotedge, whatever earlier, half finished attempts with other masters
\* have left behind.
OneMaster ==
  pc = "beat" /\ target # nil =>
    /\ file = target /\ vpn = target /\ lastVpnIp = target /\ hosts = target

\* The updates begin when a master has been found: at that moment its address
\* resolves, its VPN is up and the node has an address in it, unless the node is being
\* shut down. (Later turns may fail and leave no entry.)
FirstConnectHasMaster ==
  [][once' # once =>
       ctxDone \/ \E m \in Masters : found.vpn = m /\ hosts = m /\ vpn = m /\ lastVpnIp = m]_vars

\* The same for a device with openvpn, whatever fails on the way and however often,
\* provided that the network interface settles.
OpenvpnMasterReached ==
  <>[](public => gateway) => (mode = "openvpn" /\ pc # "beat" ~> pc = "beat" \/ ctxDone)

\* Cancelling ends the search: the loop returns or is in the heartbeat.
CancelEndsSearch == ctxDone ~> pc \in {"beat", "returned"}

=============================================================================

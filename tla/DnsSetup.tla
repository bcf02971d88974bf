------------------------------ MODULE DnsSetup ------------------------------
(***************************************************************************)
(* The DNS configuration edge-guard makes each time it starts:             *)
(* TrySetupDnsConfig of internal/network/dns/setup.go, and                 *)
(* EnsureDockerDNSConfig of lowapi/docker/setup.go. Every step may fail;   *)
(* its error is logged and the next step follows. edge-guard may be killed *)
(* between two steps or between the two halves of one, and starts again.   *)
(* NetworkManager, systemd-resolved and dhclient write /etc/resolv.conf on *)
(* their own, and the bootstrap command forces AddMasterDns.               *)
(***************************************************************************)
EXTENDS Integers

CONSTANTS
  Services, \* NetworkManager and systemd-resolved
  MaxSetups \* bound: the times edge-guard starts

ASSUME DnsAssumption == MaxSetups \in Nat

VARIABLES
  at,        \* the step TrySetupDnsConfig is at, or "off"
  failed,    \* one of its Guarding steps has failed (history)
  setups,    \* the calls of TrySetupDnsConfig
  services,  \* the services running that write /etc/resolv.conf
  resolv,    \* /etc/resolv.conf: absent, as another has written it, or ours
  locked,    \* it has the immutable attribute, which an old version had set
  hooks,     \* dhclient-enter-hooks.d: absent, empty, the vendor's, with our hook
  hooksBak,  \* dhclient-enter-hooks.d.bak is there
  etcHosts,  \* the names in /etc/hosts
  held,      \* those read by appendHostnameHosts
  upstream,  \* /etc/dnsmasq.d/dnsmasq.conf: absent, empty, with the servers
  writer,    \* writer[w]: where AddMasterDns is, in the setup and in bootstrap
  docker,    \* the dns of docker: unset, in daemon.json, in use
  cut        \* the upstream file was left empty by a kill or a failing write (history)

dnsVars == <<at, failed, setups, services, resolv, locked, hooks, hooksBak,
             etcHosts, held, upstream, writer, docker, cut>>

\* TrySetupDnsConfig: what follows each step.
TrySetupDnsConfig ==
  [off |-> "services", services |-> "unlock", unlock |-> "enterHooks", enterHooks |-> "hook",
   hook |-> "resolv", resolv |-> "resolvWrite", resolvWrite |-> "dnsmasq",
   dnsmasq |-> "hosts", hosts |-> "dnsmasqHosts", hostsWrite |-> "dnsmasqHosts",
   dnsmasqHosts |-> "upstream", upstream |-> "docker", docker |-> "done"]

Steps == DOMAIN TrySetupDnsConfig \ {"off"}

\* The steps that give resolv.conf to dnsmasq and keep the others from it.
Guarding == {"services", "hook", "resolvWrite"}

Names == {"admin", "alias", "worker", "mongo"}
Writers == {"setup", "bootstrap"}

DnsTypeOK ==
  /\ at \in Steps \cup {"off", "done"} /\ failed \in BOOLEAN
  /\ setups \in 0 .. MaxSetups
  /\ services \subseteq Services
  /\ resolv \in {"absent", "foreign", "dnsmasq"} /\ locked \in BOOLEAN
  /\ hooks \in {"absent", "empty", "vendor", "ours"} /\ hooksBak \in BOOLEAN
  /\ etcHosts \subseteq Names /\ held \subseteq Names
  /\ upstream \in {"absent", "empty", "servers"}
  /\ writer \in [Writers -> {"idle", "lookup", "open", "write"}]
  /\ docker \in {"unset", "written", "inUse"} /\ cut \in BOOLEAN

\* A device on which edge-guard has not run, or an old version has.
DnsInit ==
  /\ at = "off" /\ failed = FALSE /\ setups = 0
  /\ services = Services
  /\ resolv = "foreign" /\ locked \in BOOLEAN
  /\ hooks \in {"absent", "vendor"} /\ hooksBak = FALSE
  /\ etcHosts = {"admin", "alias"} /\ held = {}
  /\ upstream = "absent" /\ writer = [w \in Writers |-> "idle"]
  /\ docker = "unset" /\ cut = FALSE

-----------------------------------------------------------------------------
(* The steps *)

Setup ==
  /\ at = "off" /\ setups < MaxSetups
  /\ setups' = setups + 1
  /\ at' = TrySetupDnsConfig[at] /\ UNCHANGED failed
  /\ UNCHANGED <<services, resolv, locked, hooks, hooksBak, etcHosts, held, upstream,
                 writer, docker, cut>>

\* The step at s has come to its end, without or with an error.
Step(s, ok) ==
  /\ at = s
  /\ at' = TrySetupDnsConfig[s]
  /\ failed' = (failed \/ (~ok /\ s \in Guarding))
  /\ UNCHANGED setups

\* A step whose error comes before it has changed anything. (The bare WriteFiles
\* that fail half-way are made again at the next start.)
Fails ==
  /\ \E s \in Steps \ {"services", "hostsWrite", "upstream"} : Step(s, FALSE)
  /\ UNCHANGED <<services, resolv, locked, hooks, hooksBak, etcHosts, held, upstream,
                 writer, docker, cut>>

\* Each of the two is stopped and disabled, or not.
StopDisableService ==
  \E left \in SUBSET services :
    /\ services' = left
    /\ Step("services", left = {})
    /\ UNCHANGED <<resolv, locked, hooks, hooksBak, etcHosts, held, upstream, writer,
                   docker, cut>>

unlockResolvConf ==
  /\ Step("unlock", TRUE)
  /\ locked' = FALSE
  /\ UNCHANGED <<services, resolv, hooks, hooksBak, etcHosts, held, upstream, writer,
                 docker, cut>>

\* The vendor's hooks are moved away, once; without hooks Rename fails.
removeDHCPEnterHooks ==
  /\ Step("enterHooks", hooksBak \/ hooks # "absent")
  /\ hooks' = IF hooksBak THEN hooks ELSE "absent"
  /\ hooksBak' = (hooksBak \/ hooks # "absent")
  /\ UNCHANGED <<services, resolv, locked, etcHosts, held, upstream, writer, docker, cut>>

\* The directory may be made and the write fail.
applyDHCPResolveUpdateHooks ==
  /\ \/ Step("hook", TRUE) /\ hooks' = "ours"
     \/ Step("hook", FALSE) /\ hooks' = IF hooks = "absent" THEN "empty" ELSE hooks
  /\ UNCHANGED <<services, resolv, locked, hooksBak, etcHosts, held, upstream, writer,
                 docker, cut>>

\* resetResolv, whose Remove may fail unnoticed, and then writes the file.
resetResolv ==
  /\ \/ Step("resolv", TRUE) /\ ~locked /\ resolv' = "absent"
     \/ Step("resolvWrite", TRUE) /\ ~locked /\ resolv' = "dnsmasq"
  /\ UNCHANGED <<services, locked, hooks, hooksBak, etcHosts, held, upstream, writer,
                 docker, cut>>

\* The interface lo:0 is configured and brought up, and dnsmasq.conf written, which has
\* no other writer and is written anew each time.
resetDNSMasqConf ==
  /\ Step("dnsmasq", TRUE)
  /\ UNCHANGED <<services, resolv, locked, hooks, hooksBak, etcHosts, held, upstream, writer,
                 docker, cut>>

\* The last word of each line of /etc/hosts is kept, the other names of the line
\* ("alias") are not, and the file is emptied ...
appendHostnameHosts ==
  /\ at = "hosts" /\ at' = "hostsWrite"
  /\ held' = (etcHosts \ {"alias"}) \cup {"worker", "mongo"}
  /\ etcHosts' = {}
  /\ UNCHANGED <<failed, setups, services, resolv, locked, hooks, hooksBak, upstream,
                 writer, docker, cut>>

\* ... and written again; an error of WriteString is not looked at.
writeHosts ==
  /\ Step("hostsWrite", TRUE)
  /\ etcHosts' = held \/ UNCHANGED etcHosts
  /\ held' = {}
  /\ UNCHANGED <<services, resolv, locked, hooks, hooksBak, upstream, writer, docker, cut>>

\* dnsmasq.hosts is written anew. Its other writer is SaveMasterIPToHostFile, of the
\* search for a master (MasterConnection), which starts after the setup has returned.
resetHostFile ==
  /\ Step("dnsmasqHosts", TRUE)
  /\ UNCHANGED <<services, resolv, locked, hooks, hooksBak, etcHosts, held, upstream, writer,
                 docker, cut>>

\* A failing restart of docker is not made up for at the next start: the dns is
\* in daemon.json by then.
EnsureDockerDNSConfig ==
  /\ \/ docker # "unset" /\ Step("docker", TRUE) /\ UNCHANGED docker
     \/ docker = "unset" /\ Step("docker", TRUE) /\ docker' = "inUse"
     \/ docker = "unset" /\ Step("docker", FALSE) /\ docker' = "written"
  /\ UNCHANGED <<services, resolv, locked, hooks, hooksBak, etcHosts, held, upstream,
                 writer, cut>>

-----------------------------------------------------------------------------
(* AddMasterDns: of the setup, unless the file is there; of bootstrap, always *)

AddMasterDns(w) ==
  /\ writer[w] = "idle"
  /\ w = "setup" => at = "upstream"
  /\ \/ /\ w = "setup" /\ upstream # "absent"
        /\ Step("upstream", TRUE) /\ UNCHANGED writer
     \/ /\ w = "bootstrap" \/ upstream = "absent"
        /\ writer' = [writer EXCEPT ![w] = "lookup"]
        /\ UNCHANGED <<at, failed, setups>>
  /\ UNCHANGED <<services, resolv, locked, hooks, hooksBak, etcHosts, held, upstream,
                 docker, cut>>

\* AddMasterDns of w returns.
Returns(w, ok) ==
  /\ writer' = [writer EXCEPT ![w] = "idle"]
  /\ IF w = "setup" THEN Step("upstream", ok) ELSE UNCHANGED <<at, failed, setups>>

\* Mutant: the file is opened before the address is looked up.
OpensFirst(w) ==
  /\ writer[w] = "lookup" /\ upstream' = "empty"
  /\ \/ writer' = [writer EXCEPT ![w] = "open"] /\ UNCHANGED <<at, failed, setups>>
     \/ Returns(w, FALSE)
  /\ UNCHANGED <<services, resolv, locked, hooks, hooksBak, etcHosts, held, docker, cut>>

\* GetDevice and LookupIP, each of which may fail.
LookupIP(w) ==
  /\ writer[w] = "lookup"
  /\ \/ writer' = [writer EXCEPT ![w] = "open"] /\ UNCHANGED <<at, failed, setups>>
     \/ Returns(w, FALSE)
  /\ UNCHANGED <<services, resolv, locked, hooks, hooksBak, etcHosts, held, upstream,
                 docker, cut>>

\* The file is made or emptied; opening it may fail.
OpenUpstream(w) ==
  /\ writer[w] = "open"
  /\ \/ /\ upstream' = "empty" /\ writer' = [writer EXCEPT ![w] = "write"]
        /\ UNCHANGED <<at, failed, setups>>
     \/ Returns(w, FALSE) /\ UNCHANGED upstream
  /\ UNCHANGED <<services, resolv, locked, hooks, hooksBak, etcHosts, held, docker, cut>>

WriteUpstream(w) ==
  /\ writer[w] = "write"
  /\ \/ Returns(w, TRUE) /\ upstream' = "servers" /\ UNCHANGED cut
     \/ Returns(w, FALSE) /\ UNCHANGED upstream /\ cut' = TRUE
  /\ UNCHANGED <<services, resolv, locked, hooks, hooksBak, etcHosts, held, docker>>

-----------------------------------------------------------------------------
(* The system around it *)

\* A service that runs writes what it knows.
ServiceWrites ==
  /\ services # {} /\ ~locked
  /\ resolv' = "foreign"
  /\ UNCHANGED <<at, failed, setups, services, locked, hooks, hooksBak, etcHosts, held,
                 upstream, writer, docker, cut>>

\* dhclient has a lease: without hooks it writes resolv.conf, the vendor's keep it
\* from doing so, and ours redirects it.
DhclientWrites ==
  /\ hooks \in {"absent", "empty"} /\ ~locked
  /\ resolv' = "foreign"
  /\ UNCHANGED <<at, failed, setups, services, locked, hooks, hooksBak, etcHosts, held,
                 upstream, writer, docker, cut>>

\* edge-guard ends: by itself after the setup, or killed in the middle.
GuardEnds ==
  /\ at # "off"
  /\ at' = "off" /\ failed' = FALSE /\ held' = {}
  /\ cut' = (cut \/ writer["setup"] = "write")
  /\ writer' = [writer EXCEPT !["setup"] = "idle"]
  /\ UNCHANGED <<setups, services, resolv, locked, hooks, hooksBak, etcHosts, upstream, docker>>

DnsNext ==
  \/ Setup \/ Fails \/ StopDisableService \/ unlockResolvConf \/ removeDHCPEnterHooks
  \/ applyDHCPResolveUpdateHooks \/ resetResolv \/ resetDNSMasqConf \/ appendHostnameHosts
  \/ writeHosts \/ resetHostFile \/ EnsureDockerDNSConfig
  \/ \E w \in Writers : AddMasterDns(w) \/ LookupIP(w) \/ OpenUpstream(w) \/ WriteUpstream(w)
  \/ ServiceWrites \/ DhclientWrites \/ GuardEnds

-----------------------------------------------------------------------------
(* Properties *)

\* After a setup whose guarding steps went well, whatever else failed and at
\* whichever point earlier starts were killed, nobody takes resolv.conf away from
\* dnsmasq again.
ResolvHeld == at = "done" /\ ~failed => resolv = "dnsmasq"

\* A failing lookup, or one that is cut off by a kill, leaves no upstream file without
\* servers, which every later start would take for done (AddMasterDns). A failing
\* write does, and so does a kill between the opening of the file and its write.
UpstreamWhole == upstream = "empty" => cut \/ \E w \in Writers : writer[w] = "write"

\* What TrySetupDnsConfig leaves behind holds: resolv.conf through failing steps, kills
\* and the other writers, the upstream file through failing lookups.
DnsHolds == ResolvHeld /\ UpstreamWhole

=============================================================================

------------------------------- MODULE Device -------------------------------
(***************************************************************************)
(* The identity of the device: core/device/gen.go and the bootstrap        *)
(* command (cmd/bootstrap.go), which registers it; the clean command       *)
(* removes it (cmd/clean.go).                                              *)
(*                                                                         *)
(* The file /edge/init holds a Device. A key is what the host that issued  *)
(* it is; the worker id comes from the hardware and is the same each time. *)
(***************************************************************************)
EXTENDS Integers

CONSTANTS
  Hosts,         \* the hosts a registration may name
  Types,         \* the device types /etc/device may name
  Arch,          \* what edge-guard is built for
  MaxBootstraps, \* the number of bootstrap commands
  None

ASSUME DeviceAssumption == Hosts # {} /\ MaxBootstraps \in Nat

NoKey == "none"
Blank == [id |-> FALSE, key |-> NoKey, host |-> NoKey, vpn |-> NoKey]
VPNs == {"wireguard", "openvpn", "local"}

VARIABLES
  initFile, \* /edge/init, or None
  hostname, \* it has been set to the worker id
  type,     \* what /etc/device names, or None
  restore,  \* the directory /restore of an installation is there
  cached,   \* the device edge-guard has read, or None
  cmd,      \* the bootstrap command: [pc, dev, install, host, mode]
  torn,     \* a command was killed while it wrote the file (history)
  bootstraps

deviceVars == <<initFile, hostname, type, restore, cached, cmd, torn, bootstraps>>

DeviceType ==
  [id : BOOLEAN, key : Hosts \cup {NoKey}, host : Hosts \cup {NoKey}, vpn : VPNs \cup {NoKey}]

DeviceTypeOK ==
  /\ initFile \in DeviceType \cup {None} /\ cached \in DeviceType \cup {None}
  /\ hostname \in BOOLEAN /\ torn \in BOOLEAN
  /\ type \in Types \cup {None} /\ restore \in BOOLEAN
  /\ cmd \in [pc : {"none", "device", "id", "name", "write", "request", "register", "dns",
                    "restore"},
              dev : DeviceType, install : BOOLEAN, host : Hosts, mode : VPNs \cup {"random"}]
  /\ bootstraps \in 0 .. MaxBootstraps

NoCmd == [pc |-> "none", dev |-> Blank, install |-> FALSE, host |-> CHOOSE h \in Hosts : TRUE,
          mode |-> "random"]

DeviceInit ==
  /\ initFile = None /\ hostname = FALSE /\ cached = None
  /\ type \in Types \cup {None} /\ restore = TRUE
  /\ cmd = NoCmd
  /\ torn = FALSE /\ bootstraps = 0

\* getDevice: a missing file is made, an empty one is a Device without values.
Read == IF initFile = None THEN Blank ELSE initFile

\* GetDevice of edge-guard reads the file once.
GetDevice ==
  /\ cached = None
  /\ cached' = Read
  /\ initFile' = Read
  /\ UNCHANGED <<hostname, type, restore, cmd, torn, bootstraps>>

\* edge-guard ends, and will read the file again.
Forget ==
  /\ cached # None
  /\ cached' = None
  /\ UNCHANGED <<initFile, hostname, type, restore, cmd, torn, bootstraps>>

-----------------------------------------------------------------------------
(* The bootstrap command *)

\* Without a ticket it fails at once, which changes nothing.
Bootstrap ==
  /\ cmd.pc = "none" /\ bootstraps < MaxBootstraps
  /\ bootstraps' = bootstraps + 1
  /\ \E i \in BOOLEAN, h \in Hosts, m \in {"random", "local"} :
       cmd' = [pc |-> "device", dev |-> Blank, install |-> i, host |-> h, mode |-> m]
  /\ UNCHANGED <<initFile, hostname, type, restore, cached, torn>>

\* A panic: cleanBootstrap removes the file if it does not exist, that is, never.
Failed ==
  /\ cmd.pc \in {"device", "id", "name", "write", "request", "register", "dns", "restore"}
  /\ cmd' = NoCmd
  /\ UNCHANGED <<initFile, hostname, type, restore, cached, torn, bootstraps>>

BootstrapDevice ==
  /\ cmd.pc = "device"
  /\ cmd' = [cmd EXCEPT !.pc = "id", !.dev = Read]
  /\ initFile' = Read
  /\ UNCHANGED <<hostname, type, restore, cached, torn, bootstraps>>

\* GetDeviceType, where None is its panic: without the file the type is that of the
\* architecture, of which the code knows the names "arm64" and "x86".
GetDeviceType ==
  IF type # None THEN type
  ELSE IF Arch = "arm64" THEN "arm" ELSE IF Arch = "x86" THEN "x86" ELSE None

\* The types for which buildRK3399ID or buildNanoID may find an id: buildX86ID
\* returns an error on every platform.
IDTypes == {"arm", "rk3399", "rk3399pro", "rk1808", "nano", "tx2"}

\* A device of no known type has no id.
BuildWokerID ==
  /\ cmd.pc = "id" /\ GetDeviceType \in IDTypes
  /\ cmd' = [cmd EXCEPT !.pc = "name"]
  /\ UNCHANGED <<initFile, hostname, type, restore, cached, torn, bootstraps>>

SetHostname ==
  /\ cmd.pc = "name"
  /\ hostname' = TRUE
  /\ cmd' = [cmd EXCEPT !.pc = "write", !.dev.id = TRUE]
  /\ UNCHANGED <<initFile, type, restore, cached, torn, bootstraps>>

\* UpdateDeviceInfo writes the file with the worker id.
UpdateDeviceInfo ==
  /\ cmd.pc = "write"
  /\ initFile' = cmd.dev
  /\ cmd' = [cmd EXCEPT !.pc = IF cmd.install THEN "restore" ELSE "request"]
  /\ UNCHANGED <<hostname, type, restore, cached, torn, bootstraps>>

\* Mutant: the file is written before the key is there.
WriteFirst ==
  /\ cmd.pc = "request"
  /\ \E v \in IF cmd.mode = "random" THEN {"wireguard", "openvpn"} ELSE {cmd.mode} :
       /\ cmd' = [cmd EXCEPT !.pc = "register", !.dev.host = cmd.host, !.dev.vpn = v,
                             !.dev.key = cmd.host]
       /\ initFile' = [cmd.dev EXCEPT !.host = cmd.host, !.vpn = v]
  /\ UNCHANGED <<hostname, type, restore, cached, torn, bootstraps>>

\* BuildDeviceInfo: the host and the VPN are set, the key is requested.
RequestKey ==
  /\ cmd.pc = "request"
  /\ \E v \in IF cmd.mode = "random" THEN {"wireguard", "openvpn"} ELSE {cmd.mode} :
       cmd' = [cmd EXCEPT !.pc = "register", !.dev.host = cmd.host, !.dev.vpn = v,
                          !.dev.key = cmd.host]
  /\ UNCHANGED <<initFile, hostname, type, restore, cached, torn, bootstraps>>

Register ==
  /\ cmd.pc = "register"
  /\ initFile' = cmd.dev
  /\ cmd' = [cmd EXCEPT !.pc = "dns"]
  /\ UNCHANGED <<hostname, type, restore, cached, torn, bootstraps>>

\* AddMasterDns: the end of a registration.
BootstrapDone ==
  /\ cmd.pc = "dns"
  /\ cmd' = NoCmd
  /\ UNCHANGED <<initFile, hostname, type, restore, cached, torn, bootstraps>>

\* The end of an installation: the images are loaded and the script is run, if they
\* are there, and /restore is removed. A failing script leaves it for the next time.
Restore ==
  /\ cmd.pc = "restore"
  /\ cmd' = NoCmd
  /\ restore' = FALSE
  /\ UNCHANGED <<initFile, hostname, type, cached, torn, bootstraps>>

\* The command is killed inside WriteFile, which has emptied the file.
Killed ==
  /\ cmd.pc \in {"write", "register"}
  /\ initFile' = Blank /\ torn' = TRUE
  /\ cmd' = NoCmd
  /\ UNCHANGED <<hostname, type, restore, cached, bootstraps>>

\* The clean command.
Clean ==
  /\ initFile # None /\ cmd.pc = "none"
  /\ initFile' = None
  /\ UNCHANGED <<hostname, type, restore, cached, cmd, torn, bootstraps>>

DeviceNext ==
  \/ GetDevice \/ Forget
  \/ Bootstrap \/ Failed \/ BootstrapDevice \/ BuildWokerID \/ SetHostname
  \/ UpdateDeviceInfo \/ RequestKey \/ Register \/ BootstrapDone \/ Restore \/ Killed \/ Clean

-----------------------------------------------------------------------------
\* The device never presents a key to a host that did not issue it, in whichever
\* step a registration fails or is killed (BuildDeviceInfo, UpdateDeviceInfo), and a
\* device with a key has a worker id and a host name.
KeyOfHost ==
  \A d \in {initFile, cached} \ {None} :
    d.key # NoKey => d.key = d.host /\ d.vpn # NoKey /\ d.id /\ hostname

=============================================================================

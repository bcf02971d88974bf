-------------------------- MODULE EdgeGuardProofs --------------------------
(***************************************************************************)
(* Theorems about the parts of EdgeGuard, for every set of hosts, versions,*)
(* requests, cards and bounds.                                             *)
(***************************************************************************)
EXTENDS EdgeGuard, TLAPS

-----------------------------------------------------------------------------
(* Device *)

\* A device with a key presents it to the host that issued it.
Keyed(d) == d.key # NoKey => d.key = d.host /\ d.vpn # NoKey /\ d.id /\ hostname

\* A command has set the host name before it writes, and what it holds, like the
\* file and the copy of edge-guard, is never a key of another host.
DeviceInv ==
  /\ initFile \in DeviceType \cup {None} /\ cached \in DeviceType \cup {None}
  /\ cmd \in [pc : {"none", "device", "id", "name", "write", "request", "register", "dns",
                    "restore"},
              dev : DeviceType, install : BOOLEAN, host : Hosts, mode : VPNs \cup {"random"}]
  /\ KeyOfHost
  /\ Keyed(cmd.dev)
  /\ cmd.pc \in {"write", "request", "register"} => hostname /\ cmd.dev.id

\* A Device without values is a Device without a key.
LEMMA BlankDevice == Blank \in DeviceType /\ Blank.key = NoKey
  BY DEF Blank, DeviceType, NoKey

\* Between two commands nothing is held.
LEMMA NoCmdIdle ==
  /\ NoCmd \in [pc : {"none"}, dev : {Blank}, install : BOOLEAN, host : Hosts, mode : {"random"}]
  /\ NoCmd.pc = "none" /\ NoCmd.dev = Blank
  BY DeviceAssumption DEF NoCmd

\* Every step of the device's files and of a registration keeps DeviceInv.
LEMMA DeviceStep ==
  ASSUME DeviceInv, DeviceNext \/ UNCHANGED deviceVars
  PROVE  DeviceInv'
<1> USE BlankDevice DEF DeviceInv, KeyOfHost, Keyed
<1>r. Read \in DeviceType /\ Keyed(Read)
  BY DEF Read
<1>n. NoCmd.pc = "none" /\ NoCmd.dev = Blank
      /\ NoCmd \in [pc : {"none", "device", "id", "name", "write", "request", "register", "dns",
                    "restore"},
              dev : DeviceType, install : BOOLEAN, host : Hosts, mode : VPNs \cup {"random"}]
  BY NoCmdIdle
<1>1. CASE GetDevice
  BY <1>1, <1>r DEF GetDevice
<1>2. CASE Forget
  BY <1>2 DEF Forget
<1>3. CASE Bootstrap
  BY <1>3 DEF Bootstrap, VPNs
<1>4. CASE Failed
  BY <1>4, <1>n DEF Failed
<1>5. CASE BootstrapDevice
  BY <1>5, <1>r DEF BootstrapDevice
<1>6. CASE BuildWokerID
  BY <1>6 DEF BuildWokerID
<1>7. CASE SetHostname
  <2>1. cmd'.dev = [cmd.dev EXCEPT !.id = TRUE] /\ cmd'.dev \in DeviceType
    BY <1>7 DEF SetHostname, DeviceType
  <2>2. cmd' \in [pc : {"write"}, dev : DeviceType, install : BOOLEAN, host : Hosts,
                  mode : VPNs \cup {"random"}]
    BY <1>7, <2>1 DEF SetHostname
  <2>3. cmd'.dev.id /\ cmd'.dev.key = cmd.dev.key /\ cmd'.dev.host = cmd.dev.host
        /\ cmd'.dev.vpn = cmd.dev.vpn
    BY <2>1 DEF DeviceType
  <2> QED
    BY <1>7, <2>2, <2>3 DEF SetHostname
<1>8. CASE UpdateDeviceInfo
  BY <1>8 DEF UpdateDeviceInfo
<1>9. CASE RequestKey
  <2>1. PICK v \in IF cmd.mode = "random" THEN {"wireguard", "openvpn"} ELSE {cmd.mode} :
          cmd' = [cmd EXCEPT !.pc = "register", !.dev.host = cmd.host, !.dev.vpn = v,
                             !.dev.key = cmd.host]
    BY <1>9 DEF RequestKey
  <2>2. v \in VPNs /\ v # NoKey
    BY <2>1 DEF VPNs, NoKey
  <2>3. cmd'.dev = [cmd.dev EXCEPT !.host = cmd.host, !.vpn = v, !.key = cmd.host]
    BY <2>1 DEF DeviceType
  <2>4. cmd'.dev \in DeviceType
    BY <2>2, <2>3 DEF DeviceType
  <2>5. cmd' \in [pc : {"register"}, dev : DeviceType, install : BOOLEAN, host : Hosts,
                  mode : VPNs \cup {"random"}]
    BY <2>1, <2>4
  <2>6. cmd'.dev.id = cmd.dev.id /\ cmd'.dev.key = cmd.host /\ cmd'.dev.host = cmd.host
        /\ cmd'.dev.vpn = v
    BY <2>3 DEF DeviceType
  <2>7. hostname /\ cmd.dev.id /\ UNCHANGED <<initFile, hostname, cached>>
    BY <1>9 DEF RequestKey
  <2> QED
    BY <2>2, <2>5, <2>6, <2>7
<1>10. CASE Register
  BY <1>10 DEF Register
<1>11. CASE BootstrapDone
  BY <1>11, <1>n DEF BootstrapDone
<1>12. CASE Restore
  BY <1>12, <1>n DEF Restore
<1>13. CASE Killed
  BY <1>13, <1>n DEF Killed
<1>14. CASE Clean
  BY <1>14 DEF Clean
<1>15. CASE UNCHANGED deviceVars
  BY <1>15 DEF deviceVars
<1> HIDE DEF DeviceInv, KeyOfHost, Keyed
<1> QED
  BY <1>1, <1>2, <1>3, <1>4, <1>5, <1>6, <1>7, <1>8, <1>9, <1>10, <1>11, <1>12, <1>13, <1>14,
     <1>15 DEF DeviceNext

\* A key is only ever presented to the host that issued it, in whichever step a
\* registration fails or is killed (KeyOfHost), for any hosts and any number of
\* registrations.
THEOREM KeyOfHostAlways == Spec => []KeyOfHost
<1>1. Init => DeviceInv
  BY NoCmdIdle, BlankDevice DEF Init, DeviceInit, DeviceInv, KeyOfHost, Keyed
<1>2. DeviceInv /\ [Next]_vars => DeviceInv'
  BY DeviceStep DEF Next, vars
<1>3. DeviceInv => KeyOfHost
  BY DEF DeviceInv
<1> QED
  BY <1>1, <1>2, <1>3, PTL DEF Spec

-----------------------------------------------------------------------------
(* Mount *)

\* An event of the card is still to be handled.
Pending == \E i \in DOMAIN events : events[i] = "card"

\* A link goes with a mount unless a command for it failed. As long as no change went
\* unnoticed, what tryMount has seen holds or an event of a later change is pending,
\* a listener without such an event has followed the card, and what was mounted
\* before a restart has its card.
MountInv ==
  /\ card \in Nat /\ mounted \in Nat /\ inserted \in Nat
  /\ linked \in BOOLEAN /\ unseen \in BOOLEAN /\ unlinked \in BOOLEAN
  /\ events \in Seq({"card", "other"})
  /\ lpc \in {"off", "init", "initTry", "initCheck", "initAct", "start", "wait", "try", "check",
              "act"}
  /\ seen \in [card : BOOLEAN, mount : BOOLEAN]
  /\ ~Watching => events = <<>>
  /\ Acting => (seen.mount <=> mounted # 0)
  /\ ~unlinked => (linked <=> mounted # 0)
  /\ ~unseen =>
       /\ lpc \in {"off", "init"} => (mounted # 0 => card # 0)
       /\ lpc \in {"initCheck", "initAct"} => (seen.card <=> card # 0)
       /\ lpc \in {"check", "act"} => (seen.card <=> card # 0) \/ Pending
       /\ lpc \in {"start", "wait"} => (mounted # 0 <=> card # 0) \/ Pending

\* What a change of the directory does to the pending events.
LEMMA NotifyEvents ==
  ASSUME MountInv, NEW e \in {"card", "other"}, Notify(e)
  PROVE  /\ events' \in Seq({"card", "other"}) /\ unseen' \in BOOLEAN
         /\ ~Watching => events' = <<>>
         /\ Pending => Pending'
         /\ ~unseen' => ~unseen
         /\ ~unseen' /\ e = "card" => Pending' /\ Watching
<1>1. CASE Watching /\ Len(events) < EventBuffer
  <2>1. events' = Append(events, e) /\ (unseen' <=> unseen) /\ unseen' \in BOOLEAN
    BY <1>1 DEF Notify, MountInv
  <2>2. /\ events' \in Seq({"card", "other"}) /\ DOMAIN events' = 1 .. Len(events) + 1
        /\ events'[Len(events) + 1] = e /\ Len(events) \in Nat
        /\ \A i \in DOMAIN events : i \in DOMAIN events' /\ events'[i] = events[i]
    BY <2>1 DEF MountInv
  <2> QED
    BY <1>1, <2>1, <2>2 DEF Pending
<1>2. CASE ~(Watching /\ Len(events) < EventBuffer)
  <2>1. /\ events' = events /\ unseen' \in BOOLEAN
        /\ unseen' <=> unseen \/ e = "card"
    BY <1>2 DEF Notify, MountInv
  <2> QED
    BY <2>1 DEF MountInv, Pending
<1> QED
  BY <1>1, <1>2

\* Taking an event loses none of the others.
LEMMA TakenEvents ==
  ASSUME MountInv, events # <<>>, events' = Tail(events)
  PROVE  /\ events' \in Seq({"card", "other"})
         /\ Pending /\ Head(events) # "card" => Pending'
<1>1. /\ events' \in Seq({"card", "other"}) /\ Len(events) \in Nat \ {0}
      /\ DOMAIN events = 1 .. Len(events) /\ DOMAIN events' = 1 .. Len(events) - 1
      /\ \A i \in 1 .. Len(events) - 1 : events'[i] = events[i + 1]
      /\ Head(events) = events[1]
  BY DEF MountInv
<1>2. ASSUME NEW i \in DOMAIN events, events[i] = "card", Head(events) # "card" PROVE Pending'
  <2>1. i - 1 \in DOMAIN events' /\ events'[i - 1] = events[i]
    BY <1>1, <1>2
  <2> QED
    BY <1>2, <2>1 DEF Pending
<1> QED
  BY <1>1, <1>2 DEF Pending

\* Every change of the directory, every step of the listener, every restart and
\* every reboot keeps MountInv.
LEMMA MountStep ==
  ASSUME MountInv, MountNext \/ UNCHANGED mountVars
  PROVE  MountInv'
<1> USE DEF MountInv, Watching, Acting
<1>0. events' = events => (Pending' <=> Pending)
  BY DEF Pending
<1>1. CASE CardIn
  <2>1. /\ card' # 0 /\ card' \in Nat /\ inserted' \in Nat /\ Notify("card")
        /\ UNCHANGED <<mounted, linked, lpc, seen, unlinked>> /\ card = 0
    BY <1>1 DEF CardIn
  <2> QED
    BY <2>1, NotifyEvents
<1>2. CASE CardOut
  <2>1. /\ card' = 0 /\ inserted' \in Nat /\ Notify("card")
        /\ UNCHANGED <<mounted, linked, lpc, seen, unlinked>>
    BY <1>2 DEF CardOut
  <2> QED
    BY <2>1, NotifyEvents
<1>3. CASE OtherFile
  <2>1. Notify("other") /\ UNCHANGED <<card, mounted, linked, inserted, lpc, seen, unlinked>>
    BY <1>3 DEF OtherFile
  <2> QED
    BY <2>1, NotifyEvents
<1>4. CASE InitTF
  BY <1>4, <1>0 DEF InitTF
<1>5. CASE Watch
  BY <1>5, <1>0 DEF Watch
<1>6. CASE TakeEvent
  BY <1>6, TakenEvents DEF TakeEvent
<1>7. CASE CheckTfCard
  BY <1>7, <1>0 DEF CheckTfCard
<1>8. CASE CheckMount
  <2>1. UNCHANGED <<card, mounted, linked, inserted, events, unlinked>>
    BY <1>8 DEF CheckMount
  <2>2. CASE Return /\ unseen' = TRUE /\ UNCHANGED seen
    <3>1. lpc' \in {"wait", "start"} /\ (lpc' = "wait" <=> lpc = "check")
      BY <1>8, <2>2 DEF CheckMount, Return
    <3> QED
      BY <1>8, <2>1, <2>2, <3>1, <1>0 DEF CheckMount
  <2>3. CASE /\ seen' = [seen EXCEPT !.mount = mounted # 0] /\ UNCHANGED unseen
             /\ lpc' = IF lpc = "check" THEN "act" ELSE "initAct"
    <3>1. /\ seen' \in [card : BOOLEAN, mount : BOOLEAN]
          /\ seen'.mount <=> mounted # 0
          /\ seen'.card <=> seen.card
      BY <2>3
    <3>2. \/ lpc = "check" /\ lpc' = "act"
          \/ lpc = "initCheck" /\ lpc' = "initAct"
      BY <1>8, <2>3 DEF CheckMount
    <3> QED
      BY <2>1, <2>3, <3>1, <3>2, <1>0
  <2> QED
    BY <1>8, <2>2, <2>3 DEF CheckMount
<1>9. CASE DoMount
  <2>1. UNCHANGED <<card, inserted, events, seen>> /\ ~seen.mount /\ seen.card
    BY <1>9 DEF DoMount
  <2>2. \/ lpc = "act" /\ lpc' = "wait"
        \/ lpc = "initAct" /\ lpc' = "start"
    BY <1>9 DEF DoMount, Return
  <2>3. CASE card # 0 /\ mounted' = card /\ linked' = TRUE /\ unlinked' = FALSE /\ UNCHANGED unseen
    BY <2>1, <2>2, <2>3, <1>0
  <2>4. CASE card # 0 /\ mounted' = card /\ linked' \in {linked, FALSE} /\ unlinked' = TRUE
             /\ UNCHANGED unseen
    BY <2>1, <2>2, <2>4, <1>0
  <2>5. CASE unseen' = TRUE /\ UNCHANGED <<mounted, linked, unlinked>>
    BY <2>1, <2>2, <2>5
  <2> QED
    BY <1>9, <2>3, <2>4, <2>5 DEF DoMount
<1>10. CASE Unmount
  <2>1. UNCHANGED <<card, inserted, events, seen>> /\ seen.mount /\ ~seen.card
    BY <1>10 DEF Unmount
  <2>2. \/ lpc = "act" /\ lpc' = "wait"
        \/ lpc = "initAct" /\ lpc' = "start"
    BY <1>10 DEF Unmount, Return
  <2>3. CASE mounted' = 0 /\ Unlinks /\ UNCHANGED unseen
    BY <2>1, <2>2, <2>3, <1>0 DEF Unlinks
  <2>4. CASE unseen' = TRUE /\ UNCHANGED <<mounted, linked, unlinked>>
    BY <2>1, <2>2, <2>4
  <2> QED
    BY <1>10, <2>3, <2>4 DEF Unmount
<1>11. CASE NoCard
  <2>1. UNCHANGED <<card, mounted, inserted, events, seen, unseen>> /\ ~seen.mount /\ ~seen.card
    BY <1>11 DEF NoCard
  <2>2. \/ lpc = "act" /\ lpc' = "wait"
        \/ lpc = "initAct" /\ lpc' = "start"
    BY <1>11 DEF NoCard, Return
  <2>3. linked' \in BOOLEAN /\ unlinked' \in BOOLEAN /\ (~unlinked' => ~linked') /\ mounted = 0
    BY <1>11, <2>1 DEF NoCard, Unlinks
  <2> QED
    BY <2>1, <2>2, <2>3, <1>0
<1>12. CASE IsMounted
  <2>1. UNCHANGED <<card, mounted, linked, inserted, events, seen, unseen, unlinked>>
        /\ seen.mount /\ seen.card
    BY <1>12 DEF IsMounted
  <2>2. \/ lpc = "act" /\ lpc' = "wait"
        \/ lpc = "initAct" /\ lpc' = "start"
    BY <1>12 DEF IsMounted, Return
  <2> QED
    BY <2>1, <2>2, <1>0
<1>13. CASE GuardStops
  <2>1. /\ lpc' = "off" /\ events' = <<>>
        /\ UNCHANGED <<card, mounted, linked, inserted, seen, unlinked>>
        /\ unseen' \in BOOLEAN
        /\ ~unseen' => ~unseen /\ ~Pending /\ lpc \in {"off", "init", "start", "wait"}
    BY <1>13 DEF GuardStops, InTryMount, Pending
  <2>2. events' \in Seq({"card", "other"})
    BY <2>1
  <2> QED
    BY <2>1, <2>2
<1>14. CASE Reboot
  BY <1>14, <1>0 DEF Reboot
<1>15. CASE GuardStarts
  BY <1>15, <1>0 DEF GuardStarts
<1>16. CASE UNCHANGED mountVars
  BY <1>16, <1>0 DEF mountVars
<1> HIDE DEF MountInv, Watching, Acting
<1> QED
  BY <1>1, <1>2, <1>3, <1>4, <1>5, <1>6, <1>7, <1>8, <1>9, <1>10, <1>11, <1>12, <1>13, <1>14,
     <1>15, <1>16 DEF MountNext

\* A listener with nothing left to do has something mounted if and only if a card is
\* there, and a link if and only if something is mounted, with the exceptions
\* MountFollowsCard names, for any number of cards, of restarts and of reboots, and
\* any size of the event channel.
THEOREM MountFollowsCardAlways == Spec => []MountFollowsCard
<1>1. Init => MountInv
  <2> SUFFICES ASSUME Init PROVE MountInv
    OBVIOUS
  <2>1. /\ card = 0 /\ mounted = 0 /\ inserted = 0 /\ events = <<>> /\ lpc = "init"
        /\ linked \in BOOLEAN /\ unseen \in BOOLEAN /\ ~linked /\ unlinked \in BOOLEAN
        /\ seen \in [card : BOOLEAN, mount : BOOLEAN]
    BY DEF Init, MountInit
  <2> QED
    BY <2>1 DEF MountInv, Acting
<1>2. MountInv /\ [Next]_vars => MountInv'
  BY MountStep DEF Next, vars
<1>3. MountInv => MountFollowsCard
  BY DEF MountInv, MountFollowsCard, Pending
<1> QED
  BY <1>1, <1>2, <1>3, PTL DEF Spec

-----------------------------------------------------------------------------
(* Updates *)

\* A set of pairs that is a map, as a VersionInfo is.
IsMap(t) == \A p, q \in t : p[1] = q[1] => p = q

Busy == \E h \in Setters : set[h].pc # "idle"

\* The loop need not look at the target again by itself.
Excused == missed \/ dropped \/ restart \/ Busy

\* From its look at the versions to its end, an update has everything before it that
\* is still to be installed, or somebody has changed the target since.
UpdateInv ==
  /\ set \in [Setters -> [pc : {"idle", "assign", "write", "signal"}, to : Targets \cup {{}}]]
  /\ loop = [pc |-> loop.pc, need |-> loop.need]
  /\ loop.pc \in {"off", "try", "test", "claim", "install", "return", "wait"}
  /\ missed \in BOOLEAN /\ dropped \in BOOLEAN /\ restart \in BOOLEAN
  /\ IsMap(tfile) /\ IsMap(target)
  /\ UpdatingIsReal
  /\ loop.pc # "install" => current = Current(installed)
  /\ loop.pc \in {"test", "claim", "install"} =>
       \/ Excused
       \/ loop.need \subseteq target /\ NeedUpdate(Current(installed), target) \subseteq loop.need
  /\ loop.pc \in {"return", "wait"} => Excused \/ NeedUpdate(current, target) = {}

\* The sets a request or a file may give as a target are maps.
LEMMA TargetsAreMaps ==
  /\ \A t \in Targets \cup {{}} : IsMap(t)
  /\ \A text : IsMap({<<JX, text>>}) /\ IsMap(Current(text))
  BY UpdateManagerAssumption DEF IsMap, Current

\* Of the packages only the toolset has a version that is known.
LEMMA CurrentIsJX == \A text : \A q \in Current(text) : q[1] = JX
<1> SUFFICES ASSUME NEW text, NEW q \in Current(text) PROVE q[1] = JX
  OBVIOUS
<1>1. q = <<JX, <<text[1], FALSE>>>>
  BY DEF Current
<1> QED
  BY <1>1

\* Every step of the loop keeps UpdateInv.
LEMMA LoopStep ==
  ASSUME UpdateInv, Start \/ TryUpdate \/ LoopTest \/ LoopClaim \/ AptInstall \/ LoopFinish
                    \/ LoopWaits
  PROVE  UpdateInv'
<1> USE DEF UpdateInv, UpdatingIsReal, Excused, Busy, IsMap
<1>1. CASE Start
  BY <1>1 DEF Start
<1>2. CASE TryUpdate
  BY <1>2 DEF TryUpdate, NeedUpdate
<1>3. CASE LoopTest
  BY <1>3 DEF LoopTest, NeedUpdate
<1>4. CASE LoopClaim
  BY <1>4 DEF LoopClaim, NeedUpdate
<1>5. CASE AptInstall
  <2>1. PICK p \in loop.need, ok \in BOOLEAN :
          /\ loop' = [loop EXCEPT !.need = @ \ {p}]
          /\ installed' = IF ok /\ p[1] = JX THEN <<p[2][1], installed[2]>> ELSE installed
          /\ missed' = (missed \/ ~ok \/ NeedUpdate(Current(installed'), {p}) # {})
    BY <1>5 DEF AptInstall
  <2>2. /\ loop.pc = "install" /\ loop'.pc = "install" /\ loop'.need = loop.need \ {p}
        /\ loop' = [pc |-> loop'.pc, need |-> loop'.need]
        /\ UNCHANGED <<alive, tfile, target, current, status, set, zip, restart, dropped>>
        /\ missed' \in BOOLEAN
    BY <1>5, <2>1 DEF AptInstall
  <2>3. ASSUME ~Excused'
        PROVE  /\ ~Excused /\ ok /\ p = <<JX, <<installed'[1], FALSE>>>>
               /\ Current(installed') = {p}
    BY <2>1, <2>2, <2>3 DEF NeedUpdate, Current
  <2>4. ASSUME ~Excused'
        PROVE  loop'.need \subseteq target' /\
               NeedUpdate(Current(installed'), target') \subseteq loop'.need
    <3>1. loop.need \subseteq target /\ NeedUpdate(Current(installed), target) \subseteq loop.need
      BY <2>2, <2>3, <2>4
    <3>2. ASSUME NEW q \in target, q # p PROVE q \in loop.need
      <4>1. p \in target /\ q[1] # JX
        BY <2>3, <2>4, <3>1, <3>2
      <4>2. q \notin Current(installed)
        BY <4>1, CurrentIsJX
      <4> QED
        BY <3>1, <3>2, <4>2 DEF NeedUpdate
    <3> QED
      BY <2>2, <2>3, <2>4, <3>1, <3>2 DEF NeedUpdate
  <2> QED
    BY <2>2, <2>4
<1>6. CASE LoopFinish
  BY <1>6 DEF LoopFinish, NeedUpdate
<1>7. CASE LoopWaits
  BY <1>7 DEF LoopWaits
<1> QED
  BY <1>1, <1>2, <1>3, <1>4, <1>5, <1>6, <1>7

\* So does every step of a request that sets the target.
LEMMA SetStep ==
  ASSUME UpdateInv, NEW h \in Setters,
         (\E to \in Targets : SetTargetVersion(h, to)) \/ SetAssign(h) \/ SetWrite(h) \/ SetSignal(h)
  PROVE  UpdateInv'
<1> USE DEF UpdateInv, UpdatingIsReal, Excused, Busy, NoSet
<1>1. ASSUME NEW to \in Targets, SetTargetVersion(h, to) PROVE UpdateInv'
  BY <1>1 DEF SetTargetVersion, IsMap
<1>2. CASE SetAssign(h)
  BY <1>2, TargetsAreMaps DEF SetAssign
<1>3. CASE SetWrite(h)
  <2>1. UNCHANGED <<alive, installed, target, current, status, loop, zip, restart, dropped>>
    BY <1>3 DEF SetWrite
  <2>2. CASE tfile' = set[h].to /\ set' = [set EXCEPT ![h].pc = "signal"] /\ UNCHANGED missed
    <3>1. IsMap(tfile')
      BY <2>2, TargetsAreMaps
    <3>2. set'[h].pc # "idle"
      BY <2>2
    <3> QED
      BY <2>1, <2>2, <3>1, <3>2 DEF IsMap
  <2>3. CASE set' = [set EXCEPT ![h] = NoSet] /\ missed' = TRUE /\ tfile' \in {tfile, {}}
    BY <2>1, <2>3 DEF IsMap
  <2> QED
    BY <1>3, <2>2, <2>3 DEF SetWrite
<1>4. CASE SetSignal(h)
  <2>1. /\ set' = [set EXCEPT ![h] = NoSet] /\ set[h].pc = "signal"
        /\ UNCHANGED <<alive, installed, tfile, target, current, status, zip, restart, missed>>
    BY <1>4 DEF SetSignal
  <2>2. set' \in [Setters -> [pc : {"idle", "assign", "write", "signal"}, to : Targets \cup {{}}]]
    BY <2>1
  <2>3. CASE loop.pc = "wait"
    <3>1. loop' = [pc |-> "try", need |-> loop.need] /\ dropped' = dropped
      BY <1>4, <2>3 DEF SetSignal
    <3> QED
      BY <2>1, <2>2, <2>3, <3>1 DEF IsMap
  <2>4. CASE loop.pc # "wait"
    <3>1. loop' = loop /\ dropped' = TRUE
      BY <1>4, <2>4 DEF SetSignal
    <3> QED
      BY <2>1, <2>2, <2>4, <3>1 DEF IsMap
  <2> QED
    BY <2>3, <2>4
<1> QED
  BY <1>1, <1>2, <1>3, <1>4

\* And so does everything else.
LEMMA UpdateStep ==
  ASSUME UpdateInv, UpdateNext \/ Exit \/ Boot \/ UNCHANGED updateVars
  PROVE  UpdateInv'
<1>1. CASE UpdateWithZip
  BY <1>1 DEF UpdateWithZip, UpdateInv, UpdatingIsReal, Excused, Busy, IsMap
<1>2. CASE ZipClaim
  BY <1>2 DEF ZipClaim, UpdateInv, UpdatingIsReal, Excused, Busy, IsMap
<1>3. CASE ZipInstall
  <2>1. status' = "finished" /\ UNCHANGED <<alive, tfile, target, loop, set, missed, dropped>>
    BY <1>3 DEF ZipInstall
  <2>2. CASE current' = Current(installed') /\ restart' = TRUE
    BY <2>1, <2>2 DEF UpdateInv, UpdatingIsReal, Excused, IsMap
  <2>3. CASE UNCHANGED <<installed, current, restart>>
    BY <2>1, <2>3 DEF UpdateInv, UpdatingIsReal, Excused, Busy, IsMap
  <2> QED
    BY <1>3, <2>2, <2>3 DEF ZipInstall
<1>4. CASE SyncVersion
  BY <1>4, TargetsAreMaps DEF SyncVersion, UpdateInv, UpdatingIsReal, Excused, Busy
<1>5. CASE Exit
  <2>1. IsMap(tfile')
    BY <1>5, TargetsAreMaps DEF Exit, UpdateInv
  <2>2. /\ UNCHANGED <<installed, target, current, status, loop, set, zip, restart, missed,
                     dropped>>
        /\ ~alive'
    BY <1>5 DEF Exit
  <2> QED
    BY <2>1, <2>2 DEF UpdateInv, UpdatingIsReal, Excused, Busy, IsMap
<1>6. CASE Boot
  BY <1>6 DEF Boot, UpdateInv, UpdatingIsReal, Excused, Busy, NoSet, IsMap
<1>7. CASE UNCHANGED updateVars
  BY <1>7 DEF updateVars, UpdateInv, UpdatingIsReal, Excused, Busy, IsMap
<1> QED
  BY <1>1, <1>2, <1>3, <1>4, <1>5, <1>6, <1>7, LoopStep, SetStep DEF UpdateNext

\* UpdateInv holds in every state of edge-guard.
LEMMA UpdateInvAlways == Spec => []UpdateInv
<1>1. Init => UpdateInv
  <2> SUFFICES ASSUME Init PROVE UpdateInv
    OBVIOUS
  <2>1. set \in [Setters -> [pc : {"idle", "assign", "write", "signal"}, to : Targets \cup {{}}]]
    BY DEF Init, UpdateInit, NoSet
  <2>2. IsMap(tfile) /\ target = tfile
    BY TargetsAreMaps DEF Init, UpdateInit
  <2>3. /\ loop = [pc |-> "off", need |-> {}]
        /\ missed = FALSE /\ dropped = FALSE /\ restart = FALSE
        /\ status = "finished" /\ current = Current(installed)
    BY DEF Init, UpdateInit
  <2> QED
    BY <2>1, <2>2, <2>3 DEF UpdateInv, UpdatingIsReal
<1>2. UpdateInv /\ [Next]_vars => UpdateInv'
  BY UpdateStep
  DEF Next, vars, ServeNext, Lives, Ends, Crash, Serve, Cancel, SetupDone, ContextDone,
      GoAndRestartOnError, TaskStops, RunAndRestartOnError
<1> QED
  BY <1>1, <1>2, PTL DEF Spec

\* The status never says "updating" when no update runs (UpdatingIsReal), for any
\* number of requests, restarts and crashes.
THEOREM UpdatingIsRealAlways == Spec => []UpdatingIsReal
<1>1. UpdateInv => UpdatingIsReal
  BY DEF UpdateInv
<1> QED
  BY <1>1, UpdateInvAlways, PTL

\* A resting loop leaves nothing to be installed, unless a signal or an install is
\* missing, a request is under way or a restart is coming (RestsUpdated), for any
\* versions, packages and requests.
THEOREM RestsUpdatedAlways == Spec => []RestsUpdated
<1>1. UpdateInv => RestsUpdated
  BY DEF UpdateInv, RestsUpdated, Rests, Excused, Busy
<1> QED
  BY <1>1, UpdateInvAlways, PTL

-----------------------------------------------------------------------------
(* The DNS setup *)

\* The steps after resetResolv, after the hook of dhclient, after the services.
AfterResolv == {"dnsmasq", "hosts", "hostsWrite", "dnsmasqHosts", "upstream", "docker", "done"}
AfterHook == AfterResolv \cup {"resolv", "resolvWrite"}
AfterServices == AfterHook \cup {"unlock", "enterHooks", "hook"}

\* What each guarding step has achieved holds from then on.
DnsInv ==
  /\ at \in AfterServices \cup {"off", "services"}
  /\ failed \in BOOLEAN /\ cut \in BOOLEAN
  /\ writer \in [Writers -> {"idle", "lookup", "open", "write"}]
  /\ ~failed =>
       /\ at \in AfterServices => services = {}
       /\ at \in AfterHook => hooks = "ours"
       /\ at \in AfterResolv => resolv = "dnsmasq"
  /\ UpstreamWhole

\* The order of the steps.
LEMMA StepOrder ==
  /\ TrySetupDnsConfig["off"] = "services" /\ TrySetupDnsConfig["services"] = "unlock"
  /\ TrySetupDnsConfig["unlock"] = "enterHooks" /\ TrySetupDnsConfig["enterHooks"] = "hook"
  /\ TrySetupDnsConfig["hook"] = "resolv" /\ TrySetupDnsConfig["resolv"] = "resolvWrite"
  /\ TrySetupDnsConfig["resolvWrite"] = "dnsmasq" /\ TrySetupDnsConfig["dnsmasq"] = "hosts"
  /\ TrySetupDnsConfig["hosts"] = "dnsmasqHosts"
  /\ TrySetupDnsConfig["hostsWrite"] = "dnsmasqHosts"
  /\ TrySetupDnsConfig["dnsmasqHosts"] = "upstream"
  /\ TrySetupDnsConfig["upstream"] = "docker" /\ TrySetupDnsConfig["docker"] = "done"
  BY DEF TrySetupDnsConfig

\* A step that is not a guarding one, or fails, ends without a change to what the
\* guarding steps are about.
LEMMA StepKeeps ==
  ASSUME DnsInv, NEW s \in AfterServices \ {"hostsWrite", "done"}, NEW ok \in BOOLEAN, Step(s, ok),
         s \in Guarding => ~ok,
         UNCHANGED <<services, hooks, resolv, etcHosts, held, upstream, writer, cut>>
  PROVE  DnsInv'
<1> USE DEF AfterServices, AfterHook, AfterResolv
<1>1. at = s /\ at' = TrySetupDnsConfig[s] /\ failed' = (failed \/ (~ok /\ s \in Guarding))
  BY DEF Step
<1>2. failed' \in BOOLEAN /\ (~failed' => ~failed /\ s \notin Guarding)
  BY <1>1 DEF DnsInv
<1>3. at' \in AfterServices /\ at' # "hostsWrite"
  BY <1>1, StepOrder
<1>4. /\ at' \in AfterHook /\ s # "hook" => at \in AfterHook
      /\ at' \in AfterResolv /\ s # "resolvWrite" => at \in AfterResolv
  BY <1>1, StepOrder
<1> QED
  BY <1>1, <1>2, <1>3, <1>4 DEF DnsInv, UpstreamWhole, Guarding

\* Every step of the setup and of those around it keeps DnsInv.
LEMMA DnsStep ==
  ASSUME DnsInv, DnsNext \/ UNCHANGED dnsVars
  PROVE  DnsInv'
<1> USE DEF AfterServices, AfterHook, AfterResolv
<1>1. CASE Setup
  <2>1. at' = "services" /\ failed' = failed
    BY <1>1, StepOrder DEF Setup
  <2> QED
    BY <1>1, <2>1 DEF Setup, DnsInv, UpstreamWhole
<1>2. CASE Fails
  <2>1. PICK s \in Steps \ {"services", "hostsWrite", "upstream"} : Step(s, FALSE)
    BY <1>2 DEF Fails
  <2>2. s \in AfterServices \ {"hostsWrite", "done"}
    BY <2>1 DEF Steps, TrySetupDnsConfig
  <2> QED
    BY <1>2, <2>1, <2>2, StepKeeps DEF Fails
<1>3. CASE StopDisableService
  <2>1. PICK left \in SUBSET services : services' = left /\ Step("services", left = {})
    BY <1>3 DEF StopDisableService
  <2>2. at' = "unlock" /\ failed' = (failed \/ left # {})
    BY <2>1, StepOrder DEF Step, Guarding
  <2>3. failed' \in BOOLEAN /\ (~failed' => services' = {})
    BY <2>1, <2>2 DEF DnsInv
  <2>4. UNCHANGED <<resolv, hooks, etcHosts, held, upstream, writer, cut>> /\ at = "services"
    BY <1>3 DEF StopDisableService, Step
  <2> QED
    BY <2>2, <2>3, <2>4 DEF DnsInv, UpstreamWhole
<1>4. CASE unlockResolvConf \/ resetDNSMasqConf \/ resetHostFile
  BY <1>4, StepKeeps DEF unlockResolvConf, resetDNSMasqConf, resetHostFile, Guarding
<1>5. CASE removeDHCPEnterHooks
  <2>1. /\ at = "enterHooks" /\ at' = "hook" /\ failed' = failed
        /\ UNCHANGED <<services, resolv, etcHosts, held, upstream, writer, cut>>
    BY <1>5, StepOrder DEF removeDHCPEnterHooks, Step, Guarding, DnsInv
  <2> QED
    BY <2>1 DEF DnsInv, UpstreamWhole
<1>6. CASE applyDHCPResolveUpdateHooks
  <2>1. /\ at = "hook" /\ at' = "resolv"
        /\ failed' \in BOOLEAN /\ (~failed' => ~failed /\ hooks' = "ours")
        /\ UNCHANGED <<services, resolv, etcHosts, held, upstream, writer, cut>>
    BY <1>6, StepOrder DEF applyDHCPResolveUpdateHooks, Step, Guarding, DnsInv
  <2> QED
    BY <2>1 DEF DnsInv, UpstreamWhole
<1>7. CASE resetResolv
  <2>1. /\ \/ at = "resolv" /\ at' = "resolvWrite"
           \/ at = "resolvWrite" /\ at' = "dnsmasq" /\ resolv' = "dnsmasq"
        /\ failed' = failed
        /\ UNCHANGED <<services, hooks, etcHosts, held, upstream, writer, cut>>
    BY <1>7, StepOrder DEF resetResolv, Step, DnsInv
  <2> QED
    BY <2>1 DEF DnsInv, UpstreamWhole
<1>8. CASE appendHostnameHosts
  <2>1. /\ at = "hosts" /\ at' = "hostsWrite"         /\ UNCHANGED <<failed, services, resolv, hooks, upstream, writer, cut>>
    BY <1>8 DEF appendHostnameHosts
  <2> QED
    BY <2>1 DEF DnsInv, UpstreamWhole
<1>9. CASE writeHosts
  <2>1. /\ at = "hostsWrite" /\ at' = "dnsmasqHosts" /\ failed' = failed
        /\ UNCHANGED <<services, resolv, hooks, upstream, writer>>
        /\ UNCHANGED cut
    BY <1>9, StepOrder DEF writeHosts, Step, DnsInv
  <2> QED
    BY <2>1 DEF DnsInv, UpstreamWhole
<1>10. CASE EnsureDockerDNSConfig
  BY <1>10, StepKeeps DEF EnsureDockerDNSConfig, Guarding
<1>11. ASSUME NEW w \in Writers, AddMasterDns(w) \/ LookupIP(w) \/ OpenUpstream(w) \/ WriteUpstream(w)
       PROVE  DnsInv'
  <2>1. /\ UNCHANGED <<services, resolv, hooks, etcHosts, held>>
        /\ failed' = failed
        /\ at' = at \/ (at = "upstream" /\ at' = "docker")
    BY <1>11, StepOrder
    DEF AddMasterDns, LookupIP, OpenUpstream, WriteUpstream, Returns, Step, Guarding, DnsInv
  <2>2. /\ writer' \in [Writers -> {"idle", "lookup", "open", "write"}]
        /\ cut' \in BOOLEAN /\ (cut => cut') /\ UpstreamWhole'
    BY <1>11 DEF AddMasterDns, LookupIP, OpenUpstream, WriteUpstream, Returns, DnsInv, UpstreamWhole
  <2> QED
    BY <2>1, <2>2 DEF DnsInv
<1>12. CASE ServiceWrites \/ DhclientWrites
  <2>1. /\ UNCHANGED <<at, failed, services, hooks, etcHosts, held, upstream, writer, cut>>
        /\ services # {} \/ hooks # "ours"
    BY <1>12 DEF ServiceWrites, DhclientWrites
  <2> QED
    BY <2>1 DEF DnsInv, UpstreamWhole
<1>13. CASE GuardEnds
  <2>1. at' = "off" /\ failed' = FALSE /\ UNCHANGED <<services, resolv, hooks, etcHosts, upstream>>
    BY <1>13 DEF GuardEnds
  <2>2. writer' = [writer EXCEPT !["setup"] = "idle"]
        /\ cut' = (cut \/ writer["setup"] = "write")
    BY <1>13 DEF GuardEnds
  <2>3. cut' \in BOOLEAN /\ UpstreamWhole'
    BY <2>1, <2>2 DEF DnsInv, UpstreamWhole, Writers
  <2> QED
    BY <2>1, <2>2, <2>3 DEF DnsInv
<1>14. CASE UNCHANGED dnsVars
  BY <1>14 DEF dnsVars, DnsInv, UpstreamWhole
<1> QED
  BY <1>1, <1>2, <1>3, <1>4, <1>5, <1>6, <1>7, <1>8, <1>9, <1>10, <1>11, <1>12, <1>13, <1>14
  DEF DnsNext

\* What TrySetupDnsConfig leaves behind holds: resolv.conf is that of dnsmasq after a
\* setup that went well, and a lookup that fails leaves no upstream file behind
\* (DnsHolds), for any services and number of starts.
THEOREM DnsHoldsAlways == Spec => []DnsHolds
<1>1. Init => DnsInv
  <2> SUFFICES ASSUME Init PROVE DnsInv
    OBVIOUS
  <2>1. /\ at = "off" /\ failed \in BOOLEAN /\ cut \in BOOLEAN /\ upstream = "absent"
        /\ writer \in [Writers -> {"idle", "lookup", "open", "write"}]
    BY DEF Init, DnsInit
  <2> QED
    BY <2>1 DEF DnsInv, UpstreamWhole, AfterServices, AfterHook, AfterResolv
<1>2. DnsInv /\ [Next]_vars => DnsInv'
  BY DnsStep DEF Next, vars
<1>3. DnsInv => DnsHolds
  BY DEF DnsInv, DnsHolds, ResolvHeld, AfterServices, AfterHook, AfterResolv
<1> QED
  BY <1>1, <1>2, <1>3, PTL DEF Spec

=============================================================================

--------------------------- MODULE UpdateManager ---------------------------
(***************************************************************************)
(* Updates of the installed packages: management/updatemanage, the web     *)
(* handlers UpdateByDeb and UploadAndUpdate, syncVersion of                *)
(* cmd/bootstrap.go, and the restart after an update                       *)
(* (lowapi/system/restart.go, Restart=always of the service).              *)
(*                                                                         *)
(* A VersionInfo is the set of the pairs <<package, version text>> of the  *)
(* map. A version text is a pair: the version, and whether a line end      *)
(* follows it. Of the packages only "jx-toolset" has a version file.       *)
(*                                                                         *)
(* The commands run (apt, aptitude, tar, dpkg) are external: they succeed  *)
(* or fail.                                                                *)
(***************************************************************************)
EXTENDS Integers, FiniteSets

CONSTANTS
  Versions, \* the versions of jx-toolset
  Targets,  \* the target versions a request may name
  Setters,  \* the UpdateByDeb requests that may run at once
  MaxSets,  \* the number of such requests
  MaxBoots  \* the number of times the service is started

ASSUME UpdateManagerAssumption ==
  /\ MaxSets \in Nat /\ MaxBoots \in Nat \ {0}
  /\ \A t \in Targets : IsFiniteSet(t) /\ \A p, q \in t : p[1] = q[1] => p = q

VARIABLES
  alive,     \* edge-guard is running
  installed, \* /edge/VERSION
  tfile,     \* /etc/edgetarget
  target, current, status, \* the updateManager
  loop,      \* updateLoop: [pc, need]
  set,       \* set[h]: request h in SetTargetVersion, [pc, to]
  zip,       \* the UploadAndUpdate request
  restart,   \* an Exit after 5 s is pending
  missed,    \* since the loop last looked an install or a write of the file failed, or
             \* another update was in progress (history)
  dropped,   \* since then a signal was dropped (history)
  sets, boots

updateVars == <<alive, installed, tfile, target, current, status, loop, set, zip, restart,
                missed, dropped, sets, boots>>

Texts == Versions \X BOOLEAN
JX == "jx-toolset"

UpdateTypeOK ==
  /\ alive \in BOOLEAN /\ restart \in BOOLEAN /\ missed \in BOOLEAN
  /\ dropped \in BOOLEAN
  /\ installed \in Texts
  /\ \A t \in {tfile, target, current, loop.need} : \A p \in t : p[2] \in Texts
  /\ status \in {"finished", "updating"}
  /\ loop.pc \in {"off", "try", "test", "claim", "install", "return", "wait"}
  /\ \A h \in Setters : set[h].pc \in {"idle", "assign", "write", "signal"}
  /\ zip \in {"idle", "claim", "install"}
  /\ sets \in 0 .. MaxSets /\ boots \in 1 .. MaxBoots

\* parseCurrentVersionFile trims the text.
Current(text) == {<<JX, <<text[1], FALSE>>>>}

\* getNeedUpdate
NeedUpdate(cur, want) == want \ cur

NoSet == [pc |-> "idle", to |-> {}]

\* NewUpdateManager reads the files.
UpdateInit ==
  /\ alive = TRUE
  /\ installed \in Texts
  /\ tfile \in {Current(installed), {}}
  /\ target = tfile
  /\ current = Current(installed)
  /\ status = "finished"
  /\ loop = [pc |-> "off", need |-> {}]
  /\ set = [h \in Setters |-> NoSet]
  /\ zip = "idle"
  /\ restart = FALSE /\ missed = FALSE /\ dropped = FALSE
  /\ sets = 0 /\ boots = 1

-----------------------------------------------------------------------------
(* updateLoop *)

\* Mutant: the loop waits for a signal before the first update.
StartWaiting ==
  /\ alive /\ loop.pc = "off"
  /\ loop' = [loop EXCEPT !.pc = "wait"]
  /\ UNCHANGED <<alive, installed, tfile, target, current, status, set, zip, restart, missed,
                 dropped, sets, boots>>

\* Start, at the first connection to the master.
Start ==
  /\ alive /\ loop.pc = "off"
  /\ loop' = [loop EXCEPT !.pc = "try"]
  /\ UNCHANGED <<alive, installed, tfile, target, current, status, set, zip, restart, missed,
                 dropped, sets, boots>>

\* tryUpdate compares the versions.
TryUpdate ==
  LET need == NeedUpdate(current, target) IN
  /\ alive /\ loop.pc = "try"
  /\ loop' = [pc |-> IF need = {} THEN "return" ELSE "test", need |-> need]
  /\ missed' = FALSE /\ dropped' = FALSE
  /\ UNCHANGED <<alive, installed, tfile, target, current, status, set, zip, restart, sets,
                 boots>>

\* The status is tested, and set in a step of its own.
LoopTest ==
  /\ alive /\ loop.pc = "test"
  /\ loop' = [loop EXCEPT !.pc = IF status = "updating" THEN "return" ELSE "claim"]
  /\ missed' = (missed \/ status = "updating")
  /\ UNCHANGED <<alive, installed, tfile, target, current, status, set, zip, restart, dropped,
                 sets, boots>>

LoopClaim ==
  /\ alive /\ loop.pc = "claim"
  /\ status' = "updating"
  /\ loop' = [loop EXCEPT !.pc = "install"]
  /\ UNCHANGED <<alive, installed, tfile, target, current, set, zip, restart, missed, dropped,
                 sets, boots>>

\* aptInstall of a package: it succeeds, or fails and the loop goes on.
AptInstall ==
  /\ alive /\ loop.pc = "install"
  /\ \E p \in loop.need, ok \in BOOLEAN :
       /\ loop' = [loop EXCEPT !.need = @ \ {p}]
       /\ installed' = IF ok /\ p[1] = JX THEN <<p[2][1], installed[2]>> ELSE installed
       /\ missed' = (missed \/ ~ok \/ NeedUpdate(Current(installed'), {p}) # {})
  /\ UNCHANGED <<alive, tfile, target, current, status, set, zip, restart, dropped, sets, boots>>

\* The version is read and reported; a restart follows once nothing is missing.
LoopFinish ==
  /\ alive /\ loop.pc = "install" /\ loop.need = {}
  /\ current' = Current(installed)
  /\ restart' = (restart \/ NeedUpdate(current', target) = {})
  /\ status' = "finished"
  /\ loop' = [loop EXCEPT !.pc = "return"]
  /\ UNCHANGED <<alive, installed, tfile, target, set, zip, missed, dropped, sets, boots>>

\* tryUpdate has returned: the loop comes to its receive.
LoopWaits ==
  /\ alive /\ loop.pc = "return"
  /\ loop' = [loop EXCEPT !.pc = "wait"]
  /\ UNCHANGED <<alive, installed, tfile, target, current, status, set, zip, restart, missed,
                 dropped, sets, boots>>

-----------------------------------------------------------------------------
(* SetTargetVersion *)

SetTargetVersion(h, to) ==
  /\ alive /\ set[h].pc = "idle" /\ sets < MaxSets
  /\ sets' = sets + 1
  /\ set' = [set EXCEPT ![h] = IF status = "updating" THEN NoSet
                               ELSE [pc |-> "assign", to |-> to]]
  /\ UNCHANGED <<alive, installed, tfile, target, current, status, loop, zip, restart, missed,
                 dropped, boots>>

SetAssign(h) ==
  /\ alive /\ set[h].pc = "assign"
  /\ target' = set[h].to
  /\ set' = [set EXCEPT ![h].pc = "write"]
  /\ UNCHANGED <<alive, installed, tfile, current, status, loop, zip, restart, missed, dropped,
                 sets, boots>>

\* An error of WriteFile, which has made the file empty or not, ends the request
\* without a signal.
SetWrite(h) ==
  /\ alive /\ set[h].pc = "write"
  /\ \/ /\ tfile' = set[h].to
        /\ set' = [set EXCEPT ![h].pc = "signal"]
        /\ UNCHANGED missed
     \/ /\ set' = [set EXCEPT ![h] = NoSet]
        /\ tfile' \in {tfile, {}}
        /\ missed' = TRUE
  /\ UNCHANGED <<alive, installed, target, current, status, loop, zip, restart, dropped, sets,
                 boots>>

\* The send does not block: it is dropped unless the loop is at its receive.
SetSignal(h) ==
  /\ alive /\ set[h].pc = "signal"
  /\ set' = [set EXCEPT ![h] = NoSet]
  /\ IF loop.pc = "wait"
     THEN loop' = [loop EXCEPT !.pc = "try"] /\ UNCHANGED dropped
     ELSE dropped' = TRUE /\ UNCHANGED loop
  /\ UNCHANGED <<alive, installed, tfile, target, current, status, zip, restart, missed, sets,
                 boots>>

-----------------------------------------------------------------------------
(* UpdateWithZip *)

UpdateWithZip ==
  /\ alive /\ zip = "idle" /\ status # "updating"
  /\ zip' = "claim"
  /\ UNCHANGED <<alive, installed, tfile, target, current, status, loop, set, restart, missed,
                 dropped, sets, boots>>

ZipClaim ==
  /\ alive /\ zip = "claim"
  /\ status' = "updating"
  /\ zip' = "install"
  /\ UNCHANGED <<alive, installed, tfile, target, current, loop, set, restart, missed, dropped,
                 sets, boots>>

\* Mutant: a failure leaves the status.
ZipReturnsEarly ==
  /\ alive /\ zip = "install"
  /\ zip' = "idle"
  /\ \/ /\ \E v \in Versions : installed' = <<v, installed[2]>>
        /\ current' = Current(installed')
        /\ status' = "finished"
        /\ restart' = TRUE
     \/ UNCHANGED <<installed, current, restart, status>>
  /\ UNCHANGED <<alive, tfile, target, loop, set, missed, dropped, sets, boots>>

\* The package is installed and the restart follows, or something fails.
ZipInstall ==
  /\ alive /\ zip = "install"
  /\ zip' = "idle"
  /\ status' = "finished"
  /\ \/ /\ \E v \in Versions : installed' = <<v, installed[2]>>
        /\ current' = Current(installed')
        /\ restart' = TRUE
     \/ UNCHANGED <<installed, current, restart>>
  /\ UNCHANGED <<alive, tfile, target, loop, set, missed, dropped, sets, boots>>

-----------------------------------------------------------------------------
\* The bootstrap command copies the text of the version file, untrimmed.
SyncVersion ==
  /\ tfile' = {<<JX, installed>>}
  /\ UNCHANGED <<alive, installed, target, current, status, loop, set, zip, restart, missed,
                 dropped, sets, boots>>

\* The process ends: RestartEdgeguardAfter, or at any moment. A file that is being
\* written may be left empty.
Exit ==
  /\ alive
  /\ alive' = FALSE
  /\ tfile' \in {tfile} \cup (IF \E h \in Setters : set[h].pc = "write" THEN {{}} ELSE {})
  /\ UNCHANGED <<installed, target, current, status, loop, set, zip, restart, missed, dropped,
                 sets, boots>>

\* The service manager starts it again.
Boot ==
  /\ ~alive /\ boots < MaxBoots
  /\ alive' = TRUE /\ boots' = boots + 1
  /\ target' = tfile
  /\ current' = Current(installed)
  /\ status' = "finished"
  /\ loop' = [pc |-> "off", need |-> {}]
  /\ set' = [h \in Setters |-> NoSet]
  /\ zip' = "idle" /\ restart' = FALSE /\ missed' = FALSE /\ dropped' = FALSE
  /\ UNCHANGED <<installed, tfile, sets>>

UpdateNext ==
  \/ Start \/ TryUpdate \/ LoopTest \/ LoopClaim \/ AptInstall \/ LoopFinish
  \/ LoopWaits
  \/ \E h \in Setters : \/ \E to \in Targets : SetTargetVersion(h, to)
                        \/ SetAssign(h) \/ SetWrite(h) \/ SetSignal(h)
  \/ UpdateWithZip \/ ZipClaim \/ ZipInstall
  \/ SyncVersion

-----------------------------------------------------------------------------
\* No request is under way and no restart is coming, yet the loop rests at its
\* receive with packages still to be updated.
Rests ==
  /\ alive /\ loop.pc = "wait" /\ NeedUpdate(current, target) # {}
  /\ ~restart /\ \A h \in Setters : set[h].pc = "idle"

\* The update loop rests with packages still to be updated only if a signal was
\* dropped since it last looked, the file could not be written, an install failed (or
\* the version of its package is not known, as for all but the toolset) or another
\* update was in progress (updateLoop, tryUpdate, SetTargetVersion). In every other
\* case a target that is set is installed.
RestsUpdated == Rests => missed \/ dropped

\* The status says "updating" only while an update runs, so a request is never
\* refused for good (tryUpdate, UpdateWithZip). The converse does not hold: the
\* status is tested and set in two steps, and the first of two updates clears it.
UpdatingIsReal == status = "updating" /\ alive => loop.pc = "install" \/ zip = "install"

=============================================================================

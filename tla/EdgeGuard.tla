----------------------------- MODULE EdgeGuard -----------------------------
(***************************************************************************)
(* The edge-guard process: serve of cmd/serve.go with the tasks it keeps   *)
(* running (lowapi/utils/err.go, web/serve.go), and four parts of it that  *)
(* share nothing but its life: updates, the device, the card mounts and    *)
(* the DNS setup.                                                          *)
(*                                                                         *)
(* The parts do not read each other's state, so each behaviour moves one   *)
(* of them (focus) and leaves the others where they start, in one of their *)
(* initial states. Each part has the restarts of the process that matter   *)
(* to it: the updates share those of serve, Mount and DnsSetup have their  *)
(* own, and the Device forgets its copy.                                   *)
(***************************************************************************)
EXTENDS UpdateManager, Device, Mount, DnsSetup

CONSTANTS
  Tasks \* what serve runs with GoAndRestartOnError

VARIABLES
  focus,
  ctxDone, \* the context of serve is done
  mainpc,  \* serve: "setup" (GetDevice to InitTF), "tasks" (it starts them, then waits
           \* for the context), "group" (errGroup.Wait, next to the graceful timer)
  task     \* task[t]: "off", "running", "stopped" (its function has returned), "returned"

serveVars == <<focus, ctxDone, mainpc, task>>
vars == <<updateVars, deviceVars, mountVars, dnsVars, serveVars>>

TypeOK ==
  /\ UpdateTypeOK /\ DeviceTypeOK /\ MountTypeOK /\ DnsTypeOK
  /\ focus \in {"serve", "update", "device", "mount", "dns"}
  /\ ctxDone \in BOOLEAN
  /\ mainpc \in {"setup", "tasks", "group"}
  /\ task \in [Tasks -> {"off", "running", "stopped", "returned"}]

Init ==
  /\ UpdateInit /\ DeviceInit /\ MountInit /\ DnsInit
  /\ focus \in {"serve", "update", "device", "mount", "dns"}
  /\ focus = "update" \/ (installed = (CHOOSE t \in Texts : TRUE) /\ tfile = {})
  /\ focus = "device" \/ type = None
  /\ focus = "dns" \/ (~locked /\ hooks = "vendor")
  /\ ctxDone = FALSE
  /\ mainpc = "setup"
  /\ task = [t \in Tasks |-> "off"]

-----------------------------------------------------------------------------
\* MaintainNetwork has returned, which it may do before serve has started a task, or
\* a SIGTERM or SIGINT came to the handler that serve starts last. (Without the
\* handler a signal kills.)
Cancel ==
  /\ alive /\ ~ctxDone
  /\ ctxDone' = TRUE
  /\ UNCHANGED <<updateVars, focus, mainpc, task>>

\* InitTF has returned.
SetupDone ==
  /\ alive /\ mainpc = "setup"
  /\ mainpc' = "tasks"
  /\ UNCHANGED <<updateVars, focus, ctxDone, task>>

\* GoAndRestartOnError
GoAndRestartOnError(t) ==
  /\ alive /\ mainpc = "tasks" /\ task[t] = "off"
  /\ task' = [task EXCEPT ![t] = "running"]
  /\ UNCHANGED <<updateVars, focus, ctxDone, mainpc>>

\* <-ctx.Done(), after the last task was started.
ContextDone ==
  /\ alive /\ mainpc = "tasks" /\ \A t \in Tasks : task[t] # "off"
  /\ ctxDone
  /\ mainpc' = "group"
  /\ UNCHANGED <<updateVars, focus, ctxDone, task>>

\* The function of a task returns: it failed, or it has seen the end of its
\* context. It need not ever do so.
TaskStops(t) ==
  /\ alive /\ task[t] = "running"
  /\ task' = [task EXCEPT ![t] = "stopped"]
  /\ UNCHANGED <<updateVars, focus, ctxDone, mainpc>>

\* RunAndRestartOnError
RunAndRestartOnError(t) ==
  /\ alive /\ task[t] = "stopped"
  /\ task' = [task EXCEPT ![t] = IF ctxDone THEN "returned" ELSE "running"]
  /\ UNCHANGED <<updateVars, focus, ctxDone, mainpc>>

\* errGroup.Wait
AllReturned == mainpc = "group" /\ \A t \in Tasks : task[t] = "returned"

\* Mutant: there is no graceful period.
NoPeriod == FALSE

\* The timer started after <-ctx.Done() has fired: Fatal.
GracefulPeriod == mainpc = "group"

\* serve returns or Fatal is called, or an update has asked for a restart.
Ends ==
  /\ AllReturned \/ GracefulPeriod \/ restart
  /\ Exit
  /\ UNCHANGED serveVars

\* The process is killed.
Crash == Exit /\ UNCHANGED serveVars

\* It starts again.
Serve ==
  /\ Boot
  /\ ctxDone' = FALSE
  /\ mainpc' = "setup"
  /\ task' = [t \in Tasks |-> "off"]
  /\ UNCHANGED focus

\* The life of the process goes with its tasks, and with the updates.
Lives == Ends \/ Crash \/ Serve

ServeNext ==
  \/ Lives \/ Cancel \/ SetupDone \/ ContextDone
  \/ \E t \in Tasks : GoAndRestartOnError(t) \/ TaskStops(t) \/ RunAndRestartOnError(t)

Next ==
  \/ focus = "serve" /\ ServeNext /\ UNCHANGED <<deviceVars, mountVars, dnsVars>>
  \/ /\ focus = "update"
     /\ Lives \/ (UpdateNext /\ UNCHANGED serveVars)
     /\ UNCHANGED <<deviceVars, mountVars, dnsVars>>
  \/ focus = "device" /\ DeviceNext /\ UNCHANGED <<updateVars, mountVars, dnsVars, serveVars>>
  \/ focus = "mount" /\ MountNext /\ UNCHANGED <<updateVars, deviceVars, dnsVars, serveVars>>
  \/ focus = "dns" /\ DnsNext /\ UNCHANGED <<updateVars, deviceVars, mountVars, serveVars>>

\* The runtime's timers fire, and a goroutine that can go on does so; the commands
\* InitTF runs end. Nothing is assumed of the tasks' own functions.
Fairness ==
  /\ WF_vars(focus = "serve" /\ (SetupDone \/ ContextDone)
             /\ UNCHANGED <<deviceVars, mountVars, dnsVars>>)
  /\ WF_vars(Ends /\ UNCHANGED <<deviceVars, mountVars, dnsVars>>)
  /\ \A t \in Tasks :
       /\ WF_vars(focus = "serve" /\ GoAndRestartOnError(t)
                  /\ UNCHANGED <<deviceVars, mountVars, dnsVars>>)
       /\ WF_vars(RunAndRestartOnError(t) /\ UNCHANGED <<deviceVars, mountVars, dnsVars>>)

Spec == Init /\ [][Next]_vars /\ Fairness

-----------------------------------------------------------------------------
\* Once it is to stop, or to restart after an update, the process ends, whichever
\* tasks hang, and also when the network gave up before main had started its tasks:
\* main reaches its wait for the context, and with it the graceful timer, whatever
\* the tasks do (serve, RunAndRestartOnError, RestartEdgeguardAfter).
ServeEnds == (alive /\ (ctxDone \/ restart)) ~> ~alive

=============================================================================

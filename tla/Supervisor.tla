----------------------------- MODULE Supervisor -----------------------------
(***************************************************************************)
(* The supervisor: subprocess/run_sup.go, supervisor.go, xmlrpc.go and     *)
(* process/process_manager.go.                                             *)
(*                                                                         *)
(* runProcess makes a Supervisor with a process table of its own, loads    *)
(* the configuration (which is fixed, so every table holds the same        *)
(* programs), waits for the end of its context or for the Restart request, *)
(* stops all programs and makes the next Supervisor. RPC handlers (clients)*)
(* act at any time on the Supervisor whose listener has the port.          *)
(*                                                                         *)
(* An actor is the main loop or an RPC handler; what it does to a process  *)
(* is a step of Lifecycle, which module Process implements.                *)
(*                                                                         *)
(* Bounds: Sups are the Supervisors made one after another.                *)
(***************************************************************************)
EXTENDS Integers

CONSTANTS
  Programs, EventListeners, \* the sections of the configuration
  AutoStart,                \* the programs with autostart=true
  Clients,                  \* the RPC handlers that may run at once
  MaxSups,                  \* the number of Supervisors made
  main, nil

ASSUME SupervisorAssumption ==
  /\ Programs \cap EventListeners = {}
  /\ AutoStart \subseteq Programs
  /\ main \notin Clients
  /\ MaxSups \in Nat \ {0}
  /\ nil \notin 0 .. MaxSups

Sups == 1 .. MaxSups
Procs == Programs \cup EventListeners
Actors == Clients \cup {main}

VARIABLES
  proc,       \* proc[s][p]: the process p in the table of Supervisor s
  act,        \* act[a]: what actor a is doing
  restarting, \* the Supervisors whose restarting flag is set
  port,       \* the Supervisor whose listener has the port, or nil
  opening,    \* the Supervisors with a goroutine about to listen
  ctxDone,    \* the context of runProcess is done
  exited,     \* os.Exit has been called
  revived     \* the processes a request has started since main stopped them (history)

vars == <<proc, act, restarting, port, opening, ctxDone, exited, revived>>

\* pc: "loop" is the top of runProcess's loop, "idle" a handler that is not
\* there; todo: the processes still to be started or stopped; wait: those whose
\* Stop(true) is polling.
ActorType == [pc : {"idle", "loop", "listeners", "programs", "start",
                    "stop", "stopNoWait", "shutdown", "exiting", "wait", "returned"},
              sup : 0 .. MaxSups, todo : SUBSET Procs, wait : SUBSET Procs]

ProcType == [inStart : BOOLEAN, stopByUser : BOOLEAN,
             phase : {"down", "announced", "up", "gone"}]

TypeOK ==
  /\ proc \in [Sups -> [Procs -> ProcType]]
  /\ act \in [Actors -> ActorType]
  /\ restarting \subseteq Sups
  /\ port \in Sups \cup {nil}
  /\ opening \subseteq Sups
  /\ ctxDone \in BOOLEAN
  /\ exited \in BOOLEAN
  /\ revived \subseteq Sups \X Procs

NewProc == [inStart |-> FALSE, stopByUser |-> FALSE, phase |-> "down"]
Idle == [pc |-> "idle", sup |-> 0, todo |-> {}, wait |-> {}]

Init ==
  /\ proc = [s \in Sups |-> [p \in Procs |-> NewProc]]
  /\ act = [a \in Actors |-> IF a = main THEN [Idle EXCEPT !.pc = "loop"] ELSE Idle]
  /\ restarting = {}
  /\ port = nil
  /\ opening = {}
  /\ ctxDone = FALSE
  /\ exited = FALSE
  /\ revived = {}

cur == act[main].sup

-----------------------------------------------------------------------------
(* The processes, as Lifecycle describes them, without a restart pause *)

\* Mutant: Start does not look at inStart.
StartedAgain(r) == [r EXCEPT !.inStart = TRUE, !.stopByUser = FALSE]

\* Process.Start: refused while a Start goroutine is there.
Started(r) == IF r.inStart THEN r ELSE [r EXCEPT !.inStart = TRUE, !.stopByUser = FALSE]

\* Process.Stop
Stopped(r) == [r EXCEPT !.stopByUser = TRUE]

Become(s, p, r) ==
  /\ proc' = [proc EXCEPT ![s][p] = r]
  /\ UNCHANGED <<act, restarting, port, opening, ctxDone, exited, revived>>

\* A launch is announced, the first one or a restart, and made.
Attempt(s, p) ==
  LET r == proc[s][p] IN
  \/ /\ r.inStart /\ ~r.stopByUser /\ r.phase = "down"
     /\ Become(s, p, [r EXCEPT !.phase = "announced"])
  \/ r.phase = "announced" /\ Become(s, p, [r EXCEPT !.phase = "up"])

\* The child exits by itself, or because it is stopped.
ChildExit(s, p) ==
  /\ proc[s][p].phase = "up"
  /\ Become(s, p, [proc[s][p] EXCEPT !.phase = "gone"])

\* The end of the child, or a failed launch, is reported; the Start goroutine ends.
Settle(s, p) ==
  LET r == proc[s][p] IN
  \/ r.phase \in {"announced", "gone"} /\ Become(s, p, [r EXCEPT !.phase = "down"])
  \/ r.inStart /\ r.phase = "down" /\ Become(s, p, [r EXCEPT !.inStart = FALSE])

-----------------------------------------------------------------------------
(* Reload, by main for a new Supervisor and by a handler for its own *)

\* pm.lock is held while the auto-start programs are started.
Locked(s) == \E a \in Actors : act[a].pc = "programs" /\ act[a].sup = s

\* startHttpServer closes the listener this Supervisor has and leaves the rest to
\* a goroutine. (createPrograms has filled the table before; its programs are
\* the same at every Reload, so none is removed.)
StartHttpServer(a) ==
  LET s == act[a].sup IN
  /\ act[a].pc = "listeners"
  /\ act[a].todo = {}
  /\ ~Locked(s)
  /\ port' = IF port = s THEN nil ELSE port
  /\ opening' = opening \cup {s}
  /\ act' = [act EXCEPT ![a].pc = "programs", ![a].todo = AutoStart]
  /\ UNCHANGED <<proc, restarting, ctxDone, exited, revived>>

\* net.Listen fails while another Supervisor has the port.
Listen(s) ==
  /\ s \in opening
  /\ opening' = opening \ {s}
  /\ port' = IF port = nil THEN s ELSE port
  /\ UNCHANGED <<proc, act, restarting, ctxDone, exited, revived>>

\* Reload returns: main goes on to WaitForExit, a handler answers.
ReloadDone(a) ==
  /\ act[a].pc = "programs"
  /\ act[a].todo = {}
  /\ act' = [act EXCEPT ![a] = IF a = main THEN [@ EXCEPT !.pc = "wait"] ELSE Idle]
  /\ UNCHANGED <<proc, restarting, port, opening, ctxDone, exited, revived>>

-----------------------------------------------------------------------------
(* Starting and stopping sets of programs: StartProcess, StartAllProcesses and  *)
(* StartProcessGroup, their stopping counterparts, and the manager's            *)
(* StopAllProcesses, which main and Shutdown use                                *)

\* One Start: of startEventListeners, of StartAutoStartPrograms or of a request.
StartOne(a, p) ==
  LET s == act[a].sup IN
  /\ act[a].pc \in {"listeners", "programs", "start"}
  /\ p \in act[a].todo
  /\ proc' = [proc EXCEPT ![s][p] = Started(@)]
  /\ revived' = IF a # main /\ ~proc[s][p].inStart THEN revived \cup {<<s, p>>} ELSE revived
  /\ act' = [act EXCEPT ![a].todo = @ \ {p}]
  /\ UNCHANGED <<restarting, port, opening, ctxDone, exited>>

\* Mutant: Stop(false) instead of Stop(true).
StopNoWait(p) == {}

\* Stop(true) polls until p is down.
StopWait(p) == {p}

StopOne(a, p) ==
  /\ act[a].pc \in {"stop", "stopNoWait", "shutdown"}
  /\ p \in act[a].todo
  /\ proc' = [proc EXCEPT ![act[a].sup][p] = Stopped(@)]
  /\ revived' = IF a = main THEN revived \ {<<act[a].sup, p>>} ELSE revived
  /\ act' = [act EXCEPT ![a].todo = @ \ {p},
                        ![a].wait = IF act[a].pc = "stopNoWait" THEN {} ELSE @ \cup StopWait(p)]
  /\ UNCHANGED <<restarting, port, opening, ctxDone, exited>>

\* Mutant: wg.Done is forgotten.
NotDone(w, p) == w

\* wg.Done for p
WgDone(w, p) == w \ {p}

\* The poll of Stop(true) finds p stopped.
StopReturn(a, p) ==
  /\ p \in act[a].wait
  /\ proc[act[a].sup][p].phase = "down"
  /\ act' = [act EXCEPT ![a].wait = WgDone(@, p)]
  /\ UNCHANGED <<proc, restarting, port, opening, ctxDone, exited, revived>>

\* All calls have returned: the handler answers, Shutdown leaves a goroutine that
\* will exit, and main goes back to the top of its loop.
CallsDone(a) ==
  /\ act[a].pc \in {"start", "stop", "stopNoWait", "shutdown"}
  /\ act[a].todo = {} /\ act[a].wait = {}
  /\ act' = [act EXCEPT ![a] = IF a = main THEN [@ EXCEPT !.pc = "loop"]
                               ELSE IF @.pc = "shutdown" THEN [@ EXCEPT !.pc = "exiting"]
                               ELSE Idle]
  /\ UNCHANGED <<proc, restarting, port, opening, ctxDone, exited, revived>>

\* os.Exit(0)
Exit(a) ==
  /\ act[a].pc = "exiting"
  /\ exited' = TRUE
  /\ UNCHANGED <<proc, act, restarting, port, opening, ctxDone, revived>>

-----------------------------------------------------------------------------
(* runProcess *)

NewSupervisor ==
  /\ act[main].pc = "loop"
  /\ ~ctxDone
  /\ cur < MaxSups
  /\ act' = [act EXCEPT ![main] = [@ EXCEPT !.pc = "listeners", !.sup = cur + 1,
                                            !.todo = EventListeners]]
  /\ UNCHANGED <<proc, restarting, port, opening, ctxDone, exited, revived>>

Return ==
  /\ act[main].pc = "loop"
  /\ ctxDone
  /\ act' = [act EXCEPT ![main].pc = "returned"]
  /\ UNCHANGED <<proc, restarting, port, opening, ctxDone, exited, revived>>

\* WaitForExit leaves its loop; its deferred StopAllProcesses visits every
\* process of pm.procs.
WaitForExit ==
  /\ act[main].pc = "wait"
  /\ ctxDone \/ cur \in restarting
  /\ ~Locked(cur)
  /\ act' = [act EXCEPT ![main].pc = "stop", ![main].todo = Programs]
  /\ UNCHANGED <<proc, restarting, port, opening, ctxDone, exited, revived>>

CtxDone ==
  /\ ~ctxDone
  /\ ctxDone' = TRUE
  /\ UNCHANGED <<proc, act, restarting, port, opening, exited, revived>>

-----------------------------------------------------------------------------
(* RPC requests, to the Supervisor that has the port *)

\* Some Supervisor has the port.
Serving == port # nil

Handle(k, pc, todo) ==
  /\ act[k].pc = "idle"
  /\ Serving
  /\ ~Locked(port)
  /\ act' = [act EXCEPT ![k] = [pc |-> pc, sup |-> port, todo |-> todo, wait |-> {}]]
  /\ UNCHANGED <<proc, restarting, port, opening, ctxDone, exited, revived>>

StartRequest(k) == \E ps \in SUBSET Programs \ {{}} : Handle(k, "start", ps)
StopRequest(k) ==
  \E ps \in SUBSET Programs \ {{}}, pc \in {"stop", "stopNoWait"} : Handle(k, pc, ps)
ShutdownRequest(k) == Handle(k, "shutdown", Programs)
ReloadRequest(k) == Handle(k, "listeners", EventListeners)

\* SignalProcess, SignalProcessGroup and SignalAllProcesses: each program signalled
\* that has a child may lose it.
SignalRequest(k) ==
  /\ act[k].pc = "idle"
  /\ Serving
  /\ ~Locked(port)
  /\ \E ps \in SUBSET Programs : proc' = [proc EXCEPT ![port] = [p \in Procs |->
       IF p \in ps /\ @[p].phase = "up" THEN [@[p] EXCEPT !.phase = "gone"] ELSE @[p]]]
  /\ UNCHANGED <<act, restarting, port, opening, ctxDone, exited, revived>>

RestartRequest(k) ==
  /\ act[k].pc = "idle"
  /\ Serving
  /\ restarting' = restarting \cup {port}
  /\ UNCHANGED <<proc, act, port, opening, ctxDone, exited, revived>>

-----------------------------------------------------------------------------

ActorNext(a) ==
  \/ \E p \in Procs : StartOne(a, p) \/ StopOne(a, p) \/ StopReturn(a, p)
  \/ StartHttpServer(a) \/ ReloadDone(a) \/ CallsDone(a) \/ Exit(a)

MainNext == ActorNext(main) \/ NewSupervisor \/ Return \/ WaitForExit

Request(k) ==
  \/ StartRequest(k) \/ StopRequest(k) \/ ShutdownRequest(k)
  \/ ReloadRequest(k) \/ RestartRequest(k) \/ SignalRequest(k)

ProcessNext(s, p) == Attempt(s, p) \/ ChildExit(s, p) \/ Settle(s, p)

Next ==
  /\ ~exited
  /\ \/ MainNext \/ CtxDone
     \/ \E k \in Clients : Request(k) \/ ActorNext(k)
     \/ \E s \in Sups : Listen(s) \/ \E p \in Procs : ProcessNext(s, p)

Spec == Init /\ [][Next]_vars

\* The goroutines run, and Stop brings its program down (StopTrueReturns of
\* module Process). No client has to call, and a program that is not stopped may run
\* for ever.
Fairness ==
  /\ WF_vars(~exited /\ MainNext)
  /\ \A k \in Clients : WF_vars(~exited /\ ActorNext(k))
  /\ \A s \in Sups : \A p \in Procs :
       /\ WF_vars(~exited /\ Settle(s, p))
       /\ WF_vars(~exited /\ proc[s][p].stopByUser /\ ChildExit(s, p))

FairSpec == Spec /\ Fairness

-----------------------------------------------------------------------------
(* Properties *)

LC(s, p) == INSTANCE Lifecycle WITH inStart <- proc[s][p].inStart,
                                    stopByUser <- proc[s][p].stopByUser,
                                    phase <- proc[s][p].phase, pause <- FALSE

\* Whatever main and the handlers do to it at the same time, every process of
\* every table behaves as module Process promises.
ProcsAreLifecycles ==
  [][\A s \in Sups, p \in Procs : LC(s, p)!Next \/ UNCHANGED proc[s][p]]_vars

\* Restarting the supervisor does not leave programs behind: a program of an
\* earlier Supervisor runs only because a request that still reached that
\* Supervisor started it again.
OldProgramWasRevived ==
  \A s \in Sups, p \in Programs :
    s < cur /\ proc[s][p].phase # "down" => <<s, p>> \in revived

\* StopAllProcesses returns, so that restart, shutdown and the end of the
\* context take effect, unless somebody starts one of the programs again.
StopAllReturns ==
  \A a \in Actors :
    (act[a].pc \in {"stop", "shutdown"}) ~>
      (act[a].pc \notin {"stop", "shutdown"} \/ exited
         \/ \E p \in act[a].wait : ~proc[act[a].sup][p].stopByUser)

=============================================================================

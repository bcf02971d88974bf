-------------------------- MODULE SupervisorProofs --------------------------
(***************************************************************************)
(* Theorems about Supervisor, for every set of programs, event listeners   *)
(* and requests and any number of Supervisors.                             *)
(***************************************************************************)
EXTENDS Supervisor, TLAPS

-----------------------------------------------------------------------------
(* Type correctness *)

Resting == {"idle", "loop", "returned"}

\* An actor at work has a Supervisor, which TypeOK does not say; main is only ever
\* where runProcess can be.
TypeInv ==
  /\ TypeOK
  /\ \A a \in Actors : act[a].pc \notin Resting => act[a].sup \in Sups
  /\ act[main].pc \in {"loop", "listeners", "programs", "wait", "stop", "returned"}

\* The records of actors and processes stay within their types when a field is set.
LEMMA ActorTypeClosed ==
  ASSUME NEW r \in ActorType
  PROVE  /\ \A t \in SUBSET Procs : [r EXCEPT !.todo = t] \in ActorType
         /\ \A t, w \in SUBSET Procs : [r EXCEPT !.todo = t, !.wait = w] \in ActorType
         /\ \A w \in SUBSET Procs : [r EXCEPT !.wait = w] \in ActorType
         /\ [r EXCEPT !.pc = "programs", !.todo = AutoStart] \in ActorType
         /\ [r EXCEPT !.pc = "stop", !.todo = Programs] \in ActorType
         /\ \A q \in {"wait", "loop", "exiting", "returned"} : [r EXCEPT !.pc = q] \in ActorType
         /\ \A s \in Sups : [r EXCEPT !.pc = "listeners", !.sup = s, !.todo = EventListeners]
                              \in ActorType
         /\ Idle \in ActorType
<1>1. \A s \in Sups : s \in 0 .. MaxSups
  BY SupervisorAssumption DEF Sups
<1>2. {} \in SUBSET Procs /\ AutoStart \in SUBSET Procs /\ Programs \in SUBSET Procs
      /\ EventListeners \in SUBSET Procs
  BY SupervisorAssumption DEF Procs
<1>3. Idle \in ActorType
  BY SupervisorAssumption DEF Idle, ActorType
<1> QED
  BY <1>1, <1>2, <1>3 DEF ActorType

LEMMA ProcTypeClosed ==
  ASSUME NEW r \in ProcType
  PROVE  /\ Started(r) \in ProcType /\ Stopped(r) \in ProcType
         /\ \A h \in {"down", "announced", "up", "gone"} : [r EXCEPT !.phase = h] \in ProcType
         /\ [r EXCEPT !.inStart = FALSE] \in ProcType
  BY DEF ProcType, Started, Stopped

\* A step that changes what one actor does keeps the actors' part of TypeInv.
LEMMA ActorSet ==
  ASSUME TypeInv, NEW a \in Actors, NEW r \in ActorType, act' = [act EXCEPT ![a] = r],
         r.pc \notin Resting => r.sup \in Sups,
         a = main => r.pc \in {"loop", "listeners", "programs", "wait", "stop", "returned"}
  PROVE  /\ act' \in [Actors -> ActorType]
         /\ \A b \in Actors : act'[b].pc \notin Resting => act'[b].sup \in Sups
         /\ act'[main].pc \in {"loop", "listeners", "programs", "wait", "stop", "returned"}
  BY DEF TypeInv, TypeOK, Actors

\* A step that changes one process keeps the processes within their type.
LEMMA ProcSet ==
  ASSUME TypeOK, NEW s, NEW p, NEW r \in ProcType, proc' = [proc EXCEPT ![s][p] = r]
  PROVE  proc' \in [Sups -> [Procs -> ProcType]]
  BY DEF TypeOK

\* Every step of an actor keeps TypeInv.
LEMMA ActorTypeStep ==
  ASSUME TypeInv, NEW a \in Actors, ActorNext(a)
  PROVE  TypeInv'
<1>a. /\ act[a] \in ActorType /\ act[a].todo \in SUBSET Procs /\ act[a].wait \in SUBSET Procs
      /\ act[a].pc \notin Resting => act[a].sup \in Sups
      /\ a = main => act[a].pc \in {"loop", "listeners", "programs", "wait", "stop", "returned"}
  BY DEF TypeInv, TypeOK, ActorType
<1>1. ASSUME NEW p \in Procs, StartOne(a, p) PROVE TypeInv'
  <2> DEFINE s == act[a].sup
             r == [act[a] EXCEPT !.todo = act[a].todo \ {p}]
  <2>1. r \in ActorType
    BY <1>a, ActorTypeClosed
  <2>7. r.pc = act[a].pc /\ r.sup = s
    BY <1>a DEF ActorType
  <2>0. act' = [act EXCEPT ![a] = r]
    BY <1>1 DEF StartOne, TypeInv, TypeOK
  <2>2. s \in Sups
    BY <1>1, <1>a DEF StartOne, Resting
  <2>3. proc' = [proc EXCEPT ![s][p] = Started(proc[s][p])]
    BY <1>1 DEF StartOne
  <2>4. proc' \in [Sups -> [Procs -> ProcType]]
    BY <2>2, <2>3, ProcTypeClosed, ProcSet DEF TypeInv, TypeOK
  <2>5. revived' \subseteq Sups \X Procs
    BY <1>1, <2>2 DEF StartOne, TypeInv, TypeOK
  <2>6. UNCHANGED <<restarting, port, opening, ctxDone, exited>>
    BY <1>1 DEF StartOne
  <2> QED
    BY <2>0, <2>1, <2>7, <2>4, <2>5, <2>6, <1>a, ActorSet DEF TypeInv, TypeOK
<1>2. ASSUME NEW p \in Procs, StopOne(a, p) PROVE TypeInv'
  <2> DEFINE s == act[a].sup
             w == IF act[a].pc = "stopNoWait" THEN {} ELSE act[a].wait \cup {p}
             r == [act[a] EXCEPT !.todo = act[a].todo \ {p}, !.wait = w]
  <2>1. r \in ActorType
    BY <1>a, ActorTypeClosed
  <2>2. act' = [act EXCEPT ![a] = r]
    BY <1>2 DEF StopOne, StopWait, TypeInv, TypeOK
  <2>3. r.pc = act[a].pc /\ r.sup = s /\ s \in Sups
    BY <1>a, <1>2 DEF StopOne, Resting, ActorType
  <2>4. proc' = [proc EXCEPT ![s][p] = Stopped(proc[s][p])]
    BY <1>2 DEF StopOne
  <2>5. proc' \in [Sups -> [Procs -> ProcType]]
    BY <2>3, <2>4, ProcTypeClosed, ProcSet DEF TypeInv, TypeOK
  <2>6. UNCHANGED <<restarting, port, opening, ctxDone, exited>> /\ revived' \subseteq revived
    BY <1>2 DEF StopOne
  <2> QED
    BY <2>1, <2>2, <2>3, <2>5, <2>6, <1>a, ActorSet DEF TypeInv, TypeOK
<1>3. ASSUME NEW p \in Procs, StopReturn(a, p) PROVE TypeInv'
  <2> DEFINE r == [act[a] EXCEPT !.wait = act[a].wait \ {p}]
  <2>1. r \in ActorType
    BY <1>a, ActorTypeClosed
  <2>2. act' = [act EXCEPT ![a] = r]
    BY <1>3 DEF StopReturn, WgDone, TypeInv, TypeOK
  <2>3. r.pc = act[a].pc /\ r.sup = act[a].sup
    BY <1>a DEF ActorType
  <2>4. UNCHANGED <<proc, restarting, port, opening, ctxDone, exited, revived>>
    BY <1>3 DEF StopReturn
  <2> QED
    BY <2>1, <2>2, <2>3, <2>4, <1>a, ActorSet DEF TypeInv, TypeOK
<1>4. CASE StartHttpServer(a)
  <2> DEFINE r == [act[a] EXCEPT !.pc = "programs", !.todo = AutoStart]
  <2>1. r \in ActorType
    BY <1>a, ActorTypeClosed
  <2>2. act' = [act EXCEPT ![a] = r]
    BY <1>4 DEF StartHttpServer, TypeInv, TypeOK
  <2>3. r.pc = "programs" /\ r.sup = act[a].sup /\ act[a].sup \in Sups
    BY <1>a, <1>4 DEF ActorType, StartHttpServer, Resting
  <2>4. /\ UNCHANGED <<proc, restarting, ctxDone, exited, revived>>
        /\ port' \in {port, nil} /\ opening' = opening \cup {act[a].sup}
    BY <1>4 DEF StartHttpServer
  <2> QED
    BY <2>1, <2>2, <2>3, <2>4, ActorSet DEF TypeInv, TypeOK, Resting
<1>5. CASE ReloadDone(a)
  <2> DEFINE r == IF a = main THEN [act[a] EXCEPT !.pc = "wait"] ELSE Idle
  <2>1. r \in ActorType
    BY <1>a, ActorTypeClosed
  <2>2. act' = [act EXCEPT ![a] = r]
    BY <1>5 DEF ReloadDone, TypeInv, TypeOK
  <2>3. /\ a = main => r.pc = "wait" /\ r.sup = act[a].sup /\ act[a].sup \in Sups
        /\ a # main => r.pc = "idle"
    BY <1>a, <1>5 DEF ActorType, ReloadDone, Resting, Idle
  <2>4. UNCHANGED <<proc, restarting, port, opening, ctxDone, exited, revived>>
    BY <1>5 DEF ReloadDone
  <2> QED
    BY <2>1, <2>2, <2>3, <2>4, ActorSet DEF TypeInv, TypeOK, Resting
<1>6. CASE CallsDone(a)
  <2> DEFINE r == IF a = main THEN [act[a] EXCEPT !.pc = "loop"]
                  ELSE IF act[a].pc = "shutdown" THEN [act[a] EXCEPT !.pc = "exiting"] ELSE Idle
  <2>1. r \in ActorType
    BY <1>a, ActorTypeClosed
  <2>2. act' = [act EXCEPT ![a] = r]
    BY <1>6 DEF CallsDone, TypeInv, TypeOK
  <2>3. /\ a = main => r.pc = "loop"
        /\ a # main => r.pc = "idle" \/ (r.pc = "exiting" /\ r.sup = act[a].sup)
        /\ act[a].sup \in Sups
    BY <1>a, <1>6 DEF ActorType, CallsDone, Resting, Idle
  <2>4. UNCHANGED <<proc, restarting, port, opening, ctxDone, exited, revived>>
    BY <1>6 DEF CallsDone
  <2> QED
    BY <2>1, <2>2, <2>3, <2>4, ActorSet DEF TypeInv, TypeOK, Resting
<1>7. CASE Exit(a)
  <2>1. exited' \in BOOLEAN /\ UNCHANGED <<proc, act, restarting, port, opening, ctxDone, revived>>
    BY <1>7 DEF Exit
  <2> QED
    BY <2>1 DEF TypeInv, TypeOK
<1> QED
  BY <1>1, <1>2, <1>3, <1>4, <1>5, <1>6, <1>7 DEF ActorNext

\* Every other step keeps TypeInv.
LEMMA OtherTypeStep ==
  ASSUME TypeInv,
         \/ NewSupervisor \/ Return \/ WaitForExit \/ CtxDone
         \/ \E k \in Clients : Request(k)
         \/ \E s \in Sups : Listen(s) \/ \E p \in Procs : ProcessNext(s, p)
         \/ UNCHANGED vars
  PROVE  TypeInv'
<1>a. /\ act[main] \in ActorType /\ main \in Actors
      /\ act[main].pc \notin Resting => act[main].sup \in Sups
  BY DEF TypeInv, TypeOK, Actors
<1>1. CASE NewSupervisor
  <2> DEFINE r == [act[main] EXCEPT !.pc = "listeners", !.sup = cur + 1, !.todo = EventListeners]
  <2>1. cur + 1 \in Sups
    BY <1>1, <1>a, SupervisorAssumption, SMTT(40) DEF NewSupervisor, cur, ActorType, Sups
  <2>2. r \in ActorType
    BY <1>a, <2>1, ActorTypeClosed
  <2>3. r.pc = "listeners" /\ r.sup = cur + 1
    BY <1>a DEF ActorType
  <2>4. /\ act' = [act EXCEPT ![main] = r]
        /\ UNCHANGED <<proc, restarting, port, opening, ctxDone, exited, revived>>
    BY <1>1 DEF NewSupervisor
  <2> QED
    BY <1>a, <2>1, <2>2, <2>3, <2>4, ActorSet DEF TypeInv, TypeOK
<1>2. CASE Return
  <2> DEFINE r == [act[main] EXCEPT !.pc = "returned"]
  <2>1. r \in ActorType
    BY <1>a, ActorTypeClosed
  <2>2. r.pc = "returned"
    BY <1>a DEF ActorType
  <2>3. /\ act' = [act EXCEPT ![main] = r]
        /\ UNCHANGED <<proc, restarting, port, opening, ctxDone, exited, revived>>
    BY <1>2 DEF Return, TypeInv, TypeOK
  <2> QED
    BY <1>a, <2>1, <2>2, <2>3, ActorSet, SMTT(40) DEF TypeInv, TypeOK, Resting
<1>3. CASE WaitForExit
  <2> DEFINE r == [act[main] EXCEPT !.pc = "stop", !.todo = Programs]
  <2>1. r \in ActorType
    BY <1>a, ActorTypeClosed
  <2>2. r.pc = "stop" /\ r.sup = act[main].sup /\ act[main].sup \in Sups
    BY <1>a, <1>3 DEF ActorType, WaitForExit, Resting
  <2>3. /\ act' = [act EXCEPT ![main] = r]
        /\ UNCHANGED <<proc, restarting, port, opening, ctxDone, exited, revived>>
    BY <1>3 DEF WaitForExit, TypeInv, TypeOK
  <2> QED
    BY <1>a, <2>1, <2>2, <2>3, ActorSet, SMTT(40) DEF TypeInv, TypeOK
<1>4. CASE CtxDone
  <2>1. ctxDone' \in BOOLEAN /\ UNCHANGED <<proc, act, restarting, port, opening, exited, revived>>
    BY <1>4 DEF CtxDone
  <2> QED
    BY <2>1 DEF TypeInv, TypeOK
<1>5. ASSUME NEW k \in Clients, NEW pc, NEW todo \in SUBSET Procs, Handle(k, pc, todo),
             pc \in {"start", "stop", "stopNoWait", "shutdown", "listeners"}
      PROVE  TypeInv'
  <2> DEFINE r == [pc |-> pc, sup |-> port, todo |-> todo, wait |-> {}]
  <2>1. port \in Sups
    BY <1>5 DEF Handle, Serving, TypeInv, TypeOK
  <2>2. r \in ActorType
    BY <1>5, <2>1, SupervisorAssumption DEF ActorType, Sups
  <2>3. k \in Actors /\ k # main
    BY SupervisorAssumption DEF Actors
  <2>4. /\ act' = [act EXCEPT ![k] = r]
        /\ UNCHANGED <<proc, restarting, port, opening, ctxDone, exited, revived>>
    BY <1>5 DEF Handle
  <2> QED
    BY <2>1, <2>2, <2>3, <2>4, ActorSet DEF TypeInv, TypeOK
<1>6. ASSUME NEW k \in Clients,
             StartRequest(k) \/ StopRequest(k) \/ ShutdownRequest(k) \/ ReloadRequest(k)
      PROVE  TypeInv'
  BY <1>5, <1>6 DEF StartRequest, StopRequest, ShutdownRequest, ReloadRequest, Procs
<1>7. ASSUME NEW k \in Clients, SignalRequest(k) PROVE TypeInv'
  <2>1. PICK ps \in SUBSET Programs : proc' = [proc EXCEPT ![port] = [p \in Procs |->
          IF p \in ps /\ proc[port][p].phase = "up" THEN [proc[port][p] EXCEPT !.phase = "gone"]
          ELSE proc[port][p]]]
    BY <1>7 DEF SignalRequest, TypeInv, TypeOK
  <2>2. port \in Sups
    BY <1>7 DEF SignalRequest, Serving, TypeInv, TypeOK
  <2>3. proc' \in [Sups -> [Procs -> ProcType]]
    BY <2>1, <2>2, ProcTypeClosed DEF TypeInv, TypeOK
  <2>4. UNCHANGED <<act, restarting, port, opening, ctxDone, exited, revived>>
    BY <1>7 DEF SignalRequest
  <2> QED
    BY <2>3, <2>4 DEF TypeInv, TypeOK
<1>8. ASSUME NEW k \in Clients, RestartRequest(k) PROVE TypeInv'
  BY <1>8 DEF RestartRequest, Serving, TypeInv, TypeOK
<1>9. ASSUME NEW s \in Sups, Listen(s) PROVE TypeInv'
  BY <1>9 DEF Listen, TypeInv, TypeOK
<1>10. ASSUME NEW s \in Sups, NEW p \in Procs, ProcessNext(s, p) PROVE TypeInv'
  <2>1. PICK r \in ProcType : Become(s, p, r)
    BY <1>10, ProcTypeClosed DEF ProcessNext, Attempt, ChildExit, Settle, TypeInv, TypeOK
  <2>2. proc' \in [Sups -> [Procs -> ProcType]]
    BY <2>1, ProcSet DEF Become, TypeInv
  <2> QED
    BY <2>1, <2>2 DEF Become, TypeInv, TypeOK
<1>11. CASE UNCHANGED vars
  BY <1>11 DEF vars, TypeInv, TypeOK
<1> QED
  BY <1>1, <1>2, <1>3, <1>4, <1>6, <1>7, <1>8, <1>9, <1>10, <1>11 DEF Request

\* TypeInv holds at every time.
LEMMA TypeInvAlways == Spec => []TypeInv
<1>1. Init => TypeInv
  <2> SUFFICES ASSUME Init PROVE TypeInv
    OBVIOUS
  <2>1. Idle \in ActorType /\ [Idle EXCEPT !.pc = "loop"] \in ActorType
    BY SupervisorAssumption DEF Idle, ActorType
  <2>2. /\ act \in [Actors -> ActorType] /\ act[main].pc = "loop"
        /\ \A a \in Actors : act[a].pc \in Resting
    BY <2>1 DEF Init, Resting, Idle, Actors
  <2>3. proc \in [Sups -> [Procs -> ProcType]]
    BY DEF Init, NewProc, ProcType
  <2>4. /\ restarting = {} /\ port = nil /\ opening = {} /\ revived = {}
        /\ ctxDone \in BOOLEAN /\ exited \in BOOLEAN
    BY DEF Init
  <2> QED
    BY <2>2, <2>3, <2>4 DEF TypeInv, TypeOK
<1>2. TypeInv /\ [Next]_vars => TypeInv'
  BY ActorTypeStep, OtherTypeStep DEF Next, MainNext, Actors
<1> QED
  BY <1>1, <1>2, PTL DEF Spec

\* The supervisor's variables always have their types.
THEOREM TypeCorrect == Spec => []TypeOK
<1>1. TypeInv => TypeOK
  BY DEF TypeInv
<1> QED
  BY <1>1, TypeInvAlways, PTL

-----------------------------------------------------------------------------
(* What a step does to a process *)

\* One step of one process, as its Lifecycle allows it: r becomes q.
Moves(r, q) ==
  \/ q = r
  \/ ~r.inStart /\ q = [r EXCEPT !.inStart = TRUE, !.stopByUser = FALSE]
  \/ q = [r EXCEPT !.stopByUser = TRUE]
  \/ r.inStart /\ ~r.stopByUser /\ r.phase = "down" /\ q = [r EXCEPT !.phase = "announced"]
  \/ r.phase = "announced" /\ q = [r EXCEPT !.phase = "up"]
  \/ r.phase = "up" /\ q = [r EXCEPT !.phase = "gone"]
  \/ r.phase \in {"announced", "gone"} /\ q = [r EXCEPT !.phase = "down"]
  \/ r.inStart /\ r.phase = "down" /\ q = [r EXCEPT !.inStart = FALSE]

\* Whoever acts, each process of each table makes one of these steps.
LEMMA ProcMoves ==
  ASSUME TypeInv, Next, NEW s \in Sups, NEW p \in Procs
  PROVE  Moves(proc[s][p], proc'[s][p])
<1>t. proc \in [Sups -> [Procs -> ProcType]]
  BY DEF TypeInv, TypeOK
<1>u. ASSUME NEW t, NEW q, NEW r, proc' = [proc EXCEPT ![t][q] = r], Moves(proc[t][q], r)
      PROVE  Moves(proc[s][p], proc'[s][p])
  <2>1. proc'[s][p] = IF s = t /\ p = q THEN r ELSE proc[s][p]
    BY <1>t, <1>u
  <2>2. Moves(proc[s][p], proc[s][p])
    BY DEF Moves
  <2> QED
    BY <1>u, <2>1, <2>2
<1>1. ASSUME NEW a \in Actors, NEW q \in Procs, StartOne(a, q)
      PROVE  Moves(proc[s][p], proc'[s][p])
  <2>1. \A r : Moves(r, Started(r))
    BY DEF Moves, Started
  <2>2. proc' = [proc EXCEPT ![act[a].sup][q] = Started(proc[act[a].sup][q])]
    BY <1>1 DEF StartOne
  <2> QED
    BY <1>u, <2>1, <2>2
<1>2. ASSUME NEW a \in Actors, NEW q \in Procs, StopOne(a, q)
      PROVE  Moves(proc[s][p], proc'[s][p])
  <2>1. \A r : Moves(r, Stopped(r))
    BY DEF Moves, Stopped
  <2>2. proc' = [proc EXCEPT ![act[a].sup][q] = Stopped(proc[act[a].sup][q])]
    BY <1>2 DEF StopOne
  <2> QED
    BY <1>u, <2>1, <2>2
<1>3. ASSUME NEW k \in Clients, SignalRequest(k) PROVE Moves(proc[s][p], proc'[s][p])
  BY <1>t, <1>3 DEF SignalRequest, Moves
<1>4. ASSUME NEW t \in Sups, NEW q \in Procs, ProcessNext(t, q)
      PROVE  Moves(proc[s][p], proc'[s][p])
  <2>1. PICK r : Become(t, q, r) /\ Moves(proc[t][q], r)
    BY <1>4 DEF ProcessNext, Attempt, ChildExit, Settle, Moves
  <2> QED
    BY <1>u, <2>1 DEF Become
<1>5. CASE UNCHANGED proc
  BY <1>5 DEF Moves
<1> QED
  BY <1>1, <1>2, <1>3, <1>4, <1>5
  DEF Next, MainNext, ActorNext, Request, StopReturn, StartHttpServer, ReloadDone, CallsDone,
      Exit, NewSupervisor, Return, WaitForExit, CtxDone, StartRequest, StopRequest,
      ShutdownRequest, ReloadRequest, Handle, RestartRequest, Listen, Actors

\* Whatever main and the requests do to it at the same time, every process of every
\* table behaves as module Process promises (ProcsAreLifecycles).
THEOREM ProcsAreLifecyclesAlways == Spec => ProcsAreLifecycles
<1>1. ASSUME TypeInv, Next, NEW s \in Sups, NEW p \in Procs
      PROVE  LC(s, p)!Next \/ UNCHANGED proc[s][p]
  <2>1. Moves(proc[s][p], proc'[s][p]) /\ proc[s][p] \in ProcType
    BY <1>1, ProcMoves DEF TypeInv, TypeOK
  <2> QED
    BY <2>1 DEF Moves, ProcType, LC!Next, LC!Start, LC!Stop, LC!Attempt, LC!Launch, LC!Exit,
                LC!Report, LC!End
<1>2. TypeInv /\ [Next]_vars =>
        [\A s \in Sups, p \in Procs : LC(s, p)!Next \/ UNCHANGED proc[s][p]]_vars
  BY <1>1
<1> QED
  BY <1>2, TypeInvAlways, PTL DEF Spec, ProcsAreLifecycles

-----------------------------------------------------------------------------
(* Programs of earlier Supervisors *)

\* p has been stopped and not been started again, but for a request.
Stopping(s, p) == <<s, p>> \in revived \/ proc[s][p].stopByUser

\* p is down and stays so, but for a request.
Quiet(s, p) == <<s, p>> \in revived \/ (proc[s][p].stopByUser /\ proc[s][p].phase = "down")

\* main leaves a Supervisor only when each of its programs is quiet; until then it
\* has still to stop the program, or waits for it.
RevivedInv ==
  \A p \in Programs :
    /\ \A s \in Sups : s < cur => Quiet(s, p)
    /\ cur \in Sups /\ act[main].pc \in {"loop", "returned"} => Quiet(cur, p)
    /\ act[main].pc = "stop" =>
         \/ p \in act[main].todo
         \/ p \in act[main].wait /\ Stopping(cur, p)
         \/ Quiet(cur, p)

\* Only main starts a program that was stopped without leaving a trace in revived,
\* and only main wipes that trace.
LEMMA StoppedKept ==
  ASSUME TypeInv, Next, NEW s \in Sups, NEW p \in Procs
  PROVE  /\ <<s, p>> \in revived => <<s, p>> \in revived' \/ (s = cur /\ StopOne(main, p))
         /\ proc[s][p].stopByUser =>
              \/ proc'[s][p].stopByUser
              \/ <<s, p>> \in revived'
              \/ s = cur /\ StartOne(main, p)
<1>t. proc \in [Sups -> [Procs -> ProcType]]
  BY DEF TypeInv, TypeOK
<1> DEFINE Goal == /\ <<s, p>> \in revived => <<s, p>> \in revived' \/ (s = cur /\ StopOne(main, p))
                   /\ proc[s][p].stopByUser =>
                        \/ proc'[s][p].stopByUser
                        \/ <<s, p>> \in revived'
                        \/ s = cur /\ StartOne(main, p)
<1>1. ASSUME NEW a \in Actors, NEW q \in Procs, StartOne(a, q) PROVE Goal
  <2>1. proc' = [proc EXCEPT ![act[a].sup][q] = Started(proc[act[a].sup][q])]
    BY <1>1 DEF StartOne
  <2>2. proc'[s][p] = IF act[a].sup = s /\ q = p THEN Started(proc[s][p]) ELSE proc[s][p]
    BY <1>t, <2>1
  <2>3. revived \subseteq revived'
    BY <1>1 DEF StartOne
  <2>4. CASE act[a].sup = s /\ q = p /\ a # main /\ ~proc[s][p].inStart
    BY <1>1, <2>3, <2>4 DEF StartOne
  <2>5. CASE proc[s][p].inStart
    BY <2>2, <2>3, <2>5 DEF Started
  <2>6. CASE act[a].sup = s /\ q = p /\ a = main
    BY <1>1, <2>3, <2>6 DEF cur
  <2>7. CASE ~(act[a].sup = s /\ q = p)
    BY <2>2, <2>3, <2>7
  <2> QED
    BY <2>4, <2>5, <2>6, <2>7
<1>2. ASSUME NEW a \in Actors, NEW q \in Procs, StopOne(a, q) PROVE Goal
  <2>1. proc' = [proc EXCEPT ![act[a].sup][q] = Stopped(proc[act[a].sup][q])]
    BY <1>2 DEF StopOne
  <2>2. proc'[s][p] = IF act[a].sup = s /\ q = p THEN Stopped(proc[s][p]) ELSE proc[s][p]
    BY <1>t, <2>1
  <2>3. proc[s][p].stopByUser => proc'[s][p].stopByUser
    BY <1>t, <2>2 DEF Stopped, ProcType
  <2>4. revived' = IF a = main THEN revived \ {<<act[a].sup, q>>} ELSE revived
    BY <1>2 DEF StopOne
  <2>5. CASE a = main /\ act[a].sup = s /\ q = p
    BY <1>2, <2>3, <2>5 DEF cur
  <2>6. CASE ~(a = main /\ act[a].sup = s /\ q = p)
    BY <2>3, <2>4, <2>6
  <2> QED
    BY <2>5, <2>6
<1>3. ASSUME NEW k \in Clients, SignalRequest(k) PROVE Goal
  BY <1>t, <1>3 DEF SignalRequest, ProcType
<1>4. ASSUME NEW t \in Sups, NEW q \in Procs, ProcessNext(t, q) PROVE Goal
  <2>0. PICK r \in {[proc[t][q] EXCEPT !.phase = h] : h \in {"down", "announced", "up", "gone"}}
                     \cup {[proc[t][q] EXCEPT !.inStart = FALSE]} : Become(t, q, r)
    BY <1>4 DEF ProcessNext, Attempt, ChildExit, Settle
  <2>1. r.stopByUser = proc[t][q].stopByUser
    <3>1. proc[t][q] \in ProcType
      BY <1>t
    <3>2. \A h : [proc[t][q] EXCEPT !.phase = h].stopByUser = proc[t][q].stopByUser
      BY <3>1 DEF ProcType
    <3>3. [proc[t][q] EXCEPT !.inStart = FALSE].stopByUser = proc[t][q].stopByUser
      BY <3>1 DEF ProcType
    <3> QED
      BY <3>2, <3>3
  <2>2. proc'[s][p] = IF s = t /\ p = q THEN r ELSE proc[s][p]
    BY <1>t, <2>0 DEF Become
  <2> QED
    BY <2>0, <2>1, <2>2 DEF Become
<1>5. CASE UNCHANGED <<proc, revived>>
  BY <1>5
<1> QED
  BY <1>1, <1>2, <1>3, <1>4, <1>5
  DEF Next, MainNext, ActorNext, Request, StopReturn, StartHttpServer, ReloadDone, CallsDone,
      Exit, NewSupervisor, Return, WaitForExit, CtxDone, StartRequest, StopRequest,
      ShutdownRequest, ReloadRequest, Handle, RestartRequest, Listen, Actors

\* A program that is stopping, or quiet, stays so unless main itself acts on it.
LEMMA QuietKept ==
  ASSUME TypeInv, Next, NEW s \in Sups, NEW p \in Procs
  PROVE  /\ Stopping(s, p) => Stopping(s, p)' \/ (s = cur /\ StartOne(main, p))
                                              \/ (s = cur /\ StopOne(main, p))
         /\ Quiet(s, p) => Quiet(s, p)' \/ (s = cur /\ StartOne(main, p))
                                        \/ (s = cur /\ StopOne(main, p))
<1>1. Moves(proc[s][p], proc'[s][p]) /\ proc[s][p] \in ProcType
  BY ProcMoves DEF TypeInv, TypeOK
<1>2. proc[s][p].stopByUser /\ proc[s][p].phase = "down" => proc'[s][p].phase = "down"
  BY <1>1 DEF Moves, ProcType
<1> QED
  BY <1>2, StoppedKept DEF Stopping, Quiet

\* Every step keeps RevivedInv.
LEMMA RevivedStep ==
  ASSUME TypeInv, RevivedInv, Next
  PROVE  RevivedInv'
<1>t. act \in [Actors -> ActorType] /\ main \in Actors /\ act[main] \in ActorType
  BY DEF TypeInv, TypeOK, Actors
<1> SUFFICES ASSUME NEW p \in Programs
             PROVE  /\ \A s \in Sups : s < cur' => Quiet(s, p)'
                    /\ cur' \in Sups /\ act'[main].pc \in {"loop", "returned"} =>
                         \A s \in {cur'} : Quiet(s, p)'
                    /\ act'[main].pc = "stop" =>
                         \/ p \in act'[main].todo
                         \/ p \in act'[main].wait /\ \A s \in {cur'} : Stopping(s, p)'
                         \/ \A s \in {cur'} : Quiet(s, p)'
  BY DEF RevivedInv, Quiet, Stopping
<1>p. p \in Procs
  BY DEF Procs
<1>i. /\ \A s \in Sups : s < cur => Quiet(s, p)
      /\ cur \in Sups /\ act[main].pc \in {"loop", "returned"} => Quiet(cur, p)
      /\ act[main].pc = "stop" =>
           cur \in Sups /\ (p \in act[main].todo \/ (p \in act[main].wait /\ Stopping(cur, p))
                              \/ Quiet(cur, p))
      /\ cur \in 0 .. MaxSups
  BY <1>t DEF RevivedInv, TypeInv, Resting, cur, ActorType
<1>n. \A s \in Sups : s < cur => s # cur
  BY SupervisorAssumption, <1>i DEF Sups
<1>1. CASE act'[main] = act[main]
  <2>1. ~StartOne(main, p) /\ ~StopOne(main, p)
    BY <1>1, <1>t DEF StartOne, StopOne, ActorType
  <2>2. \A s \in Sups : (Stopping(s, p) => Stopping(s, p)') /\ (Quiet(s, p) => Quiet(s, p)')
    BY <2>1, <1>p, QuietKept
  <2> QED
    BY <1>1, <1>i, <2>2 DEF cur
<1>2. ASSUME NEW q \in Procs, StartOne(main, q) PROVE \A s \in Sups : s < cur => Quiet(s, p)'
  BY <1>i, <1>n, <1>p, QuietKept
<1>3. ASSUME NEW q \in Procs, StartOne(main, q)
      PROVE  act'[main].pc \in {"listeners", "programs"} /\ cur' = cur
  BY <1>3, <1>t DEF StartOne, TypeInv, ActorType, cur
<1>4. ASSUME NEW q \in Procs, StopOne(main, q)
      PROVE  /\ \A s \in Sups : s < cur => Quiet(s, p)'
             /\ act[main].pc = "stop" /\ act'[main].pc = "stop" /\ cur' = cur
             /\ act'[main].todo = act[main].todo \ {q} /\ act'[main].wait = act[main].wait \cup {q}
             /\ p # q => ~StartOne(main, p) /\ ~StopOne(main, p)
             /\ Stopping(cur, q)'
  <2>1. \A s \in Sups : s < cur => Quiet(s, p)'
    BY <1>i, <1>n, <1>p, QuietKept
  <2>2. act[main].pc = "stop" /\ q \in act[main].todo
    BY <1>4 DEF StopOne, TypeInv
  <2>3. act' = [act EXCEPT ![main].todo = @ \ {q}, ![main].wait = @ \cup {q}]
    BY <1>4, <2>2 DEF StopOne, StopWait
  <2>4. /\ act'[main].pc = "stop" /\ cur' = cur
        /\ act'[main].todo = act[main].todo \ {q} /\ act'[main].wait = act[main].wait \cup {q}
    BY <2>2, <2>3, <1>t DEF ActorType, cur
  <2>5. p # q => ~StartOne(main, p) /\ ~StopOne(main, p)
    <3>1. StartOne(main, p) \/ StopOne(main, p) => p \in act[main].todo /\ p \notin act'[main].todo
      BY <1>t DEF StartOne, StopOne, ActorType
    <3> QED
      BY <2>4, <3>1
  <2>6. proc'[cur][q].stopByUser
    <3>1. proc' = [proc EXCEPT ![cur][q] = Stopped(proc[cur][q])]
      BY <1>4 DEF StopOne, cur
    <3>2. proc \in [Sups -> [Procs -> ProcType]] /\ cur \in Sups
      BY <2>2, <1>i DEF TypeInv, TypeOK
    <3> QED
      BY <3>1, <3>2 DEF Stopped, ProcType
  <2> QED
    BY <2>1, <2>2, <2>4, <2>5, <2>6 DEF Stopping
<1>5. ASSUME NEW q \in Procs, StopReturn(main, q)
      PROVE  /\ UNCHANGED <<proc, revived>>
             /\ act'[main].pc = act[main].pc /\ cur' = cur
             /\ act'[main].todo = act[main].todo /\ act'[main].wait = act[main].wait \ {q}
             /\ proc[cur][q].phase = "down"
  BY <1>5, <1>t DEF StopReturn, WgDone, ActorType, cur
<1>6. CASE StartHttpServer(main) \/ ReloadDone(main)
  <2>1. UNCHANGED <<proc, revived>> /\ act'[main].pc \in {"programs", "wait"} /\ cur' = cur
    BY <1>6, <1>t DEF StartHttpServer, ReloadDone, ActorType, cur
  <2> QED
    BY <2>1, <1>i DEF Quiet
<1>7. CASE CallsDone(main)
  <2>1. /\ UNCHANGED <<proc, revived>> /\ act'[main].pc = "loop" /\ cur' = cur
        /\ act[main].pc = "stop" /\ act[main].todo = {} /\ act[main].wait = {}
    BY <1>7, <1>t DEF CallsDone, ActorType, cur, TypeInv
  <2> QED
    BY <2>1, <1>i DEF Quiet
<1>8. CASE NewSupervisor
  <2>1. /\ UNCHANGED <<proc, revived>> /\ act'[main].pc = "listeners" /\ cur' = cur + 1
        /\ act[main].pc = "loop"
    BY <1>8, <1>t DEF NewSupervisor, ActorType, cur
  <2>2. \A s \in Sups : s < cur + 1 => s < cur \/ s = cur
    BY <1>i, SupervisorAssumption DEF Sups
  <2> QED
    BY <2>1, <2>2, <1>i DEF Quiet
<1>9. CASE Return \/ WaitForExit
  <2>1. /\ UNCHANGED <<proc, revived>> /\ cur' = cur
        /\ \/ act[main].pc = "loop" /\ act'[main].pc = "returned"
           \/ act'[main].pc = "stop" /\ act'[main].todo = Programs
    BY <1>9, <1>t DEF Return, WaitForExit, ActorType, cur
  <2> QED
    BY <2>1, <1>i DEF Quiet
<1>10. ASSUME NEW q \in Procs, StopOne(main, q)
       PROVE  \/ p \in act'[main].todo
              \/ p \in act'[main].wait /\ \A s \in {cur'} : Stopping(s, p)'
              \/ \A s \in {cur'} : Quiet(s, p)'
  <2>1. CASE p = q
    BY <1>4, <1>10, <2>1
  <2>2. CASE p # q
    <3>1. (Stopping(cur, p) => Stopping(cur, p)') /\ (Quiet(cur, p) => Quiet(cur, p)')
      BY <1>4, <1>10, <2>2, <1>p, <1>i, QuietKept
    <3> QED
      BY <1>4, <1>10, <2>2, <1>i, <3>1
  <2> QED
    BY <2>1, <2>2
<1>11. CASE MainNext
  <2>1. ASSUME NEW q \in Procs, StopReturn(main, q)
        PROVE  /\ \A s \in Sups : s < cur' => Quiet(s, p)'
               /\ cur' \in Sups /\ act'[main].pc \in {"loop", "returned"} =>
                    \A s \in {cur'} : Quiet(s, p)'
               /\ act'[main].pc = "stop" =>
                    \/ p \in act'[main].todo
                    \/ p \in act'[main].wait /\ \A s \in {cur'} : Stopping(s, p)'
                    \/ \A s \in {cur'} : Quiet(s, p)'
    BY <1>5, <2>1, <1>i DEF Quiet, Stopping
  <2>2. Exit(main) => act'[main] = act[main]
    BY DEF Exit
  <2> QED
    BY <1>1, <1>2, <1>3, <1>4, <1>6, <1>7, <1>8, <1>9, <1>10, <1>11, <2>1, <2>2
    DEF MainNext, ActorNext
<1>12. CASE ~MainNext
  <2>1. \A k \in Clients : k # main
    BY SupervisorAssumption
  <2>2. ASSUME NEW k \in Clients, ActorNext(k) PROVE act'[main] = act[main]
    BY <2>1, <2>2, <1>t DEF ActorNext, StartOne, StopOne, StopReturn, StartHttpServer,
       ReloadDone, CallsDone, Exit
  <2>3. ASSUME NEW k \in Clients, Request(k) PROVE act'[main] = act[main]
    BY <2>1, <2>3, <1>t DEF Request, StartRequest, StopRequest, ShutdownRequest, ReloadRequest,
       Handle, RestartRequest, SignalRequest
  <2> QED
    BY <1>1, <1>12, <2>2, <2>3 DEF Next, CtxDone, Listen, ProcessNext, Attempt, ChildExit, Settle,
       Become
<1> QED
  BY <1>11, <1>12

\* Restarting the supervisor leaves no program behind: one of an earlier Supervisor
\* runs only because a request that still reached that Supervisor started it again
\* (OldProgramWasRevived).
THEOREM OldProgramWasRevivedAlways == Spec => []OldProgramWasRevived
<1>1. Init => RevivedInv
  <2> SUFFICES ASSUME Init PROVE RevivedInv
    OBVIOUS
  <2>1. cur = 0 /\ act[main].pc = "loop"
    BY DEF Init, Actors, Idle, cur
  <2> QED
    BY <2>1 DEF RevivedInv, Sups
<1>2. TypeInv /\ RevivedInv /\ [Next]_vars => RevivedInv'
  <2>1. CASE UNCHANGED vars
    BY <2>1 DEF vars, RevivedInv, Quiet, Stopping, cur
  <2> QED
    BY <2>1, RevivedStep
<1>3. RevivedInv => OldProgramWasRevived
  BY DEF RevivedInv, OldProgramWasRevived, Quiet
<1> QED
  BY <1>1, <1>2, <1>3, TypeInvAlways, PTL DEF Spec

=============================================================================

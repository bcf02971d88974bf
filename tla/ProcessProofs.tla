--------------------------- MODULE ProcessProofs ---------------------------
(***************************************************************************)
(* Theorems about Process, for every set of callers, goroutines, stoppers  *)
(* and exec.Cmd slots and every set of configurations, and about the       *)
(* delivery of the events a Process emits (EventListener).                 *)
(***************************************************************************)
EXTENDS Process, EventListener, TLAPS

-----------------------------------------------------------------------------
(* The inductive invariant *)

\* Start refuses to spawn a second goroutine before the first has ended.
OneGoroutine ==
  /\ \A g \in Goroutines : pc[g] # "idle" => inStart
  /\ \A g, h \in Goroutines : pc[g] # "idle" /\ pc[h] # "idle" => g = h

\* p.lock is held by the goroutine at the control points of run() between a
\* Lock and the next Unlock, and by nobody else across two steps.
LockDiscipline ==
  \A g \in Goroutines : lock = g <=> pc[g] \in {"loop", "exec", "retry"}

\* While a goroutine waits for its child, p.cmd is the launch it waits for and
\* the state is STARTING or RUNNING; at other times it has no launch.
WaitsForCurrent ==
  \A g \in Goroutines :
    IF pc[g] \in {"wait", "join"}
    THEN gcmd[g] = cmd /\ cmd # nil /\ state \in Live /\ exe[cmd] # "unstarted"
    ELSE gcmd[g] = nil

\* STARTING and RUNNING are only reported while a launch is under way or waited
\* for; EXITED and BACKOFF follow a launch.
StateBacked ==
  /\ state \in Live => \E g \in Goroutines : pc[g] \in {"exec", "wait", "join"}
  /\ \A g \in Goroutines : pc[g] = "exec" => state = "STARTING"
  /\ state \in {"EXITED", "BACKOFF"} => cmd # nil

\* An exec.Cmd whose child is alive is one a goroutine waits for.
AliveAwaited ==
  \A c \in Cmds : exe[c] = "alive" =>
    \E g \in Goroutines : pc[g] = "wait" /\ gcmd[g] = c

Safe ==
  /\ OneGoroutine
  /\ LockDiscipline
  /\ WaitsForCurrent
  /\ StateBacked
  /\ AliveAwaited

-----------------------------------------------------------------------------
(* Type correctness *)

\* A monitor goroutine belongs to the Start goroutine that launched its child.
MonitorOwned == \A c \in Cmds : mon[c] # "idle" => run[c].of \in Goroutines

\* The type invariant is inductive together with MonitorOwned: finishCb, which a
\* monitor calls, marks the goroutine the monitor belongs to.
TypeInv == TypeOK /\ MonitorOwned

\* The record values assigned by the actions have their types.
LEMMA RecordTypes ==
  /\ IdleCaller \in CallerType
  /\ \A g \in Goroutines : [pc |-> "startWait", g |-> g] \in CallerType
  /\ IdleStopper \in StopperType
  /\ NoRun \in RunType
BY DEF IdleCaller, CallerType, IdleStopper, StopperType, NoRun, RunType

\* A Start that is accepted keeps the types.
LEMMA SpawnType ==
  ASSUME TypeOK, NEW k \in Callers, NEW g \in Goroutines, NEW wait \in BOOLEAN,
         Spawn(k, g, wait)
  PROVE  TypeOK'
<1> USE RecordTypes DEF TypeOK, Spawn, GPc
<1>1. CASE wait
  BY <1>1
<1>2. CASE ~wait
  BY <1>2
<1> QED
  BY <1>1, <1>2

\* Every step of the callers, the Start goroutine, the monitors, the stoppers
\* and the child keeps every variable within its type.
LEMMA TypeStep == TypeInv /\ [Next]_vars => TypeOK'
<1> SUFFICES ASSUME TypeInv, [Next]_vars PROVE TypeOK'
  OBVIOUS
<1>1. config \in ConfigType /\ TypeOK
  BY ConfigAssumption DEF TypeInv, TypeOK
<1> USE <1>1 DEF TypeOK, procVars, syncVars, ConfigType,
                ProcessState, Child, GPc, RunType, CallerType, StopperType
<1>2. ASSUME NEW k \in Callers, NEW wait \in BOOLEAN, Start(k, wait) PROVE TypeOK'
  BY <1>2, SpawnType DEF Start, FreeGoroutines
<1>3. ASSUME NEW k \in Callers, NEW after \in {"idle", "stopWait", "restartStop"}, Stop(k, after) PROVE TypeOK'
  BY <1>3 DEF Stop, IdleCaller, FreeStoppers
<1>4. ASSUME NEW k \in Callers, StartReturn(k) PROVE TypeOK'
  BY <1>4 DEF StartReturn, IdleCaller
<1>5. ASSUME NEW k \in Callers, StopReturn(k) PROVE TypeOK'
  BY <1>5, SMTT(40) DEF StopReturn
<1>6. ASSUME NEW k \in Callers, RestartStart(k) PROVE TypeOK'
  <2>1. CASE \E g \in FreeGoroutines : Spawn(k, g, TRUE)
    BY <2>1, SpawnType DEF FreeGoroutines
  <2>2. CASE /\ caller' = [caller EXCEPT ![k] = IdleCaller]
             /\ UNCHANGED <<config, procVars, cmd, exe, pc, gcmd, syncVars, mon, run, stopper>>
    BY <2>2, RecordTypes
  <2> QED
    BY <1>6, <2>1, <2>2 DEF RestartStart
<1>7. ASSUME NEW g \in Goroutines, TakeL(g) PROVE TypeOK'
  BY <1>7 DEF TakeL
<1>8. ASSUME NEW g \in Goroutines, Enter(g) PROVE TypeOK'
  BY <1>8 DEF Enter
<1>9. ASSUME NEW g \in Goroutines, LoopTest(g) PROVE TypeOK'
  <2>1. CASE lock' = nil /\ Pause(g)
    BY <1>9, <2>1 DEF LoopTest, Pause
  <2>2. CASE Attempt(g) /\ UNCHANGED lock
    BY <1>9, <2>2 DEF LoopTest, Attempt
  <2>3. CASE lock' = nil /\ pc' = [pc EXCEPT ![g] = "ret"] /\ UNCHANGED <<state, retryTimes>>
    BY <1>9, <2>3 DEF LoopTest
  <2> QED
    BY <1>9, <2>1, <2>2, <2>3 DEF LoopTest, Pause
<1>10. ASSUME NEW g \in Goroutines, PauseEnd(g) PROVE TypeOK'
  BY <1>10 DEF PauseEnd, Attempt
<1>11. ASSUME NEW g \in Goroutines, CreateFails(g) PROVE TypeOK'
  <2>1. cmd' \in Cmds \cup {nil} /\ exe' \in [Cmds -> Child]
    BY <1>11 DEF CreateFails, NewCmd, FreeCmds
  <2>2. FailToStart(g) /\ spared' \in SUBSET Goroutines
    BY <1>11 DEF CreateFails
  <2> QED
    BY <1>11, <2>1, <2>2 DEF CreateFails, FailToStart, FinishCbWrapper, FinishCb
<1>12. ASSUME NEW g \in Goroutines, ExecFails(g) PROVE TypeOK'
  <2>1. cmd' \in Cmds /\ exe' \in [Cmds -> Child]
    BY <1>12 DEF ExecFails, NewCmd, FreeCmds
  <2>2. CASE FailToStart(g)
    <3>1. spared' \in SUBSET Goroutines
      BY <1>12 DEF ExecFails
    <3> QED BY <1>12, <2>1, <2>2, <3>1 DEF ExecFails, FailToStart, FinishCbWrapper, FinishCb
  <2>3. CASE state' = "BACKOFF" /\ pc' = [pc EXCEPT ![g] = "loop"] /\ UNCHANGED <<lock, L, once, caller>>
    BY <1>12, <2>1, <2>3 DEF ExecFails
  <2> QED
    BY <1>12, <2>2, <2>3 DEF ExecFails
<1>13. ASSUME NEW g \in Goroutines, ExecOk(g) PROVE TypeOK'
  BY <1>13 DEF ExecOk, NewCmd, FreeCmds
<1>14. ASSUME NEW g \in Goroutines, WaitForExit(g) PROVE TypeOK'
  BY <1>14 DEF WaitForExit
<1>15. ASSUME NEW g \in Goroutines, Join(g) PROVE TypeOK'
  BY <1>15 DEF Join
<1>16. ASSUME NEW g \in Goroutines, Retry(g) PROVE TypeOK'
  BY <1>16 DEF Retry, FailToStart, FinishCbWrapper, FinishCb
<1>17. ASSUME NEW g \in Goroutines, Decide(g) PROVE TypeOK'
  BY <1>17 DEF Decide
<1>18. ASSUME NEW g \in Goroutines, Clear(g) PROVE TypeOK'
  BY <1>18 DEF Clear
<1>19. ASSUME NEW c \in Cmds, MonitorExit(c) PROVE TypeOK'
  BY <1>19 DEF MonitorExit
<1>20. ASSUME NEW c \in Cmds, MonitorSettle(c) PROVE TypeOK'
  BY <1>20 DEF MonitorSettle
<1>21. ASSUME NEW c \in Cmds, MonitorFinish(c) PROVE TypeOK'
  <2>1. run[c].of \in Goroutines
    BY <1>21 DEF MonitorFinish, TypeInv, MonitorOwned
  <2> QED
    BY <1>21, <2>1, RecordTypes, SMTT(40) DEF MonitorFinish, FinishCb
<1>22. ASSUME NEW c \in Cmds, ChildExit(c) PROVE TypeOK'
  BY <1>22 DEF ChildExit
<1>23. ASSUME NEW s \in Stoppers, SendStopSignal(s) PROVE TypeOK'
  BY <1>23 DEF SendStopSignal
<1>24. ASSUME NEW s \in Stoppers, PollStopped(s) PROVE TypeOK'
  BY <1>24 DEF PollStopped, IdleStopper
<1>25. ASSUME NEW s \in Stoppers, PollTimeout(s) PROVE TypeOK'
  BY <1>25 DEF PollTimeout
<1>26. ASSUME NEW s \in Stoppers, Kill(s) PROVE TypeOK'
  BY <1>26 DEF Kill, IdleStopper
<1>27. CASE UNCHANGED vars
  BY <1>27 DEF vars
<1> QED
  BY <1>2, <1>3, <1>4, <1>5, <1>6, <1>7, <1>8, <1>9, <1>10, <1>11, <1>12, <1>13, <1>14,
     <1>15, <1>16, <1>17, <1>18, <1>19, <1>20, <1>21, <1>22, <1>23, <1>24, <1>25, <1>26, <1>27
     DEF Next, Call, CallerNext, GoroutineNext, MonitorNext, StopperNext

\* Only a launch and the end of a monitor change who owns a monitor.
LEMMA MonitorOwnedStep == TypeInv /\ [Next]_vars => MonitorOwned'
<1> SUFFICES ASSUME TypeInv, [Next]_vars PROVE MonitorOwned'
  OBVIOUS
<1> USE DEF TypeInv, TypeOK, MonitorOwned, RunType
<1>1. CASE \E g \in Goroutines : ExecOk(g)
  BY <1>1 DEF ExecOk
<1>2. CASE \E g \in Goroutines : Enter(g)
  BY <1>2 DEF Enter
<1>3. CASE \E c \in Cmds : MonitorNext(c)
  BY <1>3 DEF MonitorNext, MonitorExit, MonitorSettle, MonitorFinish, NoRun
<1>4. CASE UNCHANGED <<mon, run>>
  BY <1>4
<1> QED
  BY <1>1, <1>2, <1>3, <1>4
  DEF Next, Call, CallerNext, GoroutineNext, StopperNext, vars, Start, Spawn, Stop,
      StartReturn, StopReturn, RestartStart, TakeL, LoopTest, PauseEnd, CreateFails,
      ExecFails, WaitForExit, Join, Retry, Decide, Clear, SendStopSignal, PollStopped,
      PollTimeout, Kill, ChildExit

\* The variables of Process always have their types, for every set of callers,
\* goroutines and configurations.
THEOREM TypeCorrect == Spec => []TypeOK
<1>1. Init => TypeInv
  <2>1. ASSUME Init PROVE TypeOK
    <3>1. state \in ProcessState /\ inStart \in BOOLEAN /\ stopByUser \in BOOLEAN
      BY <2>1 DEF Init, ProcessState
    <3>2. /\ retryTimes \in Nat /\ config \in Configs
          /\ lock \in Goroutines \cup {nil} /\ cmd \in Cmds \cup {nil}
          /\ waited \in SUBSET Goroutines /\ L \in SUBSET Goroutines
          /\ once \in SUBSET Goroutines /\ spared \in SUBSET Goroutines
      BY <2>1 DEF Init
    <3>3. /\ exe \in [Cmds -> Child] /\ pc \in [Goroutines -> GPc]
          /\ gcmd \in [Goroutines -> Cmds \cup {nil}]
          /\ mon \in [Cmds -> {"idle", "watch", "settle", "finish"}]
      BY <2>1 DEF Init, Child, GPc
    <3>4. /\ run \in [Cmds -> RunType] /\ caller \in [Callers -> CallerType]
          /\ stopper \in [Stoppers -> StopperType]
      BY <2>1, RecordTypes DEF Init
    <3> QED
      BY <3>1, <3>2, <3>3, <3>4 DEF TypeOK
  <2>2. Init => MonitorOwned
    BY DEF Init, MonitorOwned
  <2> QED
    BY <2>1, <2>2 DEF TypeInv
<1>2. TypeInv /\ [Next]_vars => TypeInv'
  BY TypeStep, MonitorOwnedStep DEF TypeInv
<1>3. TypeInv => TypeOK
  BY DEF TypeInv
<1>4. QED
  BY <1>1, <1>2, <1>3, PTL DEF Spec

-----------------------------------------------------------------------------
(* No orphan, and no state without its process *)

\* An accepted Start changes no launch and finds no other goroutine.
LEMMA SpawnSafe ==
  ASSUME TypeOK, Safe, lock = nil, ~inStart, NEW k \in Callers,
         NEW g \in FreeGoroutines, NEW wait \in BOOLEAN, Spawn(k, g, wait)
  PROVE  Safe'
<1>1. g \in Goroutines /\ pc[g] = "idle" /\ gcmd[g] = nil
  BY DEF FreeGoroutines, Safe, WaitsForCurrent
<1>2. /\ pc' = [pc EXCEPT ![g] = "top"] /\ inStart'
      /\ UNCHANGED <<state, lock, cmd, exe, gcmd>>
  BY DEF Spawn
<1> QED
  BY <1>1, <1>2 DEF TypeOK, Safe, OneGoroutine, LockDiscipline, WaitsForCurrent,
                    StateBacked, AliveAwaited

\* Every step preserves the invariant.
LEMMA SafeStep == TypeOK /\ Safe /\ [Next]_vars => Safe'
<1> SUFFICES ASSUME TypeOK, Safe, [Next]_vars PROVE Safe'
  OBVIOUS
<1>1. ASSUME NEW k \in Callers, NEW wait \in BOOLEAN, Start(k, wait) PROVE Safe'
  BY <1>1, SpawnSafe DEF Start, StartAccepted
<1>2. ASSUME NEW k \in Callers, RestartStart(k), StartAccepted PROVE Safe'
  BY <1>2, SpawnSafe DEF RestartStart, StartAccepted
<1> USE NilAssumption DEF TypeOK, Safe, OneGoroutine, LockDiscipline, WaitsForCurrent,
        StateBacked, AliveAwaited, GPc, Child, ProcessState, Live, procVars
<1>3. ASSUME NEW g \in Goroutines, TakeL(g) PROVE Safe'
  BY <1>3 DEF TakeL
<1>4. ASSUME NEW g \in Goroutines, Enter(g) PROVE Safe'
  BY <1>4 DEF Enter
<1>5. ASSUME NEW g \in Goroutines, LoopTest(g) PROVE Safe'
  BY <1>5 DEF LoopTest, Attempt, Pause
<1>6. ASSUME NEW g \in Goroutines, PauseEnd(g) PROVE Safe'
  BY <1>6 DEF PauseEnd, Attempt
<1>7. ASSUME NEW g \in Goroutines, CreateFails(g) PROVE Safe'
  BY <1>7 DEF CreateFails, FailToStart, NewCmd, FreeCmds
<1>8. ASSUME NEW g \in Goroutines, ExecFails(g) PROVE Safe'
  BY <1>8 DEF ExecFails, FailToStart, NewCmd, FreeCmds
<1>9. ASSUME NEW g \in Goroutines, ExecOk(g) PROVE Safe'
  BY <1>9 DEF ExecOk, NewCmd, FreeCmds
<1>10. ASSUME NEW g \in Goroutines, WaitForExit(g) PROVE Safe'
  BY <1>10 DEF WaitForExit
<1>11. ASSUME NEW g \in Goroutines, Join(g) PROVE Safe'
  BY <1>11 DEF Join
<1>12. ASSUME NEW g \in Goroutines, Retry(g) PROVE Safe'
  BY <1>12 DEF Retry, FailToStart
<1>13. ASSUME NEW g \in Goroutines, Decide(g) PROVE Safe'
  BY <1>13 DEF Decide
<1>14. ASSUME NEW g \in Goroutines, Clear(g) PROVE Safe'
  BY <1>14 DEF Clear
<1>15. ASSUME NEW c \in Cmds, MonitorSettle(c) PROVE Safe'
  BY <1>15 DEF MonitorSettle, StartSucceeded
<1>16. ASSUME NEW s \in Stoppers, Kill(s) PROVE Safe'
  BY <1>16 DEF Kill
<1>17. ASSUME NEW c \in Cmds, ChildExit(c) PROVE Safe'
  BY <1>17 DEF ChildExit
<1>18. CASE UNCHANGED <<state, inStart, lock, cmd, exe, pc, gcmd>>
  BY <1>18
<1> HIDE DEF TypeOK, Safe, OneGoroutine, LockDiscipline, WaitsForCurrent, StateBacked,
             AliveAwaited, GPc, Child, ProcessState, Live
<1> QED
  BY <1>1, <1>2, <1>3, <1>4, <1>5, <1>6, <1>7, <1>8, <1>9, <1>10, <1>11, <1>12, <1>13, <1>14, <1>15, <1>16, <1>17, <1>18
  DEF Next, Call, CallerNext, GoroutineNext, MonitorNext, StopperNext, vars, Stop,
      StartReturn, StopReturn, RestartStart, MonitorExit, MonitorFinish,
      SendStopSignal, PollStopped, PollTimeout

\* The initial state satisfies the invariant.
LEMMA SafeInit == Init => Safe
BY NilAssumption DEF Init, Safe, OneGoroutine, LockDiscipline, WaitsForCurrent, StateBacked,
       AliveAwaited, Live

\* The invariant holds in every reachable state.
LEMMA SafeAlways == Spec => [](TypeOK /\ Safe)
<1>1. TypeOK /\ Safe /\ [Next]_vars => Safe'
  BY SafeStep
<1>2. QED
  BY <1>1, SafeInit, TypeCorrect, PTL DEF Spec

\* Never an orphan: whatever Start, Stop, the monitors and the restarts do, a
\* live child is the one p.cmd refers to, it is waited for, and the reported
\* state is STARTING or RUNNING.
THEOREM NoOrphanAlways == Spec => []NoOrphan
<1>1. TypeOK /\ Safe => NoOrphan
  BY DEF TypeOK, Safe, WaitsForCurrent, AliveAwaited, NoOrphan
<1>2. QED
  BY <1>1, SafeAlways, PTL

\* The getters never dereference a nil p.cmd or p.cmd.Process.
THEOREM StateImpliesCmdAlways == Spec => []StateImpliesCmd
<1>1. TypeOK /\ Safe => StateImpliesCmd
  BY NilAssumption DEF TypeOK, Safe, WaitsForCurrent, StateBacked, LockDiscipline, StateImpliesCmd,
       ProcessState, Live, GetPid, GetDescription, GetExitstatus
<1>2. QED
  BY <1>1, SafeAlways, PTL

\* A monitor only reports its own launch as RUNNING: the programExited flag it
\* reads is 0 only while its launch is the one p.cmd refers to.
THEOREM PromotesOwnLaunchAlways == Spec => PromotesOwnLaunch
<1> DEFINE Own == \/ lock # nil
                  \/ cmd # nil /\ mon[cmd] = "settle" /\ mon'[cmd] = "finish"
<1>1. ASSUME TypeOK, Safe, [Next]_vars, state = "STARTING", state' = "RUNNING"
      PROVE  Own
  <2>1. CASE \E g \in Goroutines : ExecOk(g)
    BY <1>1, <2>1, NilAssumption DEF ExecOk, Safe, LockDiscipline
  <2>2. ASSUME NEW c \in Cmds, MonitorSettle(c) PROVE Own
    <3>1. PICK g \in Goroutines : pc[g] = "wait" /\ gcmd[g] = c
      BY <1>1, <2>2 DEF MonitorSettle, StartSucceeded, ProgramExited
    <3>2. cmd = c /\ c # nil
      BY <1>1, <3>1 DEF Safe, WaitsForCurrent
    <3> QED
      BY <1>1, <2>2, <3>2 DEF MonitorSettle, TypeOK
  <2>3. CASE state' # "RUNNING" \/ UNCHANGED state
    BY <1>1, <2>3
  <2> QED
    BY <1>1, <2>1, <2>2, <2>3
    DEF Next, Call, CallerNext, GoroutineNext, MonitorNext, StopperNext, vars, procVars,
        Start, Spawn, Stop, StartReturn, StopReturn, RestartStart, TakeL, Enter, LoopTest,
        Pause, Attempt, PauseEnd, CreateFails, ExecFails, FailToStart, WaitForExit, Join,
        Retry, Decide, Clear, MonitorExit, MonitorFinish, SendStopSignal, PollStopped,
        PollTimeout, Kill, ChildExit
<1>2. TypeOK /\ Safe /\ [Next]_vars => [state = "STARTING" /\ state' = "RUNNING" => Own]_vars
  BY <1>1
<1>3. QED
  BY <1>2, SafeAlways, PTL DEF Spec, PromotesOwnLaunch

-----------------------------------------------------------------------------
(* The number of attempts *)

\* Whenever run() is about to test its loop condition, or pauses, another
\* attempt is allowed.
AttemptLeft ==
  \A g \in Goroutines : pc[g] \in {"loop", "pause"} =>
    retryTimes = 0 \/ retryTimes < config.startretries

\* run() gives up in time: at most "startretries" attempts, and at least one.
THEOREM RetryBoundAlways == Spec => []RetryBound
<1> DEFINE Inv == RetryBound /\ AttemptLeft
<1>1. Init => Inv
  BY ConfigAssumption DEF Init, RetryBound, AttemptLeft, ConfigType
<1>2. TypeOK /\ Safe /\ Inv /\ [Next]_vars => Inv'
  <2> SUFFICES ASSUME TypeOK, Safe, Inv, [Next]_vars PROVE Inv'
    OBVIOUS
  <2>1. config \in ConfigType
    BY ConfigAssumption DEF TypeOK
  <2> USE <2>1 DEF ConfigType, TypeOK, RetryBound, AttemptLeft
  <2>2. ASSUME NEW g \in Goroutines, Enter(g) PROVE Inv'
    BY <2>2 DEF Enter
  <2>3. ASSUME NEW g \in Goroutines, LoopTest(g) PROVE Inv'
    BY <2>3 DEF LoopTest, Pause, Attempt, Safe, OneGoroutine
  <2>4. ASSUME NEW g \in Goroutines, PauseEnd(g) PROVE Inv'
    BY <2>4 DEF PauseEnd, Attempt, Safe, OneGoroutine
  <2>5. ASSUME NEW g \in Goroutines, ExecFails(g) PROVE Inv'
    BY <2>5 DEF ExecFails, FailToStart, RetriesUsedUp
  <2>6. ASSUME NEW g \in Goroutines, Retry(g) PROVE Inv'
    BY <2>6 DEF Retry, FailToStart, RetriesUsedUp
  <2>7. CASE /\ UNCHANGED <<config, retryTimes>>
             /\ \A g \in Goroutines : pc'[g] \in {"loop", "pause"} => pc[g] \in {"loop", "pause"}
    BY <2>7
  <2>8. ASSUME \/ \E k \in Callers : Call(k) \/ CallerNext(k)
               \/ \E c \in Cmds : MonitorNext(c) \/ ChildExit(c)
               \/ \E s \in Stoppers : StopperNext(s)
               \/ UNCHANGED vars
        PROVE  Inv'
    <3>1. UNCHANGED <<config, retryTimes, pc>> \/ \E k \in Callers, g \in Goroutines, wait \in BOOLEAN : Spawn(k, g, wait)
      BY <2>8 DEF Call, CallerNext, MonitorNext, StopperNext, vars, procVars, Start, Stop,
        StartReturn, StopReturn, RestartStart, FreeGoroutines, MonitorExit, MonitorSettle,
        MonitorFinish, SendStopSignal, PollStopped, PollTimeout, Kill, ChildExit
    <3> QED
      BY <2>7, <3>1 DEF Spawn
  <2>9. ASSUME NEW g \in Goroutines,
               \/ TakeL(g) \/ CreateFails(g) \/ ExecOk(g) \/ WaitForExit(g)
               \/ Join(g) \/ Decide(g) \/ Clear(g)
        PROVE  Inv'
    BY <2>7, <2>9 DEF TakeL, CreateFails, FailToStart, ExecOk, WaitForExit, Join, Decide, Clear,
                      procVars
  <2> QED
    BY <2>2, <2>3, <2>4, <2>5, <2>6, <2>8, <2>9 DEF Next, GoroutineNext
<1>3. QED
  BY <1>1, <1>2, SafeAlways, PTL DEF Spec

-----------------------------------------------------------------------------
(* runCond.L *)

\* A Start(true) goroutine has runCond.L from the moment it enters run() until
\* the sync.Once of that run() has fired.
HoldsL ==
  \A g \in waited :
    /\ pc[g] = "enter" => g \in L
    /\ pc[g] \in {"loop", "pause", "exec", "wait", "join", "retry"} /\ g \notin once => g \in L

\* The monitor slots in use are those that belong to a Start goroutine.
OwnedWhileActive == \A c \in Cmds : mon[c] = "idle" <=> run[c].of = nil

\* A monitor whose run() is the current one and has not called finishCb finds L
\* held, and the next run() has not been entered; a monitor of an earlier run()
\* that never called finishCb has no waiting caller.
MonitorFindsL ==
  \A c \in Cmds : run[c].of \in waited =>
    /\ run[c].once = "current" /\ run[c].of \notin once =>
         run[c].of \in L /\ pc[run[c].of] # "enter"
    /\ run[c].once # "open"

SyncInv == HoldsL /\ OwnedWhileActive /\ MonitorFindsL

\* Every step preserves the invariant on runCond.L.
LEMMA SyncStep == TypeOK /\ Safe /\ SyncInv /\ [Next]_vars => SyncInv'
<1> SUFFICES ASSUME TypeOK, Safe, SyncInv, [Next]_vars PROVE SyncInv'
  OBVIOUS
<1> USE NilAssumption DEF TypeOK, SyncInv, HoldsL, OwnedWhileActive, MonitorFindsL, RunType
<1>1. ASSUME NEW k \in Callers, NEW g \in FreeGoroutines, NEW wait \in BOOLEAN,
             Spawn(k, g, wait)
      PROVE  SyncInv'
  BY <1>1 DEF Spawn, FreeGoroutines
<1>2. ASSUME NEW g \in Goroutines, TakeL(g) PROVE SyncInv'
  BY <1>2 DEF TakeL, procVars
<1>3. ASSUME NEW g \in Goroutines, Enter(g) PROVE SyncInv'
  BY <1>3 DEF Enter
<1>4. ASSUME NEW g \in Goroutines, LoopTest(g) PROVE SyncInv'
  BY <1>4 DEF LoopTest, Pause, Attempt, syncVars
<1>5. ASSUME NEW g \in Goroutines, PauseEnd(g) PROVE SyncInv'
  BY <1>5 DEF PauseEnd, Attempt, syncVars
<1>6. ASSUME NEW g \in Goroutines, CreateFails(g) PROVE SyncInv'
  BY <1>6 DEF CreateFails, FailToStart, FinishCbWrapper, FinishCb
<1>7. ASSUME NEW g \in Goroutines, ExecFails(g) PROVE SyncInv'
  BY <1>7 DEF ExecFails, FailToStart, FinishCbWrapper, FinishCb
<1>8. ASSUME NEW g \in Goroutines, ExecOk(g) PROVE SyncInv'
  BY <1>8 DEF ExecOk, FreeCmds, syncVars
<1>9. ASSUME NEW g \in Goroutines, Retry(g) PROVE SyncInv'
  BY <1>9 DEF Retry, FailToStart, FinishCbWrapper, FinishCb
<1>10. ASSUME NEW g \in Goroutines,
              WaitForExit(g) \/ Join(g) \/ Decide(g) \/ Clear(g)
       PROVE  SyncInv'
  BY <1>10 DEF WaitForExit, Join, Decide, Clear, syncVars
<1>11. ASSUME NEW c \in Cmds, MonitorExit(c) \/ MonitorSettle(c) PROVE SyncInv'
  BY <1>11 DEF MonitorExit, MonitorSettle, procVars, syncVars
<1>12. ASSUME NEW c \in Cmds, MonitorFinish(c) PROVE SyncInv'
  BY <1>12 DEF MonitorFinish, FinishCb, NoRun, OnceDone, procVars
<1>13. CASE UNCHANGED <<pc, waited, L, once, mon, run>>
  BY <1>13
<1> HIDE DEF TypeOK, SyncInv, HoldsL, OwnedWhileActive, MonitorFindsL, RunType
<1> QED
  BY <1>1, <1>2, <1>3, <1>4, <1>5, <1>6, <1>7, <1>8, <1>9, <1>10, <1>11, <1>12, <1>13
  DEF Next, Call, CallerNext, GoroutineNext, MonitorNext, StopperNext, vars, syncVars, Start,
      Stop, StartReturn, StopReturn, RestartStart, SendStopSignal, PollStopped, PollTimeout,
      Kill, ChildExit

\* A finishCb never unlocks a free runCond.L, which would abort the supervisor.
THEOREM UnlockHeldAlways == Spec => []UnlockHeld
<1>1. Init => SyncInv
  BY DEF Init, SyncInv, HoldsL, OwnedWhileActive, MonitorFindsL, NoRun
<1>2. TypeOK /\ SyncInv => UnlockHeld
  BY NilAssumption DEF TypeOK, RunType, SyncInv, HoldsL, OwnedWhileActive, MonitorFindsL,
      UnlockHeld, OnceDone
<1>3. TypeOK /\ Safe /\ SyncInv /\ [Next]_vars => SyncInv'
  BY SyncStep
<1>4. QED
  BY <1>1, <1>2, <1>3, SafeAlways, PTL DEF Spec

-----------------------------------------------------------------------------
(* Process implements Lifecycle *)

\* A pause is only made where the program section asks for one.
PauseConfigured == \A g \in Goroutines : pc[g] = "pause" => config.restartpause > 0

LifecycleInv == TypeOK /\ Safe /\ PauseConfigured

\* What the control point of the Start goroutine says about the phase.
LEMMA PhaseOf ==
  ASSUME TypeOK, Safe
  PROVE  /\ ~inStart => Phase = "down"
         /\ \A g \in Goroutines :
              /\ pc[g] = "exec" => Phase = "announced"
              /\ pc[g] = "wait" => Phase = IF exe[cmd] = "alive" THEN "up" ELSE "gone"
              /\ pc[g] = "join" => Phase = "gone"
              /\ pc[g] \notin {"idle", "exec", "wait", "join"} => Phase = "down"
<1> USE DEF TypeOK, Safe, OneGoroutine, StateBacked, AliveAwaited, WaitsForCurrent, Live, Phase
<1>1. ~inStart => Phase = "down"
  OBVIOUS
<1>2. ASSUME NEW g \in Goroutines, pc[g] = "exec" PROVE Phase = "announced"
  BY <1>2
<1>3. ASSUME NEW g \in Goroutines, pc[g] = "wait"
      PROVE  Phase = IF exe[cmd] = "alive" THEN "up" ELSE "gone"
  <2>1. state \in Live /\ cmd \in Cmds /\ \A h \in Goroutines : pc[h] # "exec"
    BY <1>3
  <2>2. \A c \in Cmds : exe[c] = "alive" => c = cmd
    BY <1>3
  <2> QED
    BY <2>1, <2>2
<1>4. ASSUME NEW g \in Goroutines, pc[g] = "join" PROVE Phase = "gone"
  BY <1>4
<1>5. ASSUME NEW g \in Goroutines, pc[g] \notin {"idle", "exec", "wait", "join"}
      PROVE  Phase = "down"
  BY <1>5
<1> QED
  BY <1>1, <1>2, <1>3, <1>4, <1>5

\* Steps that neither launch, end nor report anything leave the phase alone.
LEMMA PhaseKept ==
  ASSUME state' \in Live <=> state \in Live, exe' = exe,
         \A g \in Goroutines : pc'[g] = "exec" <=> pc[g] = "exec"
  PROVE  Phase' = Phase
BY DEF Phase

\* The end of a child, by itself or by SIGKILL.
LEMMA PhaseExit ==
  ASSUME TypeOK, Safe, UNCHANGED <<state, cmd, pc>>,
         NEW c \in Cmds, exe[c] = "alive", exe'[c] # "alive",
         \A d \in Cmds \ {c} : exe'[d] = exe[d]
  PROVE  Phase = "up" /\ Phase' = "gone"
<1>1. PICK g \in Goroutines : pc[g] = "wait" /\ gcmd[g] = c
  BY DEF Safe, AliveAwaited
<1>2. c = cmd /\ state \in Live
  BY <1>1 DEF Safe, WaitsForCurrent
<1>3. \A d \in Cmds : exe'[d] # "alive"
  BY <1>1, <1>2 DEF Safe, AliveAwaited, OneGoroutine
<1>4. \A h \in Goroutines : pc[h] # "exec"
  BY <1>1 DEF Safe, OneGoroutine
<1> QED
  BY <1>2, <1>3, <1>4 DEF Phase

\* An accepted Start is the abstract Start.
LEMMA SpawnRefines ==
  ASSUME TypeOK, Safe, ~inStart, NEW k \in Callers, NEW g \in FreeGoroutines,
         NEW wait \in BOOLEAN, Spawn(k, g, wait)
  PROVE  Abstract!Start
<1>1. g \in Goroutines /\ pc[g] = "idle"
  BY DEF FreeGoroutines
<1>2. Phase' = Phase
  BY <1>1, PhaseKept DEF Spawn, TypeOK
<1> QED
  BY <1>2 DEF Spawn, Abstract!Start

\* Every step of Process is a step of Lifecycle, or changes nothing there.
LEMMA LifecycleStep == LifecycleInv /\ [Next]_vars => [Abstract!Next]_(Abstract!vars)
<1> SUFFICES ASSUME LifecycleInv, [Next]_vars PROVE [Abstract!Next]_(Abstract!vars)
  OBVIOUS
<1>1. TypeOK /\ Safe
  BY DEF LifecycleInv
<1> DEFINE Kept == UNCHANGED <<inStart, stopByUser, config>>
           Goal == Abstract!Next \/ UNCHANGED Abstract!vars
<1>2. ASSUME Kept, Phase' = Phase PROVE Goal
  BY <1>2 DEF Abstract!vars
<1>3. ASSUME NEW k \in Callers, NEW wait \in BOOLEAN, Start(k, wait) PROVE Goal
  BY <1>1, <1>3, SpawnRefines DEF Start, StartAccepted, Abstract!Next
<1>4. ASSUME NEW k \in Callers, RestartStart(k), StartAccepted PROVE Goal
  BY <1>1, <1>4, SpawnRefines DEF RestartStart, StartAccepted, Abstract!Next
<1>5. ASSUME NEW k \in Callers, NEW after \in {"idle", "stopWait", "restartStop"}, Stop(k, after)
      PROVE  Goal
  <2>1. Phase' = Phase
    BY <1>5, PhaseKept DEF Stop
  <2> QED
    BY <1>5, <2>1 DEF Stop, Abstract!Next, Abstract!Stop
<1>6. ASSUME NEW g \in Goroutines, Attempt(g), Kept, exe' = exe, pc[g] \in {"loop", "pause"},
             stopByUser => config.restartpause > 0
      PROVE  Goal
  <2>1. inStart /\ Phase = "down"
    BY <1>1, <1>6, PhaseOf DEF Safe, OneGoroutine
  <2>2. pc'[g] = "exec"
    BY <1>1, <1>6 DEF Attempt, TypeOK
  <2>3. Phase' = "announced"
    BY <1>1, <1>6, <2>1, <2>2 DEF Phase, Live, Attempt, Safe, AliveAwaited, OneGoroutine
  <2> QED
    BY <1>6, <2>1, <2>3 DEF Abstract!Next, Abstract!Attempt
<1>7. ASSUME NEW g \in Goroutines, LoopTest(g) PROVE Goal
  <2>1. Kept /\ exe' = exe
    BY <1>7 DEF LoopTest
  <2>2. CASE Attempt(g) /\ ~stopByUser
    BY <1>6, <1>7, <2>1, <2>2 DEF LoopTest
  <2>3. CASE state' = state /\ (pc' = [pc EXCEPT ![g] = "ret"] \/ pc' = [pc EXCEPT ![g] = "pause"])
    BY <1>1, <1>2, <1>7, <2>1, <2>3, PhaseKept DEF LoopTest, TypeOK
  <2> QED
    BY <1>7, <2>2, <2>3 DEF LoopTest, LoopCondition, Pause
<1>8. ASSUME NEW g \in Goroutines, PauseEnd(g) PROVE Goal
  BY <1>6, <1>8 DEF PauseEnd, LifecycleInv, PauseConfigured
<1>9. ASSUME NEW g \in Goroutines, pc[g] \in {"exec", "join"}, Kept, state' \notin Live PROVE Goal
  <2>1. Phase \in {"announced", "gone"} /\ Phase' = "down"
    BY <1>1, <1>9, PhaseOf DEF Phase
  <2> QED
    BY <1>9, <2>1 DEF Abstract!Next, Abstract!Report
<1>10. ASSUME NEW g \in Goroutines, CreateFails(g) \/ ExecFails(g) \/ Join(g) PROVE Goal
  BY <1>9, <1>10 DEF CreateFails, ExecFails, FailToStart, Join, Live
<1>11. ASSUME NEW g \in Goroutines, ExecOk(g) PROVE Goal
  <2>1. Phase = "announced"
    BY <1>1, <1>11, PhaseOf DEF ExecOk
  <2>2. state' \in Live
    BY <1>1, <1>11 DEF ExecOk, Safe, StateBacked, Live
  <2>3. \E c \in Cmds : exe'[c] = "alive"
    BY <1>11 DEF ExecOk, NewCmd, FreeCmds
  <2>4. Phase' = "up"
    BY <2>2, <2>3 DEF Phase
  <2> QED
    BY <1>11, <2>1, <2>4 DEF ExecOk, Abstract!Next, Abstract!Launch
<1>12. ASSUME NEW g \in Goroutines, Retry(g) PROVE Goal
  <2>1. Phase = "down" /\ state \notin Live
    BY <1>1, <1>12, PhaseOf DEF Retry, Phase
  <2>2. Phase' = "down"
    BY <1>12, <2>1 DEF Retry, FailToStart, Phase, Live
  <2> QED
    BY <1>2, <1>12, <2>1, <2>2 DEF Retry
<1>13. ASSUME NEW g \in Goroutines, Clear(g) PROVE Goal
  <2>1. inStart /\ Phase = "down"
    BY <1>1, <1>13, PhaseOf DEF Clear, Safe, OneGoroutine
  <2>2. Phase' = Phase
    BY <1>1, <1>13, PhaseKept DEF Clear, TypeOK
  <2> QED
    BY <1>13, <2>1, <2>2 DEF Clear, Abstract!Next, Abstract!End
<1>14. ASSUME NEW g \in Goroutines, TakeL(g) \/ Enter(g) \/ WaitForExit(g) \/ Decide(g) PROVE Goal
  <2>1. Kept /\ UNCHANGED <<state, exe>>
    BY <1>14 DEF TakeL, Enter, WaitForExit, Decide, procVars
  <2>2. \A h \in Goroutines : pc'[h] = "exec" <=> pc[h] = "exec"
    BY <1>1, <1>14 DEF TakeL, Enter, WaitForExit, Decide, TypeOK
  <2> QED
    BY <1>2, <2>1, <2>2, PhaseKept
<1>15. ASSUME NEW c \in Cmds, MonitorSettle(c) PROVE Goal
  <2>1. state' \in Live <=> state \in Live
    BY <1>15 DEF MonitorSettle, StartSucceeded, Live
  <2> QED
    BY <1>2, <1>15, <2>1, PhaseKept DEF MonitorSettle
<1>16. ASSUME UNCHANGED <<state, cmd, pc>>, Kept, NEW c \in Cmds, exe[c] = "alive",
              exe'[c] # "alive", \A d \in Cmds \ {c} : exe'[d] = exe[d]
       PROVE  Goal
  BY <1>1, <1>16, PhaseExit DEF Abstract!Next, Abstract!Exit
<1>17. ASSUME NEW c \in Cmds, ChildExit(c) PROVE Goal
  BY <1>1, <1>16, <1>17 DEF ChildExit, TypeOK, procVars
<1>18. ASSUME NEW s \in Stoppers, Kill(s) PROVE Goal
  <2>1. CASE cmd \in Cmds /\ exe[cmd] = "alive"
    BY <1>1, <1>16, <1>18, <2>1 DEF Kill, TypeOK, procVars
  <2>2. CASE ~(cmd \in Cmds /\ exe[cmd] = "alive")
    <3>1. exe' = exe
      BY <1>1, <1>18, <2>2 DEF Kill, TypeOK
    <3> QED
      BY <1>2, <1>18, <3>1, PhaseKept DEF Kill, procVars
  <2> QED
    BY <2>1, <2>2
<1>19. CASE UNCHANGED <<config, procVars, exe, pc>>
  BY <1>2, <1>19, PhaseKept DEF procVars
<1> QED
  BY <1>3, <1>4, <1>5, <1>7, <1>8, <1>10, <1>11, <1>12, <1>13, <1>14, <1>15, <1>17, <1>18, <1>19
  DEF Next, Call, CallerNext, GoroutineNext, MonitorNext, StopperNext, vars, procVars,
      StartReturn, StopReturn, RestartStart, MonitorExit, MonitorFinish, SendStopSignal,
      PollStopped, PollTimeout

\* Only LoopTest enters the pause.
LEMMA PauseConfiguredStep == TypeOK /\ PauseConfigured /\ [Next]_vars => PauseConfigured'
<1> SUFFICES ASSUME TypeOK, PauseConfigured, [Next]_vars PROVE PauseConfigured'
  OBVIOUS
<1> USE DEF TypeOK, PauseConfigured
<1>1. ASSUME NEW g \in Goroutines, LoopTest(g) PROVE PauseConfigured'
  BY <1>1 DEF LoopTest, Pause, Attempt
<1>2. CASE config' = config /\ \A g \in Goroutines : pc'[g] = "pause" => pc[g] = "pause"
  BY <1>2
<1>3. ASSUME NEW g \in Goroutines, GoroutineNext(g), ~LoopTest(g) PROVE PauseConfigured'
  BY <1>2, <1>3
  DEF GoroutineNext, TakeL, Enter, PauseEnd, Attempt, CreateFails, ExecFails, FailToStart,
      ExecOk, WaitForExit, Join, Retry, Decide, Clear
<1>4. ASSUME NEW k \in Callers, NEW g \in FreeGoroutines, NEW wait \in BOOLEAN, Spawn(k, g, wait)
      PROVE  PauseConfigured'
  BY <1>2, <1>4 DEF Spawn, FreeGoroutines
<1>5. CASE UNCHANGED <<config, pc>>
  BY <1>5
<1> QED
  BY <1>1, <1>3, <1>4, <1>5, ZenonT(40)
  DEF Next, Call, CallerNext, MonitorNext, StopperNext, vars, Start, Stop, StartReturn,
      StopReturn, RestartStart, MonitorExit, MonitorSettle, MonitorFinish, SendStopSignal,
      PollStopped, PollTimeout, Kill, ChildExit

\* Process implements Lifecycle: what the supervisor relies on (a refused second
\* Start, at most one child, the end of every child reported before the next launch,
\* no launch after Stop unless in a restart pause) holds for every configuration.
THEOREM LifecycleImplemented == Spec => ImplementsLifecycle
<1>1. Init => Abstract!Init
  <2> SUFFICES ASSUME Init PROVE Abstract!Init
    OBVIOUS
  <2>1. Phase = "down"
    BY DEF Init, Phase, Live
  <2>2. (config.restartpause > 0) \in BOOLEAN
    OBVIOUS
  <2> QED
    BY <2>1, <2>2 DEF Init, Abstract!Init
<1>2. Init => PauseConfigured
  BY DEF Init, PauseConfigured
<1>3. TypeOK /\ PauseConfigured /\ [Next]_vars => PauseConfigured'
  BY PauseConfiguredStep
<1>4. TypeOK /\ Safe /\ PauseConfigured /\ [Next]_vars => [Abstract!Next]_(Abstract!vars)
  BY LifecycleStep DEF LifecycleInv
<1>5. QED
  BY <1>1, <1>2, <1>3, <1>4, SafeAlways, PTL DEF Spec, ImplementsLifecycle, Abstract!Spec

-----------------------------------------------------------------------------
(* No launch after Stop *)

\* Between the loop test and the launch p.lock is held, and Stop waits for it; only a
\* restart pause, which gives the lock away, lets a Stop in between, and Stop then finds
\* the goroutine in that pause.
LaunchAllowed ==
  \A g \in Goroutines : pc[g] \in {"pause", "exec"} => ~stopByUser \/ g \in spared

\* Every step keeps LaunchAllowed.
LEMMA LaunchAllowedStep ==
  ASSUME TypeOK, Safe, LaunchAllowed, [Next]_vars
  PROVE  LaunchAllowed'
<1> USE DEF LaunchAllowed
<1>1. ASSUME NEW k \in Callers, NEW after \in {"idle", "stopWait", "restartStop"}, Stop(k, after)
      PROVE  LaunchAllowed'
  <2>1. \A g \in Goroutines : pc[g] # "exec"
    BY <1>1, NilAssumption DEF Stop, Safe, LockDiscipline
  <2> QED BY <1>1, <2>1 DEF Stop
<1>2. ASSUME NEW g \in Goroutines, LoopTest(g) PROVE LaunchAllowed'
  <2>1. CASE ~LoopCondition
    BY <1>2, <2>1 DEF LoopTest, LoopCondition, TypeOK
  <2>2. CASE LoopCondition
    BY <1>2, <2>2 DEF LoopTest, LoopCondition
  <2> QED BY <2>1, <2>2
<1>3. ASSUME NEW g \in Goroutines, PauseEnd(g) PROVE LaunchAllowed'
  BY <1>3 DEF PauseEnd, Attempt, TypeOK
<1>4. ASSUME NEW g \in Goroutines, CreateFails(g) \/ ExecFails(g) \/ ExecOk(g) PROVE LaunchAllowed'
  <2>1. /\ UNCHANGED stopByUser
        /\ spared' = spared \ {g}
        /\ pc'[g] \notin {"pause", "exec"}
        /\ \A h \in Goroutines \ {g} : pc'[h] = pc[h]
    BY <1>4 DEF CreateFails, ExecFails, ExecOk, FailToStart, TypeOK
  <2> QED BY <2>1
<1>5. ASSUME NEW g \in Goroutines, TakeL(g) \/ Enter(g) \/ WaitForExit(g) \/ Join(g) \/ Retry(g)
                                     \/ Decide(g) \/ Clear(g)
      PROVE  LaunchAllowed'
  <2>1. /\ UNCHANGED <<stopByUser, spared>>
        /\ pc'[g] \notin {"pause", "exec"}
        /\ \A h \in Goroutines \ {g} : pc'[h] = pc[h]
    BY <1>5 DEF TakeL, Enter, WaitForExit, Join, Retry, FailToStart, Decide, Clear, procVars, TypeOK
  <2> QED BY <2>1
<1>6. ASSUME NEW k \in Callers, NEW g \in FreeGoroutines, NEW wait \in BOOLEAN, Spawn(k, g, wait)
      PROVE  LaunchAllowed'
  BY <1>6 DEF Spawn
<1>7. CASE UNCHANGED <<stopByUser, spared, pc>>
  BY <1>7
<1> QED
  BY <1>1, <1>2, <1>3, <1>4, <1>5, <1>6, <1>7
  DEF Next, Call, CallerNext, GoroutineNext, MonitorNext, StopperNext, vars, procVars, Start,
      StartReturn, StopReturn, RestartStart, MonitorExit, MonitorSettle, MonitorFinish,
      SendStopSignal, PollStopped, PollTimeout, Kill, ChildExit

\* Only a goroutine at its launch makes a child alive, and the launch ends its attempt.
LEMMA LaunchIsExec ==
  ASSUME TypeOK, [Next]_vars, NEW c \in Cmds, Launch(c)
  PROVE  \E g \in Goroutines : pc[g] = "exec" /\ g \notin spared'
<1> USE DEF Launch
<1>1. ASSUME NEW g \in Goroutines, GoroutineNext(g), pc[g] # "exec" PROVE exe' = exe
  BY <1>1 DEF GoroutineNext, TakeL, Enter, LoopTest, PauseEnd, CreateFails, ExecFails, ExecOk,
              WaitForExit, Join, Retry, Decide, Clear
<1>2. ASSUME NEW g \in Goroutines, GoroutineNext(g), pc[g] = "exec" PROVE g \notin spared'
  BY <1>2 DEF GoroutineNext, TakeL, Enter, LoopTest, PauseEnd, CreateFails, ExecFails, ExecOk,
              WaitForExit, Join, Retry, Decide, Clear
<1>3. ASSUME NEW d \in Cmds, ChildExit(d) PROVE exe'[c] # "alive"
  BY <1>3 DEF ChildExit, TypeOK
<1>4. ASSUME NEW s \in Stoppers, StopperNext(s) PROVE exe'[c] # "alive"
  BY <1>4 DEF StopperNext, SendStopSignal, PollStopped, PollTimeout, Kill
<1>5. ASSUME \/ \E k \in Callers : Call(k) \/ CallerNext(k)
             \/ \E d \in Cmds : MonitorNext(d)
             \/ UNCHANGED vars
      PROVE  exe' = exe
  BY <1>5 DEF Call, CallerNext, MonitorNext, vars, Start, Stop, Spawn, StartReturn, StopReturn,
              RestartStart, MonitorExit, MonitorSettle, MonitorFinish
<1> QED BY <1>1, <1>2, <1>3, <1>4, <1>5 DEF Next

\* Whatever the configuration and whatever goroutines of Start and Stop run at once: once
\* Stop has set stopByUser no child is launched until the next Start clears it, but for
\* the one attempt of a goroutine whose restart pause Stop fell into (run, Stop).
THEOREM NoLaunchAfterStopAlways == Spec => NoLaunchAfterStop
<1>1. Init => LaunchAllowed
  BY DEF Init, LaunchAllowed
<1>2. TypeOK /\ Safe /\ LaunchAllowed /\ [Next]_vars => LaunchAllowed'
  BY LaunchAllowedStep
<1>3. TypeOK /\ LaunchAllowed /\ [Next]_vars =>
        [\A c \in Cmds : Launch(c) /\ stopByUser =>
           \E g \in spared : pc[g] = "exec" /\ g \notin spared']_vars
  <2> SUFFICES ASSUME TypeOK, LaunchAllowed, [Next]_vars, NEW c \in Cmds, Launch(c), stopByUser
               PROVE  \E g \in spared : pc[g] = "exec" /\ g \notin spared'
    OBVIOUS
  <2>1. PICK g \in Goroutines : pc[g] = "exec" /\ g \notin spared'
    BY LaunchIsExec
  <2> QED BY <2>1 DEF LaunchAllowed
<1> QED BY <1>1, <1>2, <1>3, SafeAlways, PTL DEF Spec, NoLaunchAfterStop

-----------------------------------------------------------------------------
(* The events a Process emits *)

\* The emitters know a listener's queue by its at, and what they put there is a serial.
QueueInv ==
  /\ DOMAIN emitter = Emitters
  /\ \A e \in Emitters : /\ DOMAIN emitter[e] = {"todo", "at", "serial"}
                         /\ emitter[e].at \in Listeners \cup {NoListener}
                         /\ emitter[e].serial \in Int
  /\ poolserial \in Int
  /\ events \in [Listeners -> Seq(Int)]
  /\ DOMAIN lpc = Listeners /\ DOMAIN sent = Listeners
  /\ InFlightIsFirst

\* Whoever appends to a queue leaves its first event first.
LEMMA AppendKeepsFirst ==
  ASSUME NEW q \in Seq(Int), NEW n \in Int
  PROVE  Append(q, n) \in Seq(Int) /\ (q # <<>> => Append(q, n) # <<>> /\ Head(Append(q, n)) = Head(q))
  OBVIOUS

\* Every step of the emitters and of the listeners keeps QueueInv.
LEMMA QueueStep ==
  ASSUME QueueInv, [EventNext]_eventVars
  PROVE  QueueInv'
<1> USE DEF QueueInv, InFlightIsFirst
<1>1. ASSUME NEW l \in Listeners, Register(l) PROVE QueueInv'
  BY <1>1 DEF Register
<1>2. ASSUME NEW l \in Listeners, ProgramExit(l) PROVE QueueInv'
  BY <1>2 DEF ProgramExit
<1>3. ASSUME NEW l \in Listeners, ListenerNext(l) PROVE QueueInv'
  <2>1. CASE WaitForReady(l) \/ Sleep(l) \/ ResultFail(l) \/ ResultUnknown(l)
    BY <2>1 DEF WaitForReady, Sleep, ResultFail, ResultUnknown
  <2>2. CASE SendEvent(l)
    BY <2>2 DEF SendEvent
  <2>3. CASE ResultOK(l)
    BY <2>3 DEF ResultOK
  <2> QED BY <1>3, <2>1, <2>2, <2>3 DEF ListenerNext
<1>4. ASSUME NEW e, NEW t, Emit(e, t) PROVE QueueInv'
  <2>1. CASE e \in Emitters
    BY <1>4, <2>1 DEF Emit
  <2>2. CASE e \notin Emitters
    BY <1>4, <2>2 DEF Emit
  <2> QED BY <2>1, <2>2
<1>5. ASSUME NEW e \in Emitters, NEW l \in Listeners, Encode(e, l) PROVE QueueInv'
  BY <1>5 DEF Encode
<1>6. ASSUME NEW e \in Emitters, HandleEvent(e) PROVE QueueInv'
  <2> DEFINE l == emitter[e].at
             r == [IdleEmitter EXCEPT !.todo = emitter[e].todo \ {l}]
             q == Push(l, emitter[e].serial)
  <2>1. l \in Listeners /\ UNCHANGED <<poolserial, sent>>
    BY <1>6 DEF HandleEvent
  <2>2. DOMAIN r = {"todo", "at", "serial"} /\ r.at = NoListener /\ r.serial = 0
    BY DEF IdleEmitter
  <2>3. emitter' = [emitter EXCEPT ![e] = r]
    BY <1>6 DEF HandleEvent
  <2>4. events' = [events EXCEPT ![l] = q]
    BY <1>6 DEF HandleEvent
  <2>q. q \in Seq(Int) /\ (events[l] # <<>> => q # <<>> /\ Head(q) = Head(events[l]))
    BY <2>1, AppendKeepsFirst DEF Push
  <2>5. DOMAIN lpc' = Listeners /\ \A k \in Listeners : lpc'[k] = "result" => lpc[k] = "result"
    BY <1>6, <2>1 DEF HandleEvent, Signal
  <2> HIDE DEF r, l, q
  <2>6. /\ DOMAIN emitter' = Emitters
        /\ \A f \in Emitters : /\ DOMAIN emitter'[f] = {"todo", "at", "serial"}
                               /\ emitter'[f].at \in Listeners \cup {NoListener}
                               /\ emitter'[f].serial \in Int
    BY <2>2, <2>3
  <2>7. events' \in [Listeners -> Seq(Int)] /\ InFlightIsFirst'
    BY <2>1, <2>4, <2>q, <2>5
  <2> QED BY <2>1, <2>5, <2>6, <2>7
<1>7. CASE UNCHANGED eventVars
  BY <1>7 DEF eventVars
<1> QED
  BY <1>1, <1>2, <1>3, <1>4, <1>5, <1>6, <1>7
  DEF EventNext, EmitFromProcess, EmitterNext, EmitTick

\* While the listener program works on an event, that event stays first in the queue,
\* however many emitters find the queue full or not, and whatever the listener's
\* goroutine does (HandleEvent, EventListener.start).
THEOREM InFlightIsFirstAlways == EventSpec => []InFlightIsFirst
<1>1. EventInit => QueueInv
  BY DEF EventInit, IdleEmitter, FirstSerial, QueueInv, InFlightIsFirst
<1>2. QueueInv => InFlightIsFirst
  BY DEF QueueInv
<1> QED BY <1>1, <1>2, QueueStep, PTL DEF EventSpec

=============================================================================

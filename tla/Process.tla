------------------------------ MODULE Process ------------------------------
(***************************************************************************)
(* One supervised program: subprocess/process/process.go.                  *)
(*                                                                         *)
(* A Process object is shared by                                           *)
(*   - Callers: the goroutines that call Start and Stop (RPC handlers, the *)
(*     start-up code, the file-change monitors);                           *)
(*   - Goroutines: the `go func()` each successful Start spawns, which     *)
(*     executes run() until the program is not to be restarted;            *)
(*   - one monitor goroutine per launch (monitorProgramIsRunning), named   *)
(*     here by the exec.Cmd it watches;                                    *)
(*   - Stoppers: the `go func()` each Stop spawns, which sends the stop    *)
(*     signals and at last SIGKILL.                                        *)
(* p.lock is modelled by its holder. A critical section without an         *)
(* observable intermediate state is one step guarded by lock = nil; the    *)
(* section of run(), which assigns p.state several times and is read       *)
(* without the lock by the stoppers, is several steps that hold it.        *)
(*                                                                         *)
(* Bounds: Callers, Goroutines, Stoppers and Cmds are pools of slots. A    *)
(* slot is taken again when nothing refers to the object in it any more,   *)
(* so a finite instance has infinite behaviours.                           *)
(***************************************************************************)
EXTENDS Integers, FiniteSets

CONSTANTS Callers, Goroutines, Stoppers, Cmds,
          Configs,     \* the program sections a Process may be created with
          nil

AutoRestart == {"false", "true", "unexpected"}

\* stopsignals: the number of names listed in "stopsignal".
ConfigType == [startsecs : Int, restartpause : Int, startretries : Int,
               autorestart : AutoRestart, stopsignals : Nat]

ASSUME ConfigAssumption == Configs \subseteq ConfigType
ASSUME NilAssumption == nil \notin Goroutines /\ nil \notin Cmds

VARIABLES
  config,        \* p.config, fixed at creation
  state,         \* p.state
  inStart,       \* p.inStart
  stopByUser,    \* p.stopByUser
  spared,        \* history: the Start goroutines the last Stop found in their restart
                 \* pause, until the attempt that follows the pause has been made
  retryTimes,    \* *p.retryTimes
  lock,          \* the goroutine inside run()'s critical section, or nil
  cmd,           \* p.cmd: the current exec.Cmd, or nil
  exe,           \* exe[c]: the child process behind exec.Cmd c
  pc,            \* pc[g]: control point of Start goroutine g
  gcmd,          \* gcmd[g]: the exec.Cmd g has launched and waits for
  waited,        \* the Start goroutines that belong to a Start(true)
  L,             \* those whose runCond.L is held by the goroutine or finishCb
  once,          \* those whose current run()'s sync.Once has fired
  mon,           \* mon[c]: control point of the goroutine watching c
  run,           \* run[c]: the Start goroutine and the run() c belongs to
  caller,        \* caller[k]: what caller k is doing
  stopper        \* stopper[s]: the Stop goroutine in slot s

syncVars == <<waited, L, once>>
procVars == <<state, inStart, stopByUser, spared, retryTimes, lock>>
vars == <<config, state, inStart, stopByUser, spared, retryTimes, lock, cmd, exe, pc,
          gcmd, waited, L, once, mon, run, caller, stopper>>

-----------------------------------------------------------------------------
(* Types *)

\* The ProcessState values that are ever assigned: no code path assigns
\* STOPPING or UNKNOWN, and STOPPED is only the initial value.
ProcessState == {"STOPPED", "STARTING", "RUNNING", "BACKOFF", "EXITED", "FATAL"}

\* Mutant: a program in BACKOFF counts as not stopped yet.
LiveOrBackoff == {"STARTING", "RUNNING", "BACKOFF"}

\* The states in which Stop considers the program not stopped yet.
Live == {"STARTING", "RUNNING"}

\* The states in which GetPid, GetDescription and GetExitstatus look at the command.
GetPid == ProcessState \ {"STOPPED", "FATAL", "UNKNOWN", "EXITED", "BACKOFF"}
GetDescription == {"RUNNING"}
GetExitstatus == {"EXITED", "BACKOFF"}

\* "unstarted": cmd.Process = nil; "expected" and "unexpected": the child has
\* terminated, with an exit code in "exitcodes" or not (death by a signal has
\* status -1, which is not).
Child == {"unstarted", "alive", "expected", "unexpected"}

GPc == {"idle", "top", "enter", "loop", "pause", "exec", "wait", "join",
        "retry", "ret", "clear"}

\* of: the Start goroutine; once: "current" while the launch's run() is the one
\* in progress (it then shares that run's sync.Once), afterwards the value its
\* own sync.Once was left with.
RunType == [of : Goroutines \cup {nil}, once : {"current", "done", "open"}]

\* "restartStop" and "restartStart": in the Stop(true) and about to make the
\* Start(true) of a file-change monitor.
CallerType == [pc : {"idle", "startWait", "woken", "stopWait", "restartStop", "restartStart"},
               g : Goroutines \cup {nil}]

StopperType == [pc : {"idle", "signal", "poll", "kill"}, sigs : Nat]

TypeOK ==
  /\ config \in Configs
  /\ state \in ProcessState
  /\ inStart \in BOOLEAN
  /\ stopByUser \in BOOLEAN
  /\ spared \in SUBSET Goroutines
  /\ retryTimes \in Nat
  /\ lock \in Goroutines \cup {nil}
  /\ cmd \in Cmds \cup {nil}
  /\ exe \in [Cmds -> Child]
  /\ pc \in [Goroutines -> GPc]
  /\ gcmd \in [Goroutines -> Cmds \cup {nil}]
  /\ waited \in SUBSET Goroutines
  /\ L \in SUBSET Goroutines
  /\ once \in SUBSET Goroutines
  /\ mon \in [Cmds -> {"idle", "watch", "settle", "finish"}]
  /\ run \in [Cmds -> RunType]
  /\ caller \in [Callers -> CallerType]
  /\ stopper \in [Stoppers -> StopperType]

NoRun == [of |-> nil, once |-> "done"]
IdleCaller == [pc |-> "idle", g |-> nil]
IdleStopper == [pc |-> "idle", sigs |-> 0]

\* NewProcess
Init ==
  /\ config \in Configs
  /\ state = "STOPPED"
  /\ inStart = FALSE
  /\ stopByUser = FALSE
  /\ spared = {}
  /\ retryTimes = 0
  /\ lock = nil
  /\ cmd = nil
  /\ exe = [c \in Cmds |-> "unstarted"]
  /\ pc = [g \in Goroutines |-> "idle"]
  /\ gcmd = [g \in Goroutines |-> nil]
  /\ waited = {}
  /\ L = {}
  /\ once = {}
  /\ mon = [c \in Cmds |-> "idle"]
  /\ run = [c \in Cmds |-> NoRun]
  /\ caller = [k \in Callers |-> IdleCaller]
  /\ stopper = [s \in Stoppers |-> IdleStopper]

-----------------------------------------------------------------------------
(* Slots *)

FreeGoroutines ==
  {g \in Goroutines : /\ pc[g] = "idle"
                      /\ \A k \in Callers : caller[k].g # g
                      /\ \A c \in Cmds : run[c].of # g}

FreeStoppers == {s \in Stoppers : stopper[s].pc = "idle"}

\* The slots an exec.Command may take once goroutine g has dropped the launch
\* it was waiting for. p.cmd itself may be overwritten.
FreeCmds(g) ==
  {c \in Cmds : mon[c] = "idle" /\ \A h \in Goroutines \ {g} : gcmd[h] # c}

-----------------------------------------------------------------------------
(* Start *)

\* The new goroutine g of a Start; its caller waits on runCond when wait.
Spawn(k, g, wait) ==
  /\ inStart' = TRUE
  /\ stopByUser' = FALSE
  /\ spared' = {}
  /\ pc' = [pc EXCEPT ![g] = "top"]
  /\ waited' = IF wait THEN waited \cup {g} ELSE waited \ {g}
  /\ L' = L \ {g}
  /\ once' = once \ {g}
  /\ caller' = [caller EXCEPT ![k] =
        IF wait THEN [pc |-> "startWait", g |-> g] ELSE IdleCaller]
  /\ UNCHANGED <<config, state, retryTimes, lock, cmd, exe, gcmd, mon, run, stopper>>

\* Mutant: the inStart test is forgotten.
StartAcceptedAlways == lock = nil

\* Start takes p.lock and refuses a program whose goroutine is still there.
StartAccepted == lock = nil /\ ~inStart

\* An accepted Start. The goroutine cannot take runCond.L before the caller's
\* Wait releases it, so the call and the Wait are one step. The early return
\* "program is already started" changes nothing.
Start(k, wait) ==
  /\ caller[k].pc = "idle"
  /\ StartAccepted
  /\ \E g \in FreeGoroutines : Spawn(k, g, wait)

\* runCond.Wait returns: the caller takes runCond.L again and releases it.
StartReturn(k) ==
  /\ caller[k].pc = "woken"
  /\ caller[k].g \notin L
  /\ caller' = [caller EXCEPT ![k] = IdleCaller]
  /\ UNCHANGED <<config, procVars, cmd, exe, pc, gcmd, syncVars, mon, run, stopper>>

-----------------------------------------------------------------------------
(* The Start goroutine *)

\* The loop of Start takes runCond.L before each run().
TakeL(g) ==
  /\ pc[g] = "top"
  /\ g \notin L
  /\ pc' = [pc EXCEPT ![g] = "enter"]
  /\ L' = L \cup (waited \cap {g})
  /\ UNCHANGED <<config, procVars, cmd, exe, gcmd, waited, once, mon, run, caller, stopper>>

\* run() takes p.lock and makes a new sync.Once. p.isRunning() is false here:
\* it needs a ProcessState, which cmd.Wait only sets for a dead process.
Enter(g) ==
  /\ pc[g] = "enter"
  /\ lock = nil
  /\ FreeCmds(g) # {}
  /\ lock' = g
  /\ retryTimes' = 0
  /\ pc' = [pc EXCEPT ![g] = "loop"]
  /\ once' = once \ {g}
  /\ run' = [c \in Cmds |->
        IF run[c].of = g /\ run[c].once = "current"
        THEN [run[c] EXCEPT !.once = IF g \in once THEN "done" ELSE "open"]
        ELSE run[c]]
  /\ UNCHANGED <<config, state, inStart, stopByUser, spared, cmd, exe, gcmd, waited, L, mon, caller, stopper>>

Attempt(g) ==
  /\ state' = "STARTING"
  /\ retryTimes' = retryTimes + 1
  /\ pc' = [pc EXCEPT ![g] = "exec"]

\* Mutant: STARTING is reported before the pause instead of after it.
PauseAsStarting(g) ==
  /\ lock' = nil
  /\ pc' = [pc EXCEPT ![g] = "pause"]
  /\ state' = "STARTING"
  /\ UNCHANGED retryTimes

\* p.lock is released for the restart pause.
Pause(g) ==
  /\ lock' = nil
  /\ pc' = [pc EXCEPT ![g] = "pause"]
  /\ UNCHANGED <<state, retryTimes>>

\* Mutant: the loop does not look at stopByUser.
LoopForever == TRUE

\* Mutant: a program with a restart pause is tried again although it has been stopped.
LoopWithPause == ~stopByUser \/ config.restartpause > 0

\* The condition of run()'s loop.
LoopCondition == ~stopByUser

\* One evaluation of the loop condition and of the pause test.
LoopTest(g) ==
  /\ pc[g] = "loop"
  /\ \/ /\ ~LoopCondition
        /\ lock' = nil
        /\ pc' = [pc EXCEPT ![g] = "ret"]
        /\ UNCHANGED <<state, retryTimes>>
     \/ /\ LoopCondition
        /\ config.restartpause > 0 /\ retryTimes # 0
        /\ Pause(g)
     \/ /\ LoopCondition
        /\ ~(config.restartpause > 0 /\ retryTimes # 0)
        /\ Attempt(g)
        /\ UNCHANGED lock
  /\ UNCHANGED <<config, inStart, stopByUser, spared, cmd, exe, gcmd, syncVars, mon, run, caller, stopper>>

\* The pause ends and p.lock is taken again; stopByUser is not read again.
PauseEnd(g) ==
  /\ pc[g] = "pause"
  /\ lock = nil
  /\ FreeCmds(g) # {}
  /\ lock' = g
  /\ Attempt(g)
  /\ UNCHANGED <<config, inStart, stopByUser, spared, cmd, exe, gcmd, syncVars, mon, run, caller, stopper>>

\* finishCb for goroutine g: runCond.L is released, the waiting caller signalled.
FinishCb(g) ==
  /\ L' = L \ {g}
  /\ once' = once \cup {g}
  /\ caller' = [k \in Callers |->
        IF caller[k].pc = "startWait" /\ caller[k].g = g
        THEN [caller[k] EXCEPT !.pc = "woken"] ELSE caller[k]]

\* Mutant: run() gives up without calling finishCb.
NoFinishCb(g) == UNCHANGED <<L, once, caller>>

\* finishCbWrapper as run() itself calls it.
FinishCbWrapper(g) ==
  IF g \in once THEN UNCHANGED <<L, once, caller>> ELSE FinishCb(g)

\* failToStartProgram and the break after it, which leaves run().
FailToStart(g) ==
  /\ state' = "FATAL"
  /\ FinishCbWrapper(g)
  /\ lock' = nil
  /\ pc' = [pc EXCEPT ![g] = "ret"]

\* p.cmd = exec.Command(...). A terminated child that p.cmd no longer refers to
\* is forgotten.
NewCmd(c, child) ==
  /\ cmd' = c
  /\ exe' = [d \in Cmds |-> IF d = c THEN child
                            ELSE IF exe[d] = "alive" THEN "alive" ELSE "unstarted"]

\* createProgramCommand fails: before p.cmd is replaced (the command does not
\* parse) or after it (the user cannot be set).
CreateFails(g) ==
  /\ pc[g] = "exec"
  /\ spared' = spared \ {g}
  /\ FailToStart(g)
  /\ \/ UNCHANGED <<cmd, exe>>
     \/ \E c \in FreeCmds(g) : NewCmd(c, "unstarted")
  /\ UNCHANGED <<config, inStart, stopByUser, retryTimes, gcmd, waited, mon, run, stopper>>

\* The attempts made, the first one included, have used up "startretries".
RetriesUsedUp == retryTimes >= config.startretries

\* cmd.Start returns an error: FATAL after the last retry, else BACKOFF.
ExecFails(g) ==
  /\ pc[g] = "exec"
  /\ spared' = spared \ {g}
  /\ \E c \in FreeCmds(g) : NewCmd(c, "unstarted")
  /\ \/ /\ RetriesUsedUp
        /\ FailToStart(g)
     \/ /\ ~RetriesUsedUp
        /\ state' = "BACKOFF"
        /\ pc' = [pc EXCEPT ![g] = "loop"]
        /\ UNCHANGED <<lock, L, once, caller>>
  /\ UNCHANGED <<config, inStart, stopByUser, retryTimes, gcmd, waited, mon, run, stopper>>

\* Mutant: an off-by-one takes startsecs = 1 for "no start time".
NoStartSecsOffByOne == config.startsecs <= 1

\* startSecs <= 0: the program need not stay up to count as started.
NoStartSecs == config.startsecs <= 0

\* The local flags of a launch. programExited is 0 as long as the goroutine that
\* launched c is in waitForExit; monitorExited is 0 until the watch of c ends,
\* and forever when there is no monitor.
ProgramExited(c) == ~\E g \in Goroutines : pc[g] = "wait" /\ gcmd[g] = c
MonitorExited(c) == ~NoStartSecs /\ mon[c] # "watch"

\* The child is started. With startsecs <= 0 it is RUNNING at once and a
\* goroutine calls finishCb; nobody will set monitorExited. Otherwise the
\* monitor is spawned. run() releases p.lock to wait for the child.
ExecOk(g) ==
  /\ pc[g] = "exec"
  /\ spared' = spared \ {g}
  /\ \E c \in FreeCmds(g) :
       /\ NewCmd(c, "alive")
       /\ gcmd' = [gcmd EXCEPT ![g] = c]
       /\ run' = [run EXCEPT ![c] = [of |-> g, once |-> "current"]]
       /\ mon' = [mon EXCEPT ![c] = IF NoStartSecs THEN "finish" ELSE "watch"]
  /\ state' = IF NoStartSecs THEN "RUNNING" ELSE state
  /\ lock' = nil
  /\ pc' = [pc EXCEPT ![g] = "wait"]
  /\ UNCHANGED <<config, inStart, stopByUser, retryTimes, syncVars, caller, stopper>>

\* cmd.Wait returns, stopTime is set under p.lock, then programExited = 1.
WaitForExit(g) ==
  /\ pc[g] = "wait"
  /\ exe[gcmd[g]] # "alive"
  /\ lock = nil
  /\ pc' = [pc EXCEPT ![g] = "join"]
  /\ UNCHANGED <<config, procVars, cmd, exe, gcmd, syncVars, mon, run, caller, stopper>>

\* The monitor has set monitorExited; p.lock is taken. A RUNNING program has
\* EXITED and run() returns; any other start has failed.
Join(g) ==
  /\ pc[g] = "join"
  /\ MonitorExited(gcmd[g])
  /\ lock = nil
  /\ FreeCmds(g) # {}
  /\ gcmd' = [gcmd EXCEPT ![g] = nil]
  /\ \/ /\ state = "RUNNING"
        /\ state' = "EXITED"
        /\ pc' = [pc EXCEPT ![g] = "ret"]
        /\ UNCHANGED lock
     \/ /\ state # "RUNNING"
        /\ state' = "BACKOFF"
        /\ pc' = [pc EXCEPT ![g] = "retry"]
        /\ lock' = g
  /\ UNCHANGED <<config, inStart, stopByUser, spared, retryTimes, cmd, exe, syncVars, mon, run, caller, stopper>>

\* FATAL when the retries are used up, else the next turn of the loop.
Retry(g) ==
  /\ pc[g] = "retry"
  /\ \/ /\ RetriesUsedUp
        /\ FailToStart(g)
     \/ /\ ~RetriesUsedUp
        /\ pc' = [pc EXCEPT ![g] = "loop"]
        /\ UNCHANGED <<state, lock, L, once, caller>>
  /\ UNCHANGED <<config, inStart, stopByUser, spared, retryTimes, cmd, exe, gcmd, waited, mon, run, stopper>>

IsAutoRestart ==
  \/ config.autorestart = "true"
  \/ config.autorestart = "unexpected" /\ cmd # nil /\ exe[cmd] = "unexpected"

\* The Start goroutine calls run() once more.
RunAgain == ~stopByUser /\ IsAutoRestart

\* run() has returned: stop for the user, or for isAutoRestart, or run again.
Decide(g) ==
  /\ pc[g] = "ret"
  /\ lock = nil
  /\ pc' = [pc EXCEPT ![g] =
              IF RunAgain THEN "top" ELSE "clear"]
  /\ UNCHANGED <<config, procVars, cmd, exe, gcmd, syncVars, mon, run, caller, stopper>>

\* The goroutine's last section: inStart = false.
Clear(g) ==
  /\ pc[g] = "clear"
  /\ lock = nil
  /\ inStart' = FALSE
  /\ pc' = [pc EXCEPT ![g] = "idle"]
  /\ UNCHANGED <<config, state, stopByUser, spared, retryTimes, lock, cmd, exe, gcmd, syncVars, mon, run, caller, stopper>>

-----------------------------------------------------------------------------
(* The monitor of a launch *)

\* The watch ends, at endTime or once the program has exited: in either case
\* at a moment nobody controls. monitorExited is set before p.lock is taken.
MonitorExit(c) ==
  /\ mon[c] = "watch"
  /\ mon' = [mon EXCEPT ![c] = "settle"]
  /\ UNCHANGED <<config, procVars, cmd, exe, pc, gcmd, syncVars, run, caller, stopper>>

\* Mutant: the monitor does not look at its programExited flag.
StartSucceededAnyway(c) == state = "STARTING"

\* The watched program is still there at the end of its start time.
StartSucceeded(c) == ~ProgramExited(c) /\ state = "STARTING"

\* Under p.lock: the program counts as started if it has not exited.
MonitorSettle(c) ==
  /\ mon[c] = "settle"
  /\ lock = nil
  /\ state' = IF StartSucceeded(c) THEN "RUNNING" ELSE state
  /\ mon' = [mon EXCEPT ![c] = "finish"]
  /\ UNCHANGED <<config, inStart, stopByUser, spared, retryTimes, lock, cmd, exe, pc, gcmd,
                 syncVars, run, caller, stopper>>

\* The sync.Once of the run() that launched c has fired.
OnceDone(c) == IF run[c].once = "current" THEN run[c].of \in once
               ELSE run[c].once = "done"

\* The call of finishCbWrapper the monitor goroutine ends with. For an earlier
\* run() that nobody waits for, finishCb only sets a local flag.
MonitorFinish(c) ==
  /\ mon[c] = "finish"
  /\ mon' = [mon EXCEPT ![c] = "idle"]
  /\ IF OnceDone(c) \/ (run[c].once = "open" /\ run[c].of \notin waited)
     THEN UNCHANGED <<L, once, caller>>
     ELSE FinishCb(run[c].of)
  /\ run' = [run EXCEPT ![c] = NoRun]
  /\ UNCHANGED <<config, procVars, cmd, exe, pc, gcmd, waited, stopper>>

-----------------------------------------------------------------------------
(* Stop *)

\* n of the names in "stopsignal" have not been sent yet.
MoreSignals(n) == n > 0

\* Stop. after: "idle" for Stop(false), "stopWait" for Stop(true), "restartStop"
\* for the Stop(true) that a file-change monitor follows up with Start(true).
Stop(k, after) ==
  /\ caller[k].pc = "idle"
  /\ lock = nil
  /\ stopByUser' = TRUE
  /\ spared' = {g \in Goroutines : pc[g] = "pause"}
  /\ \E s \in FreeStoppers :
       stopper' = [stopper EXCEPT ![s] =
          [pc |-> IF MoreSignals(config.stopsignals) THEN "signal" ELSE "kill",
           sigs |-> config.stopsignals]]
  /\ caller' = [caller EXCEPT ![k] =
        [IdleCaller EXCEPT !.pc = after]]
  /\ UNCHANGED <<config, state, inStart, retryTimes, lock, cmd, exe, pc, gcmd, syncVars, mon, run>>

\* The polling loop of Stop(true) finds the program stopped.
StopReturn(k) ==
  /\ caller[k].pc \in {"stopWait", "restartStop"}
  /\ lock = nil
  /\ state \notin Live
  /\ caller' = [caller EXCEPT ![k].pc =
        IF caller[k].pc = "stopWait" THEN "idle" ELSE "restartStart"]
  /\ UNCHANGED <<config, procVars, cmd, exe, pc, gcmd, syncVars, mon, run, stopper>>

\* The Start(true) of a change monitor, accepted or refused because inStart.
RestartStart(k) ==
  /\ caller[k].pc = "restartStart"
  /\ \/ /\ StartAccepted
        /\ \E g \in FreeGoroutines : Spawn(k, g, TRUE)
     \/ /\ lock = nil
        /\ inStart
        /\ caller' = [caller EXCEPT ![k] = IdleCaller]
        /\ UNCHANGED <<config, procVars, cmd, exe, pc, gcmd, syncVars, mon, run, stopper>>

\* One stop signal is sent, under p.lock.RLock. The child may ignore it; if it
\* does not, ChildExit follows.
SendStopSignal(s) ==
  /\ stopper[s].pc = "signal"
  /\ lock = nil
  /\ stopper' = [stopper EXCEPT ![s].pc = "poll", ![s].sigs = @ - 1]
  /\ UNCHANGED <<config, procVars, cmd, exe, pc, gcmd, syncVars, mon, run, caller>>

\* p.state is read without the lock: stopped, the goroutine ends.
PollStopped(s) ==
  /\ stopper[s].pc = "poll"
  /\ state \notin Live
  /\ stopper' = [stopper EXCEPT ![s] = IdleStopper]
  /\ UNCHANGED <<config, procVars, cmd, exe, pc, gcmd, syncVars, mon, run, caller>>

\* stopwaitsecs are over: the next signal, or SIGKILL.
PollTimeout(s) ==
  /\ stopper[s].pc = "poll"
  /\ stopper' = [stopper EXCEPT ![s].pc = IF MoreSignals(stopper[s].sigs) THEN "signal" ELSE "kill"]
  /\ UNCHANGED <<config, procVars, cmd, exe, pc, gcmd, syncVars, mon, run, caller>>

\* SIGKILL, under p.lock.RLock, to the process p.cmd has by now.
Kill(s) ==
  /\ stopper[s].pc = "kill"
  /\ lock = nil
  /\ exe' = [c \in Cmds |-> IF c = cmd /\ exe[c] = "alive" THEN "unexpected" ELSE exe[c]]
  /\ stopper' = [stopper EXCEPT ![s] = IdleStopper]
  /\ UNCHANGED <<config, procVars, cmd, pc, gcmd, syncVars, mon, run, caller>>

-----------------------------------------------------------------------------
(* The child process *)

ChildExit(c) ==
  /\ exe[c] = "alive"
  /\ \E code \in {"expected", "unexpected"} : exe' = [exe EXCEPT ![c] = code]
  /\ UNCHANGED <<config, procVars, cmd, pc, gcmd, syncVars, mon, run, caller, stopper>>

-----------------------------------------------------------------------------

GoroutineNext(g) ==
  \/ TakeL(g) \/ Enter(g) \/ LoopTest(g) \/ PauseEnd(g)
  \/ CreateFails(g) \/ ExecFails(g) \/ ExecOk(g)
  \/ WaitForExit(g) \/ Join(g) \/ Retry(g) \/ Decide(g) \/ Clear(g)

MonitorNext(c) == MonitorExit(c) \/ MonitorSettle(c) \/ MonitorFinish(c)

StopperNext(s) == SendStopSignal(s) \/ PollStopped(s) \/ PollTimeout(s) \/ Kill(s)

CallerNext(k) == StartReturn(k) \/ StopReturn(k) \/ RestartStart(k)

Call(k) ==
  \/ \E wait \in BOOLEAN : Start(k, wait)
  \/ \E after \in {"idle", "stopWait", "restartStop"} : Stop(k, after)

Next ==
  \/ \E k \in Callers : Call(k) \/ CallerNext(k)
  \/ \E g \in Goroutines : GoroutineNext(g)
  \/ \E c \in Cmds : MonitorNext(c) \/ ChildExit(c)
  \/ \E s \in Stoppers : StopperNext(s)

Spec == Init /\ [][Next]_vars

\* Every goroutine is scheduled (weak fairness); sync.RWMutex and sync.Mutex do
\* not starve a waiter, so a goroutine that finds the lock free again and again
\* gets it (strong fairness). The poll of Stop(true) looks once a second and
\* may miss a state that does not last (weak fairness). Nobody has to call
\* Start or Stop, and the child need not exit unless it is killed.
Fairness ==
  /\ \A g \in Goroutines : SF_vars(GoroutineNext(g))
  /\ \A c \in Cmds : SF_vars(MonitorNext(c))
  /\ \A s \in Stoppers : SF_vars(StopperNext(s))
  /\ \A k \in Callers : /\ SF_vars(StartReturn(k) \/ RestartStart(k))
                        /\ WF_vars(StopReturn(k))

FairSpec == Spec /\ Fairness

-----------------------------------------------------------------------------
(* Safety *)

\* No orphan: a child that is alive is the one p.cmd refers to, so Stop and
\* Signal reach it, a Start goroutine waits for it, and (unless run() is inside
\* its critical section) the reported state says so. However Start, Stop and
\* the restarts interleave there is never a second child.
NoOrphan ==
  \A c \in Cmds : exe[c] = "alive" =>
     /\ c = cmd
     /\ \E g \in Goroutines : pc[g] = "wait" /\ gcmd[g] = c
     /\ state \in Live

\* The getters decide by p.state, under p.lock, whether to dereference p.cmd.Process
\* (GetPid, GetDescription) or p.cmd (GetExitstatus): whenever the lock is free the
\* pointer that state promises is there.
StateImpliesCmd ==
  lock = nil =>
    /\ state \in GetPid \cup GetDescription => cmd # nil /\ exe[cmd] # "unstarted"
    /\ state \in GetExitstatus => cmd # nil

\* runCond.L is unlocked only while it is held (unlocking a free sync.Mutex
\* aborts the whole supervisor): every finishCb still to come finds it held.
UnlockHeld ==
  /\ \A c \in Cmds :
       mon[c] = "finish" /\ ~OnceDone(c) /\ run[c].of \in waited => run[c].of \in L
  /\ \A g \in Goroutines :
       pc[g] \in {"exec", "retry"} /\ g \in waited /\ g \notin once => g \in L

\* run() makes at most "startretries" attempts (and at least one) on either
\* failure path before it gives up.
RetryBound == retryTimes <= IF config.startretries > 1 THEN config.startretries ELSE 1

\* A monitor that lags behind never reports a later launch as RUNNING: the step
\* to RUNNING is made by the monitor of the child p.cmd refers to, or by run()
\* when there is no start time.
PromotesOwnLaunch ==
  [][state = "STARTING" /\ state' = "RUNNING" =>
       \/ lock # nil
       \/ cmd # nil /\ mon[cmd] = "settle" /\ mon'[cmd] = "finish"]_vars

Launch(c) == exe[c] # "alive" /\ exe'[c] = "alive"

\* After Stop has set stopByUser, until a new Start clears it, no child is launched,
\* except the one attempt of a goroutine that was in its restart pause, without p.lock
\* and with the loop condition already read, when Stop came: there is at most one such
\* launch for a Stop.
NoLaunchAfterStop ==
  [][\A c \in Cmds : Launch(c) /\ stopByUser =>
       \E g \in spared : pc[g] = "exec" /\ g \notin spared']_vars

\* What Lifecycle shows of a Process.
Phase ==
  IF state \notin Live THEN "down"
  ELSE IF \E c \in Cmds : exe[c] = "alive" THEN "up"
  ELSE IF \E g \in Goroutines : pc[g] = "exec" THEN "announced" ELSE "gone"

Abstract == INSTANCE Lifecycle WITH phase <- Phase, pause <- config.restartpause > 0

\* Every step of the goroutines, monitors, stoppers and callers is a step of the
\* abstract life cycle or none at all: a Start is refused while one is there, at
\* most one child runs and only while STARTING or RUNNING is reported, the end
\* of every child is reported before the next launch, and a stopped program is not
\* tried again unless it was in its restart pause.
ImplementsLifecycle == Abstract!Spec

-----------------------------------------------------------------------------
(* Liveness, under FairSpec *)

\* Stop(true) returns, unless somebody starts the program again meanwhile.
StopTrueReturns ==
  \A k \in Callers : caller[k].pc \in {"stopWait", "restartStop"}
                       ~> caller[k].pc \in {"idle", "restartStart"} \/ ~stopByUser

\* Start(true) returns, unless the program is stopped meanwhile.
StartTrueReturnsUnlessStopped ==
  \A k \in Callers : caller[k].pc \in {"startWait", "woken"}
                       ~> caller[k].pc = "idle" \/ stopByUser

\* The end of the child is noticed: the state does not stay STARTING or RUNNING.
ExitNoticed ==
  (lock = nil /\ state \in Live /\ cmd # nil /\ exe[cmd] # "alive") ~> state \notin Live

=============================================================================

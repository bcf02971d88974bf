--------------------------- MODULE EventListener ---------------------------
(***************************************************************************)
(* Delivery of supervisor events to the event-listener program:            *)
(* subprocess/events/events.go, with the registration in                   *)
(* subprocess/process/process.go.                                          *)
(*                                                                         *)
(* Emitters are the goroutines that call EmitEvent: the tick timer, and    *)
(* those in which a process changes its state, writes to its log or a      *)
(* remote request arrives. Each launch of the listener program registers   *)
(* a new EventListener object with a queue and a goroutine of its own, for *)
(* the event types its events= option names; the objects of earlier        *)
(* launches stay registered. All of them draw from one pool serial, the    *)
(* listener's name being the pool.                                         *)
(*                                                                         *)
(* An event in a queue is its pool serial: after EmitEvent has looked up   *)
(* the listeners of its type, the type and the body are only text.         *)
(*                                                                         *)
(* Bounds: Listeners are the launches of the listener program, MaxSerial   *)
(* the number of events encoded, Options the values of events=.            *)
(***************************************************************************)
EXTENDS Integers, Sequences, SequencesExt

CONSTANTS Emitters, Timer, Listeners, Options, BufferSize, MaxSerial, NoListener

ASSUME EventAssumption ==
  /\ Timer \in Emitters
  /\ Options # {}
  /\ BufferSize \in Nat
  /\ MaxSerial \in Nat
  /\ NoListener \notin Listeners

-----------------------------------------------------------------------------
(* Event types *)

\* CreateProcess...Event: one type for each state changeStateTo enters.
ProcessStateTypes == {"PROCESS_STATE_STARTING", "PROCESS_STATE_RUNNING",
  "PROCESS_STATE_BACKOFF", "PROCESS_STATE_STOPPING", "PROCESS_STATE_EXITED",
  "PROCESS_STATE_STOPPED", "PROCESS_STATE_FATAL", "PROCESS_STATE_UNKNOWN"}

\* What NewProcCommEventCapture is made with.
ProcCommTypes == {"PROCESS_COMMUNICATION_STDOUT", "PROCESS_COMMUNICATION_STDERR"}

\* The event a log emitter makes of what is written, by the type of the emitter.
emitLogEvent(type) == IF type = "stdout" THEN "PROCESS_LOG_STDOUT" ELSE "PROCESS_LOG_STDERR"

\* A process makes both of its emitters with NewStdoutLogEventEmitter.
LogEventEmitters == {"stdout"}

ProcessLogTypes == {emitLogEvent(type) : type \in {"stdout", "stderr"}}

\* NewRemoteCommunicationEvent.
RemoteTypes == {"REMOTE_COMMUNICATION"}

\* The types of startTickTimer, for periods of 5, 60 and 3600 seconds.
TickTypes == {"TICK_5", "TICK_60", "TICK_3600"}

\* The final types, and the abstract types each of them derives from.
eventTypeDerives ==
  [t \in ProcessStateTypes |-> {"EVENT", "PROCESS_STATE"}] @@
  [t \in RemoteTypes |-> {"EVENT"}] @@
  [t \in ProcessLogTypes |-> {"EVENT", "PROCESS_LOG"}] @@
  [t \in ProcCommTypes |-> {"EVENT", "PROCESS_COMMUNICATION"}] @@
  [t \in {"SUPERVISOR_STATE_CHANGE_RUNNING", "SUPERVISOR_STATE_CHANGE_STOPPING"} |->
     {"EVENT", "SUPERVISOR_STATE_CHANGE"}] @@
  [t \in TickTypes |-> {"EVENT", "TICK"}] @@
  [t \in {"PROCESS_GROUP_ADDED", "PROCESS_GROUP_REMOVED"} |-> {"EVENT", "PROCESS_GROUP"}]

EventTypes == DOMAIN eventTypeDerives

\* The final types that a set of names of final or abstract types stands for.
AllEvents(names) == {t \in EventTypes : t \in names \/ eventTypeDerives[t] \cap names # {}}

-----------------------------------------------------------------------------

VARIABLES
  option,     \* the names in the listener program's events=
  eventListeners, \* em.eventListeners: the listeners of each event type
  poolserial, \* the next serial of the pool
  emitter,    \* emitter[e]: the listeners EmitEvent still has to serve, the
              \* listener being served and the serial encoded for it
  events,     \* events[l]: el.events, a sequence of serials
  lpc,        \* lpc[l]: control point of the goroutine of el.start
  alive,      \* the listeners whose program is running
  sent        \* sent[l]: the event last written to the program

eventVars == <<option, eventListeners, poolserial, emitter, events, lpc, alive, sent>>

Serial == 1 .. MaxSerial
IdleEmitter == [todo |-> {}, at |-> NoListener, serial |-> 0]

\* The serial of a pool the map does not know yet.
FirstSerial == 1

EventTypeOK ==
  /\ option \in Options
  /\ eventListeners \in [EventTypes -> SUBSET Listeners]
  /\ poolserial \in 1 .. MaxSerial + 1
  /\ emitter \in [Emitters -> [todo : SUBSET Listeners, at : Listeners \cup {NoListener},
                               serial : 0 .. MaxSerial]]
  /\ events \in [Listeners -> Seq(Serial)]
  /\ lpc \in [Listeners -> {"none", "ready", "first", "asleep", "result", "ended"}]
  /\ alive \in SUBSET Listeners
  /\ sent \in [Listeners -> 0 .. MaxSerial]

EventInit ==
  /\ option \in Options
  /\ eventListeners = [t \in EventTypes |-> {}]
  /\ poolserial = FirstSerial
  /\ emitter = [e \in Emitters |-> IdleEmitter]
  /\ events = [l \in Listeners |-> <<>>]
  /\ lpc = [l \in Listeners |-> "none"]
  /\ alive = {}
  /\ sent = [l \in Listeners |-> 0]

-----------------------------------------------------------------------------
(* The listener program *)

\* The table with l added for each type its program listens to.
registerEventListener(l) ==
  [t \in EventTypes |->
     IF t \in AllEvents(option) THEN eventListeners[t] \cup {l} ELSE eventListeners[t]]

\* The program is launched: a new EventListener is made, started, registered.
Register(l) ==
  /\ lpc[l] = "none"
  /\ alive = {}
  /\ alive' = {l}
  /\ lpc' = [lpc EXCEPT ![l] = "ready"]
  /\ eventListeners' = registerEventListener(l)
  /\ UNCHANGED <<option, poolserial, emitter, events, sent>>

\* The program exits; nobody unregisters its listener.
ProgramExit(l) ==
  /\ l \in alive
  /\ alive' = alive \ {l}
  /\ UNCHANGED <<option, eventListeners, poolserial, emitter, events, lpc, sent>>

-----------------------------------------------------------------------------
(* EmitEvent *)

\* EmitEvent looks up the listeners of the event's type.
Emit(e, t) ==
  /\ emitter[e] = IdleEmitter
  /\ emitter' = [emitter EXCEPT ![e].todo = eventListeners[t]]
  /\ UNCHANGED <<option, eventListeners, poolserial, events, lpc, alive, sent>>

\* changeStateTo, a message captured or a line written to a log, and
\* SendRemoteCommEvent.
EmitFromProcess(e) ==
  /\ e # Timer
  /\ \E t \in ProcessStateTypes \cup ProcCommTypes \cup RemoteTypes
               \cup {emitLogEvent(type) : type \in LogEventEmitters} : Emit(e, t)

\* The timer's goroutine emits the types whose time slice has changed, one
\* after the other in any order; which slices change is left to the clock.
EmitTick == \E t \in TickTypes : Emit(Timer, t)

\* HandleEvent encodes the event, with the next serial of the pool, before it
\* takes the listener's lock.
Encode(e, l) ==
  /\ emitter[e].at = NoListener
  /\ l \in emitter[e].todo
  /\ poolserial <= MaxSerial
  /\ poolserial' = poolserial + 1
  /\ emitter' = [emitter EXCEPT ![e].at = l, ![e].serial = poolserial]
  /\ UNCHANGED <<option, eventListeners, events, lpc, alive, sent>>

\* There are more than buffer_size events already.
Full(l) == Len(events[l]) > BufferSize

\* Mutant: a full buffer makes room for the new event by dropping the oldest.
PushDroppingOldest(l, s) ==
  IF Full(l) THEN Append(Tail(events[l]), s) ELSE Append(events[l], s)

\* el.events.PushBack, or the event is discarded.
Push(l, s) == IF Full(l) THEN events[l] ELSE Append(events[l], s)

\* Mutant: el.cond.Signal is forgotten.
NoSignal(l) == UNCHANGED lpc

\* el.cond.Signal wakes getFirstEvent.
Signal(l) == lpc' = IF lpc[l] = "asleep" THEN [lpc EXCEPT ![l] = "first"] ELSE lpc

\* The rest of HandleEvent, under the listener's lock; EmitEvent goes on to the
\* next listener, if any.
HandleEvent(e) ==
  LET l == emitter[e].at
      rest == emitter[e].todo \ {l}
  IN /\ l # NoListener
     /\ events' = [events EXCEPT ![l] = Push(l, emitter[e].serial)]
     /\ IF Full(l) THEN UNCHANGED lpc ELSE Signal(l)
     /\ emitter' = [emitter EXCEPT ![e] = [IdleEmitter EXCEPT !.todo = rest]]
     /\ UNCHANGED <<option, eventListeners, poolserial, alive, sent>>

-----------------------------------------------------------------------------
(* The goroutine of EventListener.start *)

\* waitForReady reads READY, or the end of the program's output. What a program
\* has written before it exits may still be read afterwards, here and below.
WaitForReady(l) ==
  /\ lpc[l] = "ready"
  /\ \/ /\ lpc' = [lpc EXCEPT ![l] = "first"]
     \/ /\ l \notin alive
        /\ lpc' = [lpc EXCEPT ![l] = "ended"]
  /\ UNCHANGED <<option, eventListeners, poolserial, emitter, events, alive, sent>>

\* getFirstEvent waits on the condition while the queue is empty.
Sleep(l) ==
  /\ lpc[l] = "first"
  /\ events[l] = <<>>
  /\ lpc' = [lpc EXCEPT ![l] = "asleep"]
  /\ UNCHANGED <<option, eventListeners, poolserial, emitter, events, alive, sent>>

\* getFirstEvent, and the write of the event to the program; a write to a
\* program that is gone fails and waitForReady follows.
SendEvent(l) ==
  /\ lpc[l] = "first"
  /\ events[l] # <<>>
  /\ \/ /\ l \in alive
        /\ sent' = [sent EXCEPT ![l] = Head(events[l])]
        /\ lpc' = [lpc EXCEPT ![l] = "result"]
     \/ /\ l \notin alive
        /\ lpc' = [lpc EXCEPT ![l] = "ready"]
        /\ UNCHANGED sent
  /\ UNCHANGED <<option, eventListeners, poolserial, emitter, events, alive>>

\* RESULT 2 OK: the first event is removed.
ResultOK(l) ==
  /\ lpc[l] = "result"
  /\ events' = [events EXCEPT ![l] = Tail(@)]
  /\ lpc' = [lpc EXCEPT ![l] = "ready"]
  /\ UNCHANGED <<option, eventListeners, poolserial, emitter, alive, sent>>

\* RESULT 4 FAIL, a malformed result, or the end of the output: the event stays
\* first in the queue and is sent again after the next READY.
ResultFail(l) ==
  /\ lpc[l] = "result"
  /\ lpc' = [lpc EXCEPT ![l] = "ready"]
  /\ UNCHANGED <<option, eventListeners, poolserial, emitter, events, alive, sent>>

\* Any other result: the inner loop sends the event again at once.
ResultUnknown(l) ==
  /\ lpc[l] = "result"
  /\ lpc' = [lpc EXCEPT ![l] = "first"]
  /\ UNCHANGED <<option, eventListeners, poolserial, emitter, events, alive, sent>>

-----------------------------------------------------------------------------

ListenerNext(l) ==
  \/ WaitForReady(l) \/ Sleep(l) \/ SendEvent(l)
  \/ ResultOK(l) \/ ResultFail(l) \/ ResultUnknown(l)

EmitterNext(e) == HandleEvent(e) \/ \E l \in Listeners : Encode(e, l)

EventNext ==
  \/ \E l \in Listeners : Register(l) \/ ProgramExit(l) \/ ListenerNext(l)
  \/ \E e \in Emitters : EmitFromProcess(e) \/ EmitterNext(e)
  \/ EmitTick

EventSpec == EventInit /\ [][EventNext]_eventVars

\* The goroutines are scheduled; a listener program that runs says READY and
\* answers, and if it keeps answering it answers OK some time.
EventFairness ==
  /\ \A l \in Listeners : WF_eventVars(ListenerNext(l)) /\ SF_eventVars(ResultOK(l))
  /\ \A e \in Emitters : WF_eventVars(EmitterNext(e))

EventFairSpec == EventSpec /\ EventFairness

-----------------------------------------------------------------------------
(* Properties *)

\* While the program works on an event, that event stays first in the queue:
\* emitters that find the queue full leave it alone, so removeFirstEvent takes
\* out the event that was acknowledged and no other.
InFlightIsFirst ==
  \A l \in Listeners : lpc[l] = "result" => events[l] # <<>> /\ Head(events[l]) = sent[l]

\* At-least-once, without a lost wake-up: a queued event is written and
\* acknowledged in the end, whatever FAIL or unknown results come first, unless its
\* program exits.
EventDelivered ==
  \A l \in Listeners, s \in Serial :
    (l \in alive /\ Contains(events[l], s)) ~> (~Contains(events[l], s) \/ l \notin alive)

=============================================================================

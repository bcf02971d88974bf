------------------------------- MODULE Mount -------------------------------
(***************************************************************************)
(* Mounting of memory cards: monitor/mount.go and its start in             *)
(* cmd/serve.go.                                                           *)
(*                                                                         *)
(* The directory holds the card's device file and files that are not in    *)
(* the configuration. The notify library (external) sends an event for     *)
(* each change, and drops it when the channel is full. card and mounted    *)
(* are the number of the card, 0 for none: a card that was pulled out      *)
(* stays mounted until it is unmounted.                                    *)
(*                                                                         *)
(* edge-guard may end in any step and is started again, and the machine    *)
(* may reboot. What is mounted outlives the first and not the second, the  *)
(* link outlives both.                                                     *)
(***************************************************************************)
EXTENDS Integers, Sequences

CONSTANTS
  EventBuffer, \* the size of the event channel
  MaxCards,    \* the number of times a card is inserted
  MaxStarts    \* the number of times edge-guard is started

ASSUME MountAssumption ==
  EventBuffer \in Nat \ {0} /\ MaxCards \in Nat /\ MaxStarts \in Nat \ {0}

VARIABLES
  card, mounted, linked,
  inserted, \* the number of the last card
  events,   \* eventChan: "card" for the card's file, "other" for another one
  lpc,      \* InitTF and the listener
  seen,     \* tfCardOk and mountOk of tryMount
  starts,
  unseen,   \* tryMount has not looked since a change was not notified, or did not act
            \* on what it saw (history)
  unlinked  \* the last ln or unlink failed, or was before a reboot (history)

mountVars == <<card, mounted, linked, inserted, events, lpc, seen, starts, unseen, unlinked>>

MountTypeOK ==
  /\ card \in 0 .. MaxCards /\ mounted \in 0 .. MaxCards /\ inserted \in 0 .. MaxCards
  /\ linked \in BOOLEAN /\ unseen \in BOOLEAN /\ unlinked \in BOOLEAN
  /\ events \in Seq({"card", "other"}) /\ Len(events) <= EventBuffer
  /\ lpc \in {"off", "init", "initTry", "initCheck", "initAct", "start", "wait", "try", "check",
              "act"}
  /\ seen \in [card : BOOLEAN, mount : BOOLEAN]
  /\ starts \in 1 .. MaxStarts

MountInit ==
  /\ card = 0 /\ mounted = 0 /\ linked = FALSE /\ inserted = 0
  /\ events = <<>> /\ lpc = "init"
  /\ seen = [card |-> FALSE, mount |-> FALSE]
  /\ starts = 1
  /\ unseen = FALSE /\ unlinked = FALSE

Watching == lpc \in {"wait", "try", "check", "act"}

\* The directory changes.
Notify(e) ==
  LET sent == Watching /\ Len(events) < EventBuffer IN
  /\ events' = IF sent THEN Append(events, e) ELSE events
  /\ unseen' = (unseen \/ (e = "card" /\ ~sent))

CardIn ==
  /\ card = 0 /\ inserted < MaxCards
  /\ card' = inserted + 1 /\ inserted' = inserted + 1
  /\ Notify("card")
  /\ UNCHANGED <<mounted, linked, lpc, seen, starts, unlinked>>

CardOut ==
  /\ card # 0 /\ card' = 0
  /\ Notify("card")
  /\ UNCHANGED <<mounted, linked, inserted, lpc, seen, starts, unlinked>>

OtherFile ==
  /\ Notify("other")
  /\ UNCHANGED <<card, mounted, linked, inserted, lpc, seen, starts, unlinked>>

-----------------------------------------------------------------------------
\* InitTF looks for the card before the listener watches, and does nothing without
\* one.
InitTF ==
  /\ lpc = "init"
  /\ lpc' = IF card = 0 THEN "start" ELSE "initTry"
  /\ UNCHANGED <<card, mounted, linked, inserted, events, seen, starts, unseen, unlinked>>

\* MountListener: notify.Watch.
Watch ==
  /\ lpc = "start"
  /\ lpc' = "wait"
  /\ UNCHANGED <<card, mounted, linked, inserted, events, seen, starts, unseen, unlinked>>

\* fileHandler takes an event.
TakeEvent ==
  /\ lpc = "wait" /\ events # <<>>
  /\ events' = Tail(events)
  /\ lpc' = IF Head(events) = "card" THEN "try" ELSE "wait"
  /\ UNCHANGED <<card, mounted, linked, inserted, seen, starts, unseen, unlinked>>

\* tryMount: CheckTfCard.
CheckTfCard ==
  /\ lpc \in {"try", "initTry"}
  /\ seen' = [seen EXCEPT !.card = card # 0]
  /\ lpc' = IF lpc = "try" THEN "check" ELSE "initCheck"
  /\ unseen' = FALSE
  /\ UNCHANGED <<card, mounted, linked, inserted, events, starts, unlinked>>

InTryMount == lpc \in {"check", "act", "initCheck", "initAct"}
Return == lpc' = IF lpc \in {"check", "act"} THEN "wait" ELSE "start"

\* tryMount: CheckMount, whose error ends it.
CheckMount ==
  /\ lpc \in {"check", "initCheck"}
  /\ \/ /\ seen' = [seen EXCEPT !.mount = mounted # 0]
        /\ lpc' = IF lpc = "check" THEN "act" ELSE "initAct"
        /\ UNCHANGED unseen
     \/ Return /\ unseen' = TRUE /\ UNCHANGED seen
  /\ UNCHANGED <<card, mounted, linked, inserted, events, starts, unlinked>>

Acting == lpc \in {"initAct", "act"}

\* A card, not mounted. Mounting fails without a card, or by itself; so may the
\* link, whose old file is removed first.
DoMount ==
  /\ Acting /\ ~seen.mount /\ seen.card
  /\ \/ /\ card # 0 /\ mounted' = card /\ linked' = TRUE /\ unlinked' = FALSE
        /\ UNCHANGED unseen
     \/ /\ card # 0 /\ mounted' = card /\ linked' \in {linked, FALSE} /\ unlinked' = TRUE
        /\ UNCHANGED unseen
     \/ unseen' = TRUE /\ UNCHANGED <<mounted, linked, unlinked>>
  /\ Return
  /\ UNCHANGED <<card, inserted, events, seen, starts>>

\* Mutant: a card that is gone stays mounted.
KeepMounted ==
  /\ Acting /\ seen.mount /\ ~seen.card
  /\ Return
  /\ UNCHANGED <<card, mounted, linked, inserted, events, seen, starts, unseen, unlinked>>

\* unLink
Unlinks ==
  \/ linked' = FALSE /\ unlinked' = FALSE
  \/ unlinked' = TRUE /\ UNCHANGED linked

\* No card, but mounted.
Unmount ==
  /\ Acting /\ seen.mount /\ ~seen.card
  /\ \/ mounted' = 0 /\ Unlinks /\ UNCHANGED unseen
     \/ unseen' = TRUE /\ UNCHANGED <<mounted, linked, unlinked>>
  /\ Return
  /\ UNCHANGED <<card, inserted, events, seen, starts>>

\* Neither a card nor a mount: a left link is removed.
NoCard ==
  /\ Acting /\ ~seen.mount /\ ~seen.card
  /\ Unlinks
  /\ Return
  /\ UNCHANGED <<card, mounted, inserted, events, seen, starts, unseen>>

\* A card, mounted already.
IsMounted ==
  /\ Acting /\ seen.mount /\ seen.card
  /\ Return
  /\ UNCHANGED <<card, mounted, linked, inserted, events, seen, starts, unseen, unlinked>>

-----------------------------------------------------------------------------
\* edge-guard ends. An event that is lost with it, or a tryMount it cuts off, is a
\* change that was not noticed. A command cut off is one that failed.
GuardStops ==
  /\ lpc # "off" /\ lpc' = "off"
  /\ events' = <<>>
  /\ unseen' = (unseen \/ InTryMount \/ lpc \in {"try", "initTry"}
                        \/ \E i \in DOMAIN events : events[i] = "card")
  /\ UNCHANGED <<card, mounted, linked, inserted, seen, starts, unlinked>>

\* The machine reboots: nothing is mounted, the link stays.
Reboot ==
  /\ lpc = "off"
  /\ mounted' = 0 /\ unlinked' = TRUE
  /\ UNCHANGED <<card, linked, inserted, events, lpc, seen, starts, unseen>>

GuardStarts ==
  /\ lpc = "off" /\ starts < MaxStarts
  /\ lpc' = "init" /\ starts' = starts + 1
  /\ UNCHANGED <<card, mounted, linked, inserted, events, seen, unseen, unlinked>>

MountNext ==
  \/ CardIn \/ CardOut \/ OtherFile
  \/ InitTF \/ Watch \/ TakeEvent \/ CheckTfCard \/ CheckMount
  \/ DoMount \/ Unmount \/ NoCard \/ IsMounted
  \/ GuardStops \/ Reboot \/ GuardStarts

-----------------------------------------------------------------------------
\* When the listener has nothing left to do, something is mounted if and only if a
\* card is there, restarts of edge-guard and of the machine included, unless tryMount
\* has not looked since a change that was not notified (the channel was full, or
\* nobody watched: InitTF looks only if there is a card), or a command of its last
\* look failed or was cut off. And there is a link if and only if something is
\* mounted, unless the last ln or unlink failed or the machine was rebooted since
\* (MountListener, fileHandler, tryMount, InitTF).
MountFollowsCard ==
  lpc = "wait" /\ events = <<>> /\ ~unseen =>
    /\ (mounted # 0) = (card # 0)
    /\ ~unlinked => (linked <=> mounted # 0)

=============================================================================

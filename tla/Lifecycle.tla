----------------------------- MODULE Lifecycle -----------------------------
(***************************************************************************)
(* What a supervised program promises to the code around it: the abstract  *)
(* specification of subprocess/process/process.go. It leaves out the       *)
(* goroutines, locks, retries and signals of module Process, which         *)
(* implements it, and is what module Supervisor is built on.               *)
(***************************************************************************)

VARIABLES
  inStart,    \* a Start goroutine is there: further Starts are refused
  stopByUser, \* Stop has been called since the last accepted Start
  phase,      \* what there is of the program
  pause       \* the program section has a restart pause

vars == <<inStart, stopByUser, phase, pause>>

\* "down": neither STARTING nor RUNNING is reported, and there is no child;
\* "announced": STARTING is reported, the child is about to be launched;
\* "up": the child is alive, STARTING or RUNNING is reported;
\* "gone": the same, but the child has exited.
Phase == {"down", "announced", "up", "gone"}

Init ==
  /\ inStart = FALSE /\ stopByUser = FALSE /\ phase = "down"
  /\ pause \in BOOLEAN

\* An accepted Start.
Start ==
  /\ ~inStart
  /\ inStart' = TRUE /\ stopByUser' = FALSE
  /\ UNCHANGED <<phase, pause>>

Stop == stopByUser' = TRUE /\ UNCHANGED <<inStart, phase, pause>>

\* A launch is announced. A program that has been stopped is not tried again,
\* unless it was in its restart pause when Stop came.
Attempt ==
  /\ inStart /\ phase = "down"
  /\ stopByUser => pause
  /\ phase' = "announced"
  /\ UNCHANGED <<inStart, stopByUser, pause>>

Launch == phase = "announced" /\ phase' = "up" /\ UNCHANGED <<inStart, stopByUser, pause>>

Exit == phase = "up" /\ phase' = "gone" /\ UNCHANGED <<inStart, stopByUser, pause>>

\* The failed launch or the end of the child is reported.
Report ==
  /\ phase \in {"announced", "gone"}
  /\ phase' = "down"
  /\ UNCHANGED <<inStart, stopByUser, pause>>

\* The Start goroutine ends; the program may be started again.
End ==
  /\ inStart /\ phase = "down"
  /\ inStart' = FALSE
  /\ UNCHANGED <<stopByUser, phase, pause>>

Next == Start \/ Stop \/ Attempt \/ Launch \/ Exit \/ Report \/ End

Spec == Init /\ [][Next]_vars

=============================================================================

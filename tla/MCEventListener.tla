-------------------------- MODULE MCEventListener --------------------------
(* Small instances of EventListener. *)
EXTENDS EventListener

\* An abstract and a final type, and a name no type has; types nothing emits.
MCOptions == {{"PROCESS_STATE", "TICK_60", "NO_SUCH_EVENT"}, {"SUPERVISOR_STATE_CHANGE"}}

=============================================================================

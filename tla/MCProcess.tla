----------------------------- MODULE MCProcess -----------------------------
(* Small instances of Process. *)
EXTENDS Process, TLC

Conf(secs, pause, retries, auto, sigs) ==
  [startsecs |-> secs, restartpause |-> pause, startretries |-> retries,
   autorestart |-> auto, stopsignals |-> sigs]

\* Every shape of program section: with and without a start time, a pause,
\* retries, stop signals; each autorestart policy.
AllConfigs == {Conf(1, 1, 2, "unexpected", 1), Conf(0, 0, 0, "true", 0),
               Conf(1, 0, 2, "false", 0)}

\* No restart pause and a start time, as by default.
DefaultConfigs == {Conf(1, 0, 2, "unexpected", 0), Conf(1, 0, 1, "true", 1)}

\* startsecs = 0 in the program section.
NoStartTime == {Conf(0, 0, 1, "unexpected", 0)}

Symmetry == Permutations(Callers) \cup Permutations(Goroutines)
              \cup Permutations(Stoppers) \cup Permutations(Cmds)

=============================================================================

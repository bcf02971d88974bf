--------------------------- MODULE MCProgramLog ---------------------------
(* Small instances of ProgramLog. *)
EXTENDS ProgramLog

\* Two messages; one too long for the buffer before another; a BEGIN within a message
\* after other text; and an END without a BEGIN.
SmallOutputs == {
  <<"B1", "B2", "E1", "E2", "B1", "B2", "E1", "E2">>,
  <<"B1", "B2", "d", "d", "d", "E1", "E2", "B1">>,
  <<"d", "d", "B1", "B2", "B1", "B2", "E1", "E2">>,
  <<"E1", "E2", "B1", "B2">>}

=============================================================================

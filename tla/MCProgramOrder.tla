--------------------------- MODULE MCProgramOrder ---------------------------
(* Small instances of ProgramOrder. *)
EXTENDS ProgramOrder, TLC

CONSTANTS a, b, c, g

\* Three sections, b before the others by priority; depends_on may name what does
\* not exist, because a section has two processes, one, or cannot be evaluated.
Says(da, db, dc, n, bad) ==
  [num |-> [s \in Sections |-> IF s = c THEN n ELSE 1],
   depends |-> (a :> da @@ b :> db @@ c :> dc),
   priority |-> [s \in Sections |-> IF s = b THEN 1 ELSE 999],
   group |-> [s \in Sections |-> IF s = a THEN g ELSE nil],
   bad |-> bad]

\* No dependency; a chain over two processes; what is missing; two cycles.
SmallConfigs ==
  {Says({}, {}, {}, 1, {}),
   Says({<<c, 1>>, <<b, 0>>}, {<<c, 2>>}, {}, 2, {}),
   Says({<<b, 0>>}, {<<c, 0>>}, {}, 2, {b}),
   Says({<<b, 0>>}, {<<a, 0>>}, {}, 1, {}),
   Says({}, {}, {<<c, 0>>}, 1, {})}

=============================================================================

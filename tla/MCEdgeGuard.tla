---------------------------- MODULE MCEdgeGuard ----------------------------
(* Small instances of EdgeGuard. *)
EXTENDS EdgeGuard

\* A version of the toolset, and another package with it, of which no version is
\* ever known.
SmallTargets == {{<<JX, <<1, FALSE>>>>}, {<<JX, <<2, FALSE>>>>, <<"fs", <<1, FALSE>>>>}}

=============================================================================

----------------------------- MODULE MCGateway -----------------------------
(* The gateway's handlers that keep files, small instances of GatewayState and  *)
(* Compose. A behaviour is one of either, while the other does not move.        *)
EXTENDS GatewayState, Compose

SmallNames == <<"a", "ab">>
SmallExtensions == {<<"a", "ab">>}

\* A service, one whose name extends its name, and two in one request, which share
\* its variable.
SmallBatches ==
  {<<<<"a", "h1">>>>, <<<<"a", "h2">>>>, <<<<"ab", "h1">>>>, <<<<"ab", "h2">>, <<"a", "h2">>>>}

\* One section that is kept and one that is dropped, only one that is dropped, and a
\* request without a file.
SmallYamls == {{"services", "configs"}, {"configs"}, {}}

VARIABLE part

GatewayInit ==
  /\ Init /\ ComposeInit /\ part \in {"state", "compose"}
  /\ IF part = "state" THEN \A d \in Dirs : dir[d] = Absent ELSE focus = "mq" /\ workingDir

GatewayNext ==
  \/ part = "state" /\ Next /\ UNCHANGED <<composeVars, part>>
  \/ part = "compose" /\ ComposeNext /\ UNCHANGED <<vars, part>>

GatewaySpec == GatewayInit /\ [][GatewayNext]_<<vars, composeVars, part>>

=============================================================================

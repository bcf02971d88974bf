----------------------------- MODULE MCNetwork -----------------------------
(* The network interface below and the heartbeats above, small instances of     *)
(* IFace and of Heartbeat (a channel of 3 places instead of 6). Neither reads   *)
(* the other's state: a behaviour is one of either, while the other does not    *)
(* move.                                                                        *)
EXTENDS IFace, Heartbeat

CONSTANTS eth0, usb0, wlan0, s1, s2

VARIABLE part

TwoIFaces == <<eth0, usb0>>
TwoAddrs == <<s1, s2>>

NetworkInit ==
  /\ Init /\ HeartbeatInit
  /\ part \in {"iface", "heartbeat"}
  /\ part = "iface" \/ up = {}

NetworkNext ==
  \/ part = "iface" /\ Next /\ UNCHANGED <<heartbeatVars, part>>
  \/ part = "heartbeat" /\ HeartbeatNext /\ UNCHANGED <<vars, part>>

\* Each part with its own fairness.
NetworkSpec ==
  /\ NetworkInit /\ [][NetworkNext]_<<vars, heartbeatVars, part>>
  /\ \/ []<>(part = "iface") /\ Fairness
     \/ []<>(part = "heartbeat") /\ HeartbeatFairness

=============================================================================

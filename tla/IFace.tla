------------------------------- MODULE IFace -------------------------------
(***************************************************************************)
(* The choice of the network interface: MaintainBestIFace and what it      *)
(* calls in internal/network/iface/iface.go, with the resolver file of     *)
(* internal/network/dns/dnsmasq.go.                                        *)
(*                                                                         *)
(* One goroutine. At every tick it tests the interfaces in the order of    *)
(* their priority, takes the first that is connected, else the backup,     *)
(* and moves the routes to the DHCP servers to it. The interfaces come and *)
(* go at any time, also during the tests.                                  *)
(***************************************************************************)
EXTENDS Naturals, Sequences

CONSTANTS
  IFaces,
  Servers, Addrs,  \* the DHCP servers, in the order in which net.LookupHost
                   \* returns them
  Priority,        \* ifacePriority, a sequence
  Backup,          \* backupIFace
  nil

ASSUME IFaceAssumption ==
  /\ nil \notin IFaces
  /\ Priority \in Seq(IFaces)
  /\ Addrs \in Seq(Servers)
  /\ \A s \in Servers : \E n \in 1 .. Len(Addrs) : Addrs[n] = s
  /\ Backup \in IFaces

VARIABLES
  up,        \* the interfaces over which the test address can be reached
  current,   \* currentIFace, nil when there is none yet
  pc,        \* control point of MaintainBestIFace
  i,         \* the position in Priority under test
  best,      \* the interface found
  resolv,    \* the interface whose DNS servers dnsmasq uses
  todo,      \* the addresses whose routes are still to be replaced
  route,     \* route[s]: the interface of the host route to server s
  ctxDone

vars == <<up, current, pc, i, best, resolv, todo, route, ctxDone>>

TypeOK ==
  /\ up \subseteq IFaces
  /\ current \in IFaces \cup {nil}
  /\ pc \in {"tick", "test", "switch", "resolv", "routes", "returned"}
  /\ i \in 1 .. Len(Priority) + 1
  /\ best \in IFaces \cup {nil}
  /\ resolv \in IFaces \cup {nil}
  /\ todo \in Seq(Servers)
  /\ route \in [Servers -> IFaces \cup {nil}]
  /\ ctxDone \in BOOLEAN

Init ==
  /\ up \in SUBSET IFaces
  /\ current = nil
  /\ pc = "tick"
  /\ i = 1
  /\ best = nil
  /\ resolv = nil
  /\ todo = <<>>
  /\ route = [s \in Servers |-> nil]
  /\ ctxDone = FALSE

-----------------------------------------------------------------------------

\* The ticker fires.
Tick ==
  /\ pc = "tick"
  /\ pc' = "test"
  /\ i' = 1
  /\ UNCHANGED <<up, current, best, resolv, todo, route, ctxDone>>

\* The context is done.
TickCancelled ==
  /\ pc = "tick"
  /\ ctxDone
  /\ pc' = "returned"
  /\ UNCHANGED <<up, current, i, best, resolv, todo, route, ctxDone>>

Choose(f) == best' = f /\ pc' = "switch" /\ UNCHANGED i

\* What findBestIFace returns when no interface of the list is connected.
BackupIFace == Backup

\* No interface of the list is left to be tested.
AllTested == i > Len(Priority)

\* findBestIFace: one testConnect, which brings the interface up if need be.
Test ==
  /\ pc = "test"
  /\ \/ AllTested /\ Choose(BackupIFace)
     \/ ~AllTested /\ Priority[i] \in up /\ Choose(Priority[i])
     \/ ~AllTested /\ Priority[i] \notin up /\ i' = i + 1 /\ UNCHANGED <<best, pc>>
  /\ UNCHANGED <<up, current, resolv, todo, route, ctxDone>>

\* switchDhcpRouter: nothing to do.
SwitchNone ==
  /\ pc = "switch"
  /\ best = current
  /\ pc' = "tick"
  /\ UNCHANGED <<up, current, i, best, resolv, todo, route, ctxDone>>

\* An interface that is connected has a gateway route; another may have none.
SwitchNoGateway ==
  /\ pc = "switch"
  /\ best # current
  /\ best \notin up
  /\ pc' = "tick"
  /\ UNCHANGED <<up, current, i, best, resolv, todo, route, ctxDone>>

LookupOk ==
  /\ pc = "switch"
  /\ best # current
  /\ pc' = "routes"
  /\ todo' = Addrs
  /\ UNCHANGED <<up, current, i, best, resolv, route, ctxDone>>

LookupFails ==
  /\ pc = "switch"
  /\ best # current
  /\ pc' = "resolv"
  /\ UNCHANGED <<up, current, i, best, resolv, todo, route, ctxDone>>

\* Mutant: the resolver file is written for the interface in use.
ResolvOfCurrent == IF current = nil THEN best ELSE current

\* The interface whose resolver file is applied when the lookup fails.
ResolvFor == best

\* ApplyInterfaceDNSResolv, the first time or after IFaceUp. The switch itself
\* is left to the next tick.
ApplyResolv ==
  /\ pc = "resolv"
  /\ resolv' = ResolvFor
  /\ pc' = "tick"
  /\ UNCHANGED <<up, current, i, best, todo, route, ctxDone>>

ApplyResolvFails ==
  /\ pc = "resolv"
  /\ pc' = "tick"
  /\ UNCHANGED <<up, current, i, best, resolv, todo, route, ctxDone>>

\* ReplcaeRouteMask32 for the next address.
ReplaceRoute(s) ==
  /\ pc = "routes"
  /\ todo # <<>> /\ s = Head(todo)
  /\ route' = [route EXCEPT ![s] = best]
  /\ todo' = Tail(todo)
  /\ UNCHANGED <<up, current, pc, i, best, resolv, ctxDone>>

\* Mutant: an error is logged and the next address tried.
NextServer == todo' = Tail(todo) /\ UNCHANGED pc

\* An error ends switchDhcpRouter; the routes replaced before stay.
RouteError == todo' = <<>> /\ pc' = "tick"

ReplaceRouteFails ==
  /\ pc = "routes"
  /\ todo # <<>>
  /\ RouteError
  /\ UNCHANGED <<up, current, i, best, resolv, route, ctxDone>>

Switched ==
  /\ pc = "routes"
  /\ todo = <<>>
  /\ current' = best
  /\ pc' = "tick"
  /\ UNCHANGED <<up, i, best, resolv, todo, route, ctxDone>>

-----------------------------------------------------------------------------

\* Interfaces are connected and disconnected.
LinkChanges ==
  /\ \E f \in IFaces : up' = IF f \in up THEN up \ {f} ELSE up \cup {f}
  /\ UNCHANGED <<current, pc, i, best, resolv, todo, route, ctxDone>>

Cancel ==
  /\ ~ctxDone
  /\ ctxDone' = TRUE
  /\ UNCHANGED <<up, current, pc, i, best, resolv, todo, route>>

MainNext ==
  \/ Tick \/ TickCancelled \/ Test \/ SwitchNone \/ SwitchNoGateway \/ LookupOk \/ LookupFails
  \/ ApplyResolv \/ ApplyResolvFails \/ ReplaceRouteFails \/ Switched
  \/ \E s \in Servers : ReplaceRoute(s)

Next == MainNext \/ LinkChanges \/ Cancel

Spec == Init /\ [][Next]_vars

\* The goroutine runs; of the cases of a select none is neglected for ever; what
\* is repeated again and again and may succeed does so at last. The name of the
\* DHCP server is only sure to be answered by the DNS servers of an interface that
\* is connected.
Fairness ==
  /\ WF_vars(MainNext)
  /\ SF_vars(TickCancelled)
  /\ SF_vars(resolv \in up /\ LookupOk) /\ SF_vars(ApplyResolv)
  /\ \A s \in Servers : SF_vars(ReplaceRoute(s))

FairSpec == Spec /\ Fairness

-----------------------------------------------------------------------------
(* Properties *)

\* The connected interface with the highest priority.
Wanted(set) ==
  Priority[CHOOSE n \in 1 .. Len(Priority) :
             /\ Priority[n] \in set
             /\ \A k \in 1 .. n - 1 : Priority[k] \notin set]

\* currentIFace is only moved to an interface all servers are routed over.
RoutesBeforeCurrent ==
  [][current' # current => \A s \in Servers : route[s] = current']_vars

\* When the links stop changing, the connected interface of the highest priority
\* is taken in the end and kept, whatever lookups and routes have failed before,
\* and although a lookup may at first have only the DNS servers of an interface
\* that is gone.
IFaceSettles ==
  \A set \in SUBSET IFaces :
    (\E n \in 1 .. Len(Priority) : Priority[n] \in set) =>
      (<>[](up = set /\ ~ctxDone) => <>[](current = Wanted(set)))

=============================================================================

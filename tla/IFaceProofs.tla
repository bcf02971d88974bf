---------------------------- MODULE IFaceProofs ----------------------------
(***************************************************************************)
(* Theorems about IFace, for every set of interfaces and DHCP servers and  *)
(* every order of priority.                                                *)
(***************************************************************************)
EXTENDS IFace, TLAPS

-----------------------------------------------------------------------------
(* Type correctness *)

\* Every step keeps every variable within its type.
LEMMA TypeStep == TypeOK /\ [Next]_vars => TypeOK'
<1> SUFFICES ASSUME TypeOK, [Next]_vars PROVE TypeOK'
  OBVIOUS
<1> USE IFaceAssumption DEF TypeOK
<1>1. CASE Tick \/ TickCancelled
  BY <1>1 DEF Tick, TickCancelled
<1>2. CASE Test
  BY <1>2 DEF Test, AllTested, Choose, BackupIFace
<1>3. CASE SwitchNone \/ SwitchNoGateway \/ LookupOk \/ LookupFails
  BY <1>3 DEF SwitchNone, SwitchNoGateway, LookupOk, LookupFails
<1>4. CASE ApplyResolv \/ ApplyResolvFails
  BY <1>4 DEF ApplyResolv, ResolvFor, ApplyResolvFails
<1>5. ASSUME NEW s \in Servers, ReplaceRoute(s) PROVE TypeOK'
  <2>1. todo' \in Seq(Servers)
    BY <1>5 DEF ReplaceRoute
  <2>2. route' \in [Servers -> IFaces \cup {nil}]
    BY <1>5 DEF ReplaceRoute
  <2> QED
    BY <1>5, <2>1, <2>2 DEF ReplaceRoute
<1>6. CASE ReplaceRouteFails
  <2>1. <<>> \in Seq(Servers)
    OBVIOUS
  <2> QED
    BY <1>6, <2>1 DEF ReplaceRouteFails, RouteError
<1>7. CASE Switched
  BY <1>7 DEF Switched
<1>8. CASE LinkChanges
  BY <1>8 DEF LinkChanges
<1>9. CASE Cancel
  BY <1>9 DEF Cancel
<1>10. CASE UNCHANGED vars
  BY <1>10 DEF vars
<1> HIDE DEF TypeOK
<1> QED
  BY <1>1, <1>2, <1>3, <1>4, <1>5, <1>6, <1>7, <1>8, <1>9, <1>10 DEF Next, MainNext

\* The variables of the interface loop always have their types.
THEOREM TypeCorrect == Spec => []TypeOK
<1>1. Init => TypeOK
  <2>1. Init => ctxDone \in BOOLEAN
    BY DEF Init
  <2> QED
    BY <2>1, IFaceAssumption DEF Init, TypeOK
<1>2. QED
  BY <1>1, TypeStep, PTL DEF Spec

-----------------------------------------------------------------------------
(* Routes before the current interface *)

\* While the routes are being replaced, a server is routed over the new interface
\* or still to come.
RoutedOrTodo ==
  pc = "routes" =>
    \A s \in Servers : route[s] = best \/ \E n \in 1 .. Len(todo) : todo[n] = s

\* Every step preserves the invariant.
LEMMA RoutedStep == TypeOK /\ RoutedOrTodo /\ [Next]_vars => RoutedOrTodo'
<1> SUFFICES ASSUME TypeOK, RoutedOrTodo, [Next]_vars PROVE RoutedOrTodo'
  OBVIOUS
<1>1. ASSUME NEW s \in Servers, ReplaceRoute(s) PROVE RoutedOrTodo'
  <2>1. /\ pc = "routes" /\ todo \in Seq(Servers) /\ todo # <<>> /\ s = Head(todo)
        /\ route \in [Servers -> IFaces \cup {nil}]
        /\ route' = [route EXCEPT ![s] = best] /\ todo' = Tail(todo) /\ best' = best
    BY <1>1 DEF ReplaceRoute, TypeOK
  <2>2. ASSUME NEW t \in Servers
        PROVE  route'[t] = best' \/ \E n \in 1 .. Len(todo') : todo'[n] = t
    <3>1. CASE t = s \/ route[t] = best
      BY <2>1, <3>1
    <3>2. CASE t # s /\ route[t] # best
      <4>1. PICK n \in 1 .. Len(todo) : todo[n] = t
        BY <2>1, <3>2 DEF RoutedOrTodo
      <4>2. n # 1
        BY <2>1, <3>2, <4>1
      <4>3. n - 1 \in 1 .. Len(todo') /\ todo'[n - 1] = t
        BY <2>1, <4>1, <4>2
      <4> QED
        BY <4>3
    <3> QED
      BY <3>1, <3>2
  <2> QED
    BY <2>2 DEF RoutedOrTodo
<1>2. CASE LookupOk
  BY <1>2, IFaceAssumption DEF LookupOk, RoutedOrTodo
<1>3. CASE pc' # "routes"
  BY <1>3 DEF RoutedOrTodo
<1>4. CASE UNCHANGED <<pc, best, todo, route>>
  BY <1>4 DEF RoutedOrTodo
<1> QED
  BY <1>1, <1>2, <1>3, <1>4
  DEF Next, MainNext, Tick, TickCancelled, Test, Choose, SwitchNone, SwitchNoGateway,
      LookupFails, ApplyResolv, ApplyResolvFails, ReplaceRouteFails, RouteError, Switched,
      LinkChanges, Cancel, vars

\* GetCurrentIFcae never names an interface before the routes to all DHCP servers
\* have been moved to it.
THEOREM RoutesBeforeCurrentAlways == Spec => RoutesBeforeCurrent
<1> DEFINE A == current' # current => \A s \in Servers : route[s] = current'
<1>1. Init => RoutedOrTodo
  BY DEF Init, RoutedOrTodo
<1>2. TypeOK /\ RoutedOrTodo /\ [Next]_vars => RoutedOrTodo'
  BY RoutedStep
<1>3. TypeOK /\ RoutedOrTodo /\ [Next]_vars => [A]_vars
  <2> SUFFICES ASSUME TypeOK, RoutedOrTodo, [Next]_vars PROVE A
    OBVIOUS
  <2>1. CASE Switched
    BY <2>1 DEF Switched, RoutedOrTodo
  <2>2. CASE current' = current
    BY <2>2
  <2> QED
    BY <2>1, <2>2
    DEF Next, MainNext, Tick, TickCancelled, Test, SwitchNone, SwitchNoGateway, LookupOk,
        LookupFails, ApplyResolv, ApplyResolvFails, ReplaceRoute, ReplaceRouteFails,
        LinkChanges, Cancel, vars
<1>4. QED
  BY <1>1, <1>2, <1>3, TypeCorrect, PTL DEF Spec, RoutesBeforeCurrent

=============================================================================

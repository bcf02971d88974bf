-------------------------- MODULE DynamicService --------------------------
(***************************************************************************)
(* The registry of dynamic services: gateway/serve/dynamic.go over         *)
(* gateway/store/store.go.                                                 *)
(*                                                                         *)
(* A service is <<name, host>>; a list of the registry holds pointers. The *)
(* services of one request share one pointer, the loop variable of         *)
(* Register, so an entry is the request r whose record record[r] it points *)
(* to while r runs, and the record itself afterwards.                      *)
(*                                                                         *)
(* A key "ds-<name>.<i>" of the store is <<name, i>>.                      *)
(***************************************************************************)
EXTENDS Naturals, Sequences, SequencesExt, FiniteSets

CONSTANTS
  NameOrder,   \* the names, in the order of their keys
  Extensions,  \* <<n, m>>: m begins with n and goes on with a character above "."
  HostPorts,
  Batches,     \* what a request may register
  Requests,    \* requests that may run at once
  MaxRegisters \* bound: how many requests are made

Names == ToSet(NameOrder)
Service == Names \X HostPorts
Free == "free"

\* Bound: Store is modelled while no list is longer than this. From the eleventh
\* service of a name on the order of its keys is not the order of the indices.
MaxServices == 10

ASSUME NamesAssumption ==
  /\ NameOrder \in Seq(Names) /\ IsInjective(NameOrder)
  /\ Names # {} /\ HostPorts # {}
  /\ Free \notin Names \cup Requests
  /\ Requests \cap Service = {}
  /\ Extensions \subseteq Names \X Names
  /\ \A e \in Extensions : e[1] # e[2]
  /\ Batches \subseteq Seq(Service) \ {<<>>}

VARIABLES
  services, \* services[n]: the list registered under n, first entry preferred
  record,   \* record[r]: the variable srv of request r
  pc,       \* pc[r]: where request r is
  batch,    \* batch[r]: what it still has to register
  dsStore,  \* the keys of the store with their values
  storing,  \* the Store that runs, under mu: for whom, and how far it is
  torn,     \* a Search has moved entries, or a Put failed, since Store began
  registers \* requests made so far

dynamicVars == <<services, record, pc, batch, dsStore, storing, torn, registers>>

NotStoring == [by |-> Free, todo |-> {}, name |-> Free, i |-> 0, gone |-> {}]

DynamicTypeOK ==
  /\ \A n \in Names : services[n] \in Seq(Service \cup Requests)
  /\ record \in [Requests -> Service]
  /\ pc \in [Requests -> {"idle", "next", "add", "remove", "store"}]
  /\ \A r \in Requests : batch[r] \in Seq(Service)
  /\ DOMAIN dsStore \subseteq Names \X Nat
  /\ torn \in BOOLEAN /\ registers \in 0..MaxRegisters

\* The registry of a process that has just started.
DynamicReset ==
  /\ record' = record
  /\ pc' = [r \in Requests |-> "idle"]
  /\ batch' = [r \in Requests |-> <<>>]
  /\ storing' = NotStoring
  /\ torn' = TRUE

DynamicInit ==
  /\ services = [n \in Names |-> <<>>]
  /\ record = [r \in Requests |-> CHOOSE s \in Service : TRUE]
  /\ pc = [r \in Requests |-> "idle"]
  /\ batch = [r \in Requests |-> <<>>]
  /\ dsStore = [k \in {} |-> <<>>]
  /\ storing = NotStoring
  /\ torn = FALSE
  /\ registers = 0

-----------------------------------------------------------------------------
At(e) == IF e \in Requests THEN record[e] ELSE e
Entries(list) == {At(list[i]) : i \in DOMAIN list}

\* The list with entries i and j exchanged.
Swapped(list, i, j) == [list EXCEPT ![i] = list[j], ![j] = list[i]]

\* What Add makes of a list: the entry for the host, or the new one, goes first.
Added(list, e, host) ==
  LET at == {i \in DOMAIN list : At(list[i])[2] = host}
      longer == Append(list, e)
  IN IF at # {} THEN Swapped(list, 1, CHOOSE i \in at : \A j \in at : i <= j)
     ELSE Swapped(longer, 1, Len(longer))

\* OnChange: Store begins, with mu held.
OnChange(r) ==
  /\ \A n \in Names : Len(services'[n]) <= MaxServices
  /\ storing' = [NotStoring EXCEPT !.by = r, !.todo = Names]
  /\ torn' = FALSE
  /\ pc' = [pc EXCEPT ![r] = "store"]

Register(r, list) ==
  /\ pc[r] = "idle" /\ registers < MaxRegisters
  /\ pc' = [pc EXCEPT ![r] = "next"]
  /\ batch' = [batch EXCEPT ![r] = list]
  /\ registers' = registers + 1
  /\ UNCHANGED <<services, record, dsStore, storing, torn>>

\* The next service of the request is written over the one before, without mu.
NextService(r) ==
  /\ pc[r] = "next"
  /\ record' = [record EXCEPT ![r] = Head(batch[r])]
  /\ batch' = [batch EXCEPT ![r] = Tail(@)]
  /\ pc' = [pc EXCEPT ![r] = "add"]
  /\ UNCHANGED <<services, dsStore, storing, torn, registers>>

Add(r) ==
  /\ pc[r] = "add" /\ storing.by = Free
  /\ services' = [services EXCEPT ![record[r][1]] = Added(@, r, record[r][2])]
  /\ OnChange(r)
  /\ UNCHANGED <<record, batch, dsStore, registers>>

Unregister(r, host) ==
  /\ pc[r] = "idle" /\ registers < MaxRegisters
  /\ pc' = [pc EXCEPT ![r] = "remove"]
  /\ record' = [record EXCEPT ![r] = <<@[1], host>>]
  /\ registers' = registers + 1
  /\ UNCHANGED <<services, batch, dsStore, storing, torn>>

\* The first entry for the host leaves one of the lists that have it: the lists
\* are visited in no order.
RemoveByHostPort(r) ==
  LET host == record[r][2]
      at(n) == {i \in DOMAIN services[n] : At(services[n][i])[2] = host}
  IN /\ pc[r] = "remove" /\ storing.by = Free
     /\ \/ \E n \in Names :
             /\ at(n) # {}
             /\ services' = [services EXCEPT
                  ![n] = RemoveAt(@, CHOOSE i \in at(n) : \A j \in at(n) : i <= j)]
             /\ OnChange(r)
        \/ /\ \A n \in Names : at(n) = {}
           /\ pc' = [pc EXCEPT ![r] = "idle"]
           /\ UNCHANGED <<services, storing, torn>>
     /\ UNCHANGED <<record, batch, dsStore, registers>>

\* A step of the partition by version of a Search: it moves the entries of the
\* list it answers with, and holds no lock. The versions are left out: any
\* entries may be those of another version.
Search(n) ==
  /\ \E i, j \in DOMAIN services[n] :
       i < j /\ services' = [services EXCEPT ![n] = Swapped(@, i, j)]
  /\ torn' = TRUE
  /\ UNCHANGED <<record, pc, batch, dsStore, storing, registers>>

-----------------------------------------------------------------------------
\* Store, for the names in no order.
StoreName(n) ==
  /\ storing.by # Free /\ storing.name = Free /\ n \in storing.todo
  /\ storing' = [storing EXCEPT !.todo = @ \ {n}, !.i = 0,
                   !.name = IF services[n] = <<>> THEN Free ELSE n]
  /\ UNCHANGED <<services, record, pc, batch, dsStore, torn, registers>>

\* Mutant: nothing is deleted.
NothingBeyond(n) == {}

\* The keys that Store deletes after writing those of n: all that begin with the
\* name and come after the last key written.
Beyond(n) ==
  {k \in DOMAIN dsStore : (k[1] = n /\ k[2] >= Len(services[n])) \/ <<n, k[1]>> \in Extensions}

\* Put: an error is dropped.
StorePut ==
  /\ storing.name # Free /\ storing.i < Len(services[storing.name])
  /\ LET k == <<storing.name, storing.i>>
     IN \/ /\ dsStore' = [x \in DOMAIN dsStore \cup {k} |->
                            IF x = k THEN At(services[k[1]][k[2] + 1]) ELSE dsStore[x]]
           /\ torn' = torn
        \/ dsStore' = dsStore /\ torn' = TRUE
  /\ storing' = [storing EXCEPT !.i = @ + 1]
  /\ UNCHANGED <<services, record, pc, batch, registers>>

\* NewIterator: the keys are those at this moment.
StoreIterate ==
  /\ storing.name # Free /\ storing.i = Len(services[storing.name])
  /\ storing' = [storing EXCEPT !.gone = Beyond(storing.name), !.name = Free]
  /\ UNCHANGED <<services, record, pc, batch, dsStore, torn, registers>>

StoreDelete(k) ==
  /\ k \in storing.gone
  /\ dsStore' = [x \in DOMAIN dsStore \ {k} |-> dsStore[x]]
  /\ storing' = [storing EXCEPT !.gone = @ \ {k}]
  /\ UNCHANGED <<services, record, pc, batch, torn, registers>>

\* Store is over and mu is released. After its last service the request is over,
\* and what its pointer points to changes no more.
StoreEnd ==
  LET r == storing.by
      over == batch[r] = <<>>
  IN /\ r # Free /\ storing.name = Free /\ storing.todo = {} /\ storing.gone = {}
     /\ storing' = NotStoring
     /\ pc' = [pc EXCEPT ![r] = IF over THEN "idle" ELSE "next"]
     /\ services' = IF ~over THEN services
          ELSE [n \in Names |-> [i \in DOMAIN services[n] |->
                  IF services[n][i] = r THEN record[r] ELSE services[n][i]]]
     /\ UNCHANGED <<record, batch, dsStore, torn, registers>>

\* What is left to delete goes before the next name.
StoreNext ==
  \/ storing.gone = {} /\ (StorePut \/ StoreIterate \/ StoreEnd \/ \E n \in Names : StoreName(n))
  \/ \E k \in storing.gone : StoreDelete(k)

\* The keys in their order, from the one at 0.
KeyAt(p) == <<NameOrder[p \div MaxServices + 1], p % MaxServices>>
AllKeys == Len(NameOrder) * MaxServices

\* The value of a key, if there is one, is added under the name that it has.
Visit(store, k, lists) ==
  IF k \notin DOMAIN store THEN lists
  ELSE [lists EXCEPT ![store[k][1]] = Added(@, store[k], store[k][2])]

\* The lists that Recovery makes of a store, key after key.
Recovered(store) ==
  LET lists[p \in 0..AllKeys] ==
        IF p = 0 THEN [n \in Names |-> <<>>] ELSE Visit(store, KeyAt(p - 1), lists[p - 1])
  IN lists[AllKeys]

DynamicNext ==
  \/ \E r \in Requests :
       \/ \E list \in Batches : Register(r, list)
       \/ \E host \in HostPorts : Unregister(r, host)
       \/ NextService(r) \/ Add(r) \/ RemoveByHostPort(r)
  \/ \E n \in Names : Search(n)
  \/ StoreNext

-----------------------------------------------------------------------------
AtRest == ~torn /\ \A r \in Requests : pc[r] = "idle"

\* When no request runs, a restart would lose no service that is registered, unless
\* its name extends another one's, and of a name that still has a service it would
\* bring none back that was removed (Store, Recovery).
StoreMatches ==
  AtRest => \A n \in Names :
    /\ (\A m \in Names : <<m, n>> \in Extensions => services[m] = <<>>)
         => Entries(services[n]) \subseteq UNION {Entries(Recovered(dsStore)[m]) : m \in Names}
    /\ services[n] # <<>>
         => {dsStore[k] : k \in {x \in DOMAIN dsStore : x[1] = n}} \subseteq Entries(services[n])

=============================================================================

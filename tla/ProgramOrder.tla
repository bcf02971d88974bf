---------------------------- MODULE ProgramOrder ----------------------------
(***************************************************************************)
(* Reload of a Supervisor (subprocess/supervisor.go): the configuration is *)
(* loaded (config/config.go, process_group.go), its programs are sorted by *)
(* depends_on and priority (config/process_sort.go), put into the process  *)
(* table (process/process_manager.go) and started in that order.           *)
(*                                                                         *)
(* The text of the configuration is that of the Supervisor and never       *)
(* changes. main reloads first; once it has opened the listener, requests  *)
(* (clients) may reload at any time, also at the same time. Only the       *)
(* process table has a lock; the maps of the configuration have none.      *)
(*                                                                         *)
(* Go iterates over a map in any order. A process name is a pair: <<s, 0>> *)
(* for a section s with one process, <<s, i>> for the i-th of several.     *)
(***************************************************************************)
EXTENDS Integers, Sequences, FiniteSets

CONSTANTS
  Sections,   \* the program sections of the text
  Configs,    \* what they may say
  Groups,     \* the names of the group sections
  Clients,    \* the requests that may reload at once
  MaxReloads, \* the number of reloads that begin
  MaxNum,     \* the most processes of a section
  main, nil

ASSUME ProgramOrderAssumption ==
  /\ IsFiniteSet(Sections)
  /\ main \notin Clients /\ nil \notin Clients \cup {main}
  /\ Sections \cap Groups = {} /\ nil \notin Groups
  /\ MaxReloads \in Nat \ {0} /\ MaxNum \in Nat

Actors == Clients \cup {main}
Names == Sections \X (0 .. MaxNum)

\* A configuration: numprocs, depends_on, priority and the group of a section, and
\* the sections whose command or name cannot be evaluated.
ConfigType == [num : [Sections -> 1 .. MaxNum], depends : [Sections -> SUBSET Names],
               priority : [Sections -> Nat],
               group : [Sections -> Groups \cup {nil}], bad : SUBSET Sections]

ASSUME ConfigsAssumption == Configs \subseteq ConfigType

VARIABLES
  config,  \* the text
  entries, \* the programs of Config.entries
  groups,  \* ProgramGroup: pairs of a program and its group
  procs,   \* ProcessManager.procs
  lock,    \* who holds its lock, or nil
  act,     \* act[a]: how far the Reload of actor a is
  report,  \* what the last Reload returned: groups added, changed and removed
  crashed, \* the Go runtime has found two users of one map
  reloads  \* the number of reloads begun

vars == <<config, entries, groups, procs, lock, act, report, crashed, reloads>>

\* pc: where the Reload is; stage: that of the sort it is in, todo: what the
\* innermost loop has still to visit, finished and order: as in sortDepends;
\* alone: no other Reload has overlapped this one (history).
ActorType ==
  [pc : {"off", "idle", "names", "groups", "load", "create", "creating", "auto", "starting",
         "remove"},
   stage : {"begin", "free", "graph", "rest"},
   todo : SUBSET (Names \cup Sections), finished : SUBSET Names, order : Seq(Names),
   prev : SUBSET Names, prevGroups : SUBSET (Sections \X (Groups \cup Sections)),
   loaded : SUBSET Names, alone : BOOLEAN]

TypeOK ==
  /\ config \in Configs \cap ConfigType
  /\ entries \subseteq Names /\ procs \subseteq Names
  /\ groups \subseteq Sections \X (Groups \cup Sections)
  /\ lock \in Actors \cup {nil}
  /\ act \in [Actors -> ActorType]
  /\ report \in [{"added", "changed", "removed"} -> SUBSET (Groups \cup Sections)]
  /\ crashed \in BOOLEAN
  /\ reloads \in 0 .. MaxReloads

Fresh == [pc |-> "idle", stage |-> "begin", todo |-> {}, finished |-> {}, order |-> <<>>,
          prev |-> {}, prevGroups |-> {}, loaded |-> {}, alone |-> TRUE]

Init ==
  /\ config \in Configs
  /\ entries = {} /\ groups = {} /\ procs = {} /\ lock = nil
  /\ report = [added |-> {}, changed |-> {}, removed |-> {}]
  /\ act = [a \in Actors |-> IF a = main THEN Fresh ELSE [Fresh EXCEPT !.pc = "off"]]
  /\ crashed = FALSE /\ reloads = 0

ProcNames(s) == IF config.num[s] = 1 THEN {<<s, 0>>} ELSE {<<s, i>> : i \in 1 .. config.num[s]}

\* Actor a goes on to pc; a sort begins anew.
GoTo(a, pc) == [act[a] EXCEPT !.pc = pc, !.stage = "begin"]

\* Reload begins: by runProcess, once, or by ReloadConfig and the REST reload.
Reload(a) ==
  /\ act[a].pc = "idle" /\ reloads < MaxReloads
  /\ LET other == \E b \in Actors : act[b].pc \notin {"off", "idle"}
     IN  act' = [b \in Actors |-> IF b = a THEN [Fresh EXCEPT !.pc = "names", !.alone = ~other]
                                 ELSE [act[b] EXCEPT !.alone = @ /\ act[b].pc \in {"off", "idle"}]]
  /\ reloads' = reloads + 1
  /\ UNCHANGED <<config, entries, groups, procs, lock, report, crashed>>

-----------------------------------------------------------------------------
(* SortProgram: of the process table, with its lock held, for              *)
(* StartAutoStartPrograms, and of the entries for GetProgramNames and      *)
(* GetPrograms, where the order is not used                                *)

Depends(p) == config.depends[p[1]]

\* initDepends: depends_on_gragh has the programs that depend on others.
Gragh(S) == {p \in S : Depends(p) # {}}

\* getDependsOnInfo: these and all they depend on, whether it exists or not.
getDependsOnInfo(S) == Gragh(S) \cup UNION {Depends(p) : p \in Gragh(S)}

\* initProgramWithoutDepends
WithoutDepends(S) == S \ getDependsOnInfo(S)

\* Mutant: one finished dependency is enough.
oneFinishedProgram(p, finished) == Depends(p) \cap finished # {}

inFinishedPrograms(p, finished) == Depends(p) \subseteq finished

\* Mutant: only existing programs are finished at the start.
ExistingFree(S) == (getDependsOnInfo(S) \ Gragh(S)) \cap S

\* The programs finished at the start: they depend on nothing, or do not exist.
Free(S) == getDependsOnInfo(S) \ Gragh(S)

\* The sort of S ends: whatever is finished, a program of the graph can be taken
\* as long as there is one. (Without this the loop of sortDepends never ends.)
Ends(S) ==
  \A X \in SUBSET Gragh(S) \ {{}} :
    \E p \in X : inFinishedPrograms(p, getDependsOnInfo(S) \ X)

SortBegin(a) ==
  /\ act[a].pc = "auto" /\ act[a].stage = "begin"
  /\ lock = nil /\ lock' = a
  /\ act' = [act EXCEPT ![a].stage = "free", ![a].todo = Free(procs),
                        ![a].finished = {}, ![a].order = <<>>]
  /\ UNCHANGED <<config, entries, groups, procs, report, crashed, reloads>>

\* One program of the loop: it is put into the order, or passed over.
SortVisit(a) ==
  LET r == act[a] IN
  /\ r.pc = "auto" /\ r.stage # "begin"
  /\ \E p \in r.todo :
       /\ r.stage = "rest" => \A q \in r.todo : config.priority[p[1]] <= config.priority[q[1]]
       /\ LET takes == r.stage = "graph" =>
                         p \notin r.finished /\ inFinishedPrograms(p, r.finished)
          IN  act' = [act EXCEPT
                ![a].todo = @ \ {p},
                ![a].finished = IF takes THEN @ \cup {p} ELSE @,
                ![a].order = IF takes /\ p \in procs THEN Append(@, p) ELSE @]
  /\ UNCHANGED <<config, entries, groups, procs, lock, report, crashed, reloads>>

\* The end of a loop: another pass over the graph until all are finished.
SortPass(a) ==
  LET done == getDependsOnInfo(procs) \subseteq act[a].finished IN
  /\ act[a].pc = "auto" /\ act[a].stage \in {"free", "graph"} /\ act[a].todo = {}
  /\ act' = [act EXCEPT ![a].stage = IF done THEN "rest" ELSE "graph",
                        ![a].todo = IF done THEN WithoutDepends(procs) ELSE Gragh(procs)]
  /\ UNCHANGED <<config, entries, groups, procs, lock, report, crashed, reloads>>

Sorted(a) == act[a].pc = "auto" /\ act[a].stage = "rest" /\ act[a].todo = {}

-----------------------------------------------------------------------------
\* The programs and groups before the load.
Previous(a) ==
  /\ act[a].pc = "names" /\ Ends(entries)
  /\ act' = [act EXCEPT ![a] = [GoTo(a, "groups") EXCEPT !.prev = entries,
                                                         !.prevGroups = groups]]
  /\ UNCHANGED <<config, entries, groups, procs, lock, report, crashed, reloads>>

\* Load makes a new ProgramGroup, and parseGroup fills it.
ParseGroups(a) ==
  /\ act[a].pc = "groups"
  /\ groups' = {<<s, config.group[s]>> : s \in {t \in Sections : config.group[t] # nil}}
  /\ act' = [act EXCEPT ![a] = [GoTo(a, "load") EXCEPT !.todo = Sections]]
  /\ UNCHANGED <<config, entries, procs, lock, report, crashed, reloads>>

\* Mutant: the section is named instead of its processes.
LoadedSection(s) == {<<s, 0>>}

\* The processes of a section that parseProgram returns.
LoadedProcs(s) == ProcNames(s)

\* Mutant: the default is not entered.
GetGroupOnly(s) == groups

\* GetGroup enters a section without a group as a group of its own.
GetGroup(s) == IF \E g \in groups : g[1] = s THEN groups ELSE groups \cup {<<s, s>>}

\* parseProgram takes a section. One that cannot be evaluated is left out.
\* (The sections are taken in one order, that of the text.)
ParseProgram(a) ==
  LET s == CHOOSE t \in act[a].todo : TRUE IN
  /\ act[a].pc = "load" /\ act[a].todo # {}
  /\ entries' = IF s \in config.bad THEN entries ELSE entries \cup ProcNames(s)
  /\ groups' = GetGroup(s)
  /\ act' = [act EXCEPT ![a].todo = @ \ {s},
               ![a].loaded = IF s \in config.bad THEN @ ELSE @ \cup LoadedProcs(s)]
  /\ UNCHANGED <<config, procs, lock, report, crashed, reloads>>

\* startEventListeners, and then createPrograms.
Loaded(a) ==
  /\ act[a].pc = "load" /\ act[a].todo = {}
  /\ act' = [act EXCEPT ![a] = GoTo(a, "create")]
  /\ UNCHANGED <<config, entries, groups, procs, lock, report, crashed, reloads>>

\* createPrograms has its programs; both of its sorts have ended.
CreatePrograms(a) ==
  /\ act[a].pc = "create" /\ Ends(entries)
  /\ act' = [act EXCEPT ![a] = [GoTo(a, "creating") EXCEPT !.todo = entries]]
  /\ UNCHANGED <<config, entries, groups, procs, lock, report, crashed, reloads>>

CreateProcess(a) ==
  LET p == CHOOSE q \in act[a].todo : TRUE IN
  /\ act[a].pc = "creating" /\ act[a].todo # {} /\ lock = nil
  /\ procs' = procs \cup {p}
  /\ act' = [act EXCEPT ![a].todo = @ \ {p}]
  /\ UNCHANGED <<config, entries, groups, lock, report, crashed, reloads>>

\* What is gone is removed from the table. Then main opens the listener.
Created(a) ==
  /\ act[a].pc = "creating" /\ act[a].todo = {} /\ lock = nil
  /\ procs' = procs \ (act[a].prev \ entries)
  /\ act' = [b \in Actors |-> CASE b = a -> GoTo(a, "auto")
                              [] b # a /\ a = main -> Fresh
                              [] OTHER -> act[b]]
  /\ UNCHANGED <<config, entries, groups, lock, report, crashed, reloads>>

\* StartAutoStartPrograms calls Start(false) for the programs in order; it does not
\* wait for any of them. The lock is released at the end.
StartAutoStartPrograms(a) ==
  /\ Sorted(a)
  /\ lock' = nil
  /\ act' = [act EXCEPT ![a] = GoTo(a, "remove")]
  /\ UNCHANGED <<config, entries, groups, procs, report, crashed, reloads>>

\* ProcessGroup.GetAllGroup, GetAllProcess and Sub.
AllGroup(G) == {g[2] : g \in G}
AllProcess(G, name) == {g[1] : g \in {h \in G : h[2] = name}}

Sub(G, H) ==
  [added |-> AllGroup(G) \ AllGroup(H),
   changed |-> {n \in AllGroup(G) \cap AllGroup(H) : AllProcess(G, n) # AllProcess(H, n)},
   removed |-> AllGroup(H) \ AllGroup(G)]

\* The programs that were there and were not loaded are removed and stopped.
RemovePrograms(a) ==
  LET removed == act[a].prev \ act[a].loaded IN
  /\ act[a].pc = "remove" /\ lock = nil
  /\ entries' = entries \ removed
  /\ groups' = {g \in groups : <<g[1], 0>> \notin removed}
  /\ procs' = procs \ removed
  /\ report' = Sub(groups', act[a].prevGroups)
  /\ act' = [act EXCEPT ![a] = IF a = main THEN [Fresh EXCEPT !.pc = "off"] ELSE Fresh]
  /\ UNCHANGED <<config, lock, crashed, reloads>>

\* Config.entries is written by one Reload while another uses it: the runtime may
\* notice, and ends edge-guard.
MapFault ==
  /\ \E a, b \in Actors :
       a # b /\ act[a].pc = "load" /\ act[b].pc \in {"names", "load", "create"}
  /\ crashed' = TRUE
  /\ UNCHANGED <<config, entries, groups, procs, lock, act, report, reloads>>

-----------------------------------------------------------------------------
Step(a) == \/ SortBegin(a) \/ SortVisit(a) \/ SortPass(a)
           \/ Previous(a) \/ ParseGroups(a) \/ ParseProgram(a) \/ Loaded(a)
           \/ CreatePrograms(a) \/ CreateProcess(a) \/ Created(a)
           \/ StartAutoStartPrograms(a) \/ RemovePrograms(a)

Next == ~crashed /\ (MapFault \/ \E a \in Actors : Reload(a) \/ Step(a))

\* A goroutine that can go on does so.
Spec == Init /\ [][Next]_vars /\ \A a \in Actors : WF_vars(~crashed /\ Step(a))

-----------------------------------------------------------------------------
\* The programs are started in an order that puts each one after those of the
\* process table it depends on, each one once, and at the end all of them;
\* those without any dependency last, by priority (sortProcess, SortProgram).
StartOrder ==
  \A a \in Actors : act[a].pc = "auto" /\ act[a].stage # "begin" =>
    LET order == act[a].order IN
    /\ \A j \in DOMAIN order :
         /\ \A q \in Depends(order[j]) \cap procs : \E i \in 1 .. j - 1 : order[i] = q
         /\ \A i \in 1 .. j - 1 :
              /\ order[i] # order[j]
              /\ order[i] \in WithoutDepends(procs) =>
                   /\ order[j] \in WithoutDepends(procs)
                   /\ config.priority[order[i][1]] <= config.priority[order[j][1]]
    /\ Sorted(a) => {order[i] : i \in DOMAIN order} = procs

\* A program never leaves the process table: the text is the same at every load,
\* however many loads overlap (Reload, createPrograms, RemoveProgram).
ProgramsKept == [][procs \subseteq procs']_vars

\* A Reload which no other overlaps returns what has changed: at the first one every
\* group of the text is added, and later nothing changes (Load, ProcessGroup.Sub).
ReportExact ==
  [][\A a \in Actors : act[a].pc = "remove" /\ act'[a].pc # "remove" /\ act[a].alone =>
       report' = [added |-> IF a # main THEN {}
                            ELSE {IF config.group[s] = nil THEN s ELSE config.group[s] :
                                    s \in Sections},
                  changed |-> {}, removed |-> {}]]_vars

\* depends_on has no cycle: in no set of programs does each depend on another.
Acyclic ==
  ~ \E X \in SUBSET UNION {ProcNames(s) : s \in Sections} \ {{}} :
      \A p \in X : Depends(p) \cap X # {}

\* Without a cycle in depends_on every Reload ends (sortDepends).
ReloadReturns ==
  \A a \in Actors : (Acyclic /\ act[a].pc = "names") ~> (act[a].pc \in {"idle", "off"} \/ crashed)

=============================================================================

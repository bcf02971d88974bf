------------------------- MODULE ProgramOrderProofs -------------------------
(***************************************************************************)
(* Theorems about the Reload of a Supervisor, for every text of the        *)
(* configuration, every number of requests and every number of reloads.    *)
(***************************************************************************)
EXTENDS ProgramOrder, TLAPS

-----------------------------------------------------------------------------
(* Type correctness *)

\* A load visits sections, and the other loops visit programs.
TypeInv ==
  /\ TypeOK
  /\ \A a \in Actors : /\ act[a].pc = "load" => act[a].todo \subseteq Sections
                       /\ act[a].pc \in {"creating", "auto"} => act[a].todo \subseteq Names

\* What the sort of a set of programs works on are names.
LEMMA SortSets ==
  ASSUME config \in ConfigType, NEW S \in SUBSET Names
  PROVE  /\ Gragh(S) \subseteq S
         /\ getDependsOnInfo(S) \subseteq Names /\ Free(S) \subseteq Names
         /\ WithoutDepends(S) \subseteq S
<1>1. \A p \in S : Depends(p) \subseteq Names
  BY DEF ConfigType, Names, Depends
<1>2. Gragh(S) \subseteq S
  BY DEF Gragh
<1>3. getDependsOnInfo(S) \subseteq Names
  BY <1>1, <1>2 DEF getDependsOnInfo
<1> QED BY <1>2, <1>3 DEF Free, WithoutDepends

\* The processes of a section are names.
LEMMA ProcNamesType ==
  ASSUME config \in ConfigType, NEW s \in Sections
  PROVE  ProcNames(s) \subseteq Names
<1>1. config.num[s] \in 1 .. MaxNum /\ MaxNum \in Nat
  BY ProgramOrderAssumption DEF ConfigType
<1>2. 0 \in 0 .. MaxNum /\ \A i \in 1 .. config.num[s] : i \in 0 .. MaxNum
  BY <1>1
<1> QED BY <1>2 DEF ProcNames, Names

\* An actor that has begun, or has not.
LEMMA FreshType ==
  /\ Fresh \in ActorType /\ Fresh.pc = "idle"
  /\ [Fresh EXCEPT !.pc = "off"] \in ActorType /\ [Fresh EXCEPT !.pc = "off"].pc = "off"
  /\ \A b \in BOOLEAN : /\ [Fresh EXCEPT !.pc = "names", !.alone = b] \in ActorType
                        /\ [Fresh EXCEPT !.pc = "names", !.alone = b].pc = "names"
<1>1. Fresh \in ActorType /\ Fresh.pc = "idle"
  BY DEF Fresh, ActorType
<1>2. ASSUME NEW r \in ActorType, NEW b \in BOOLEAN
      PROVE  /\ [r EXCEPT !.pc = "off"] \in ActorType /\ [r EXCEPT !.pc = "off"].pc = "off"
             /\ [r EXCEPT !.pc = "names", !.alone = b] \in ActorType
             /\ [r EXCEPT !.pc = "names", !.alone = b].pc = "names"
             /\ [r EXCEPT !.alone = b] \in ActorType
  BY DEF ActorType
<1> QED BY <1>1, <1>2

\* An actor that has begun knows nothing yet.
LEMMA FreshEmpty ==
  /\ Fresh.prev = {} /\ Fresh.loaded = {} /\ Fresh.todo = {}
  /\ \A pc : [Fresh EXCEPT !.pc = pc].prev = {} /\ [Fresh EXCEPT !.pc = pc].loaded = {}
  /\ \A pc, b : /\ [Fresh EXCEPT !.pc = pc, !.alone = b].prev = {}
                /\ [Fresh EXCEPT !.pc = pc, !.alone = b].loaded = {}
  BY DEF Fresh

\* An actor that goes on.
LEMMA GoToType ==
  ASSUME TypeOK, NEW a \in Actors, NEW pc \in {"groups", "load", "create", "creating", "auto", "remove"}
  PROVE  /\ GoTo(a, pc) \in ActorType /\ GoTo(a, pc).pc = pc /\ GoTo(a, pc).stage = "begin"
         /\ GoTo(a, pc).todo = act[a].todo /\ GoTo(a, pc).finished = act[a].finished
         /\ GoTo(a, pc).order = act[a].order /\ GoTo(a, pc).prev = act[a].prev
         /\ GoTo(a, pc).prevGroups = act[a].prevGroups /\ GoTo(a, pc).loaded = act[a].loaded
         /\ GoTo(a, pc).alone = act[a].alone
<1>1. act[a] \in ActorType
  BY DEF TypeOK
<1> QED BY <1>1 DEF GoTo, ActorType

\* Only actor a moves, and it keeps what it knew before its load.
Moves(a) == act' \in [Actors -> ActorType] /\ \A b \in Actors : b # a => act'[b] = act[b]
KeepsPrev(a) == act'[a].prev = act[a].prev /\ act'[a].prevGroups = act[a].prevGroups
KeepsLoad(a) == act'[a].loaded = act[a].loaded /\ act'[a].alone = act[a].alone

\* An actor that is given a new record.
LEMMA ActorSet ==
  ASSUME TypeInv, NEW a \in Actors, NEW r \in ActorType, act' = [act EXCEPT ![a] = r]
  PROVE  Moves(a) /\ act'[a] = r
  BY DEF Moves, TypeInv, TypeOK

\* What the steps of a sort change.
LEMMA SortBeginEffect ==
  ASSUME TypeInv, NEW a \in Actors, SortBegin(a)
  PROVE  /\ Moves(a) /\ KeepsPrev(a) /\ KeepsLoad(a)
         /\ act'[a].pc = "auto" /\ act'[a].stage = "free" /\ act'[a].todo = Free(procs)
         /\ act'[a].finished = {} /\ act'[a].order = <<>>
<1>1. act[a] \in ActorType /\ Free(procs) \subseteq Names
  BY SortSets, ConfigsAssumption DEF TypeInv, TypeOK
<1> DEFINE td == Free(procs)
           none == {}
           or == <<>>
           r == [act[a] EXCEPT !.stage = "free", !.todo = td, !.finished = none, !.order = or]
<1>2. td \subseteq Names /\ none \subseteq Names /\ or \in Seq(Names)
  BY <1>1
<1> HIDE DEF td, none, or
<1>4. /\ r \in ActorType /\ r.pc = act[a].pc /\ r.stage = "free" /\ r.todo = td
      /\ r.finished = none /\ r.order = or /\ r.prev = act[a].prev
      /\ r.prevGroups = act[a].prevGroups /\ r.loaded = act[a].loaded /\ r.alone = act[a].alone
  BY <1>1, <1>2 DEF ActorType
<1>3. act' = [act EXCEPT ![a] = r] /\ act[a].pc = "auto"
  BY DEF SortBegin, TypeInv, TypeOK, td, none, or
<1> HIDE DEF r
<1> QED BY <1>4, <1>3 DEF Moves, KeepsPrev, KeepsLoad, TypeInv, TypeOK, td, none, or

\* At the end of a loop the sort goes on to the next one, or passes over the graph again.
LEMMA SortPassEffect ==
  ASSUME TypeInv, NEW a \in Actors, SortPass(a)
  PROVE  LET done == getDependsOnInfo(procs) \subseteq act[a].finished
         IN /\ Moves(a) /\ KeepsPrev(a) /\ KeepsLoad(a)
            /\ act'[a].pc = "auto" /\ act'[a].stage = IF done THEN "rest" ELSE "graph"
            /\ act'[a].todo = IF done THEN WithoutDepends(procs) ELSE Gragh(procs)
            /\ act'[a].finished = act[a].finished /\ act'[a].order = act[a].order
<1> DEFINE done == getDependsOnInfo(procs) \subseteq act[a].finished
           st == IF done THEN "rest" ELSE "graph"
           td == IF done THEN WithoutDepends(procs) ELSE Gragh(procs)
           r == [act[a] EXCEPT !.stage = st, !.todo = td]
<1>1. act[a] \in ActorType /\ st \in {"rest", "graph"} /\ td \subseteq Names
  BY SortSets, ConfigsAssumption DEF TypeInv, TypeOK
<1>3. act' = [act EXCEPT ![a] = r] /\ act[a].pc = "auto"
  BY DEF SortPass, TypeInv, TypeOK
<1> HIDE DEF st, td
<1>2. /\ r \in ActorType /\ r.pc = act[a].pc /\ r.stage = st /\ r.todo = td
      /\ r.finished = act[a].finished /\ r.order = act[a].order /\ r.prev = act[a].prev
      /\ r.prevGroups = act[a].prevGroups /\ r.loaded = act[a].loaded /\ r.alone = act[a].alone
  BY <1>1 DEF ActorType
<1> HIDE DEF r
<1>4. /\ Moves(a) /\ KeepsPrev(a) /\ KeepsLoad(a)
      /\ act'[a].pc = "auto" /\ act'[a].stage = st /\ act'[a].todo = td
      /\ act'[a].finished = act[a].finished /\ act'[a].order = act[a].order
  BY <1>2, <1>3 DEF Moves, KeepsPrev, KeepsLoad, TypeInv, TypeOK
<1> QED BY <1>4 DEF st, td

\* The program that is visited is taken in every loop but that over the graph, where
\* all it depends on has to be finished.
Takes(a, p) ==
  act[a].stage = "graph" => p \notin act[a].finished /\ inFinishedPrograms(p, act[a].finished)

\* A visit takes one program out of the loop, and may put it into the order.
LEMMA SortVisitEffect ==
  ASSUME TypeInv, NEW a \in Actors, SortVisit(a)
  PROVE  \E p \in act[a].todo :
           /\ act[a].stage = "rest" =>
                \A q \in act[a].todo : config.priority[p[1]] <= config.priority[q[1]]
           /\ Moves(a) /\ KeepsPrev(a) /\ KeepsLoad(a)
           /\ act'[a].pc = "auto" /\ act'[a].stage = act[a].stage
           /\ act'[a].todo = act[a].todo \ {p}
           /\ act'[a].finished = IF Takes(a, p) THEN act[a].finished \cup {p} ELSE act[a].finished
           /\ act'[a].order = IF Takes(a, p) /\ p \in procs THEN Append(act[a].order, p)
                              ELSE act[a].order
<1> DEFINE td(p) == act[a].todo \ {p}
           fi(p) == IF Takes(a, p) THEN act[a].finished \cup {p} ELSE act[a].finished
           or(p) == IF Takes(a, p) /\ p \in procs THEN Append(act[a].order, p) ELSE act[a].order
           r(p) == [act[a] EXCEPT !.todo = td(p), !.finished = fi(p), !.order = or(p)]
<1>1. act[a] \in ActorType /\ act[a].pc = "auto" /\ act[a].todo \subseteq Names
  BY DEF SortVisit, TypeInv, TypeOK
<1>2. PICK p \in act[a].todo :
        /\ act[a].stage = "rest" =>
             \A q \in act[a].todo : config.priority[p[1]] <= config.priority[q[1]]
        /\ act' = [act EXCEPT ![a].todo = td(p), ![a].finished = fi(p), ![a].order = or(p)]
  BY DEF SortVisit, Takes
<1>3. act' = [act EXCEPT ![a] = r(p)]
  BY <1>2 DEF TypeInv, TypeOK
<1>4. td(p) \subseteq Names /\ fi(p) \subseteq Names /\ or(p) \in Seq(Names)
  BY <1>1 DEF ActorType
<1> HIDE DEF td, fi, or
<1>5. /\ r(p) \in ActorType /\ r(p).pc = act[a].pc /\ r(p).stage = act[a].stage /\ r(p).todo = td(p)
      /\ r(p).finished = fi(p) /\ r(p).order = or(p) /\ r(p).prev = act[a].prev
      /\ r(p).prevGroups = act[a].prevGroups /\ r(p).loaded = act[a].loaded
      /\ r(p).alone = act[a].alone
  BY <1>1, <1>4 DEF ActorType
<1> HIDE DEF r
<1>6. /\ Moves(a) /\ KeepsPrev(a) /\ KeepsLoad(a)
      /\ act'[a].pc = "auto" /\ act'[a].stage = act[a].stage /\ act'[a].todo = td(p)
      /\ act'[a].finished = fi(p) /\ act'[a].order = or(p)
  BY <1>1, <1>3, <1>5 DEF Moves, KeepsPrev, KeepsLoad, TypeInv, TypeOK
<1> QED BY <1>2, <1>6 DEF td, fi, or

\* What the steps from the beginning of a Reload to the load change.
LEMMA PreviousEffect ==
  ASSUME TypeInv, NEW a \in Actors, Previous(a)
  PROVE  /\ Moves(a) /\ KeepsLoad(a) /\ act[a].pc = "names" /\ act'[a].pc = "groups"
         /\ act'[a].prev = entries /\ act'[a].prevGroups = groups
<1> DEFINE g == GoTo(a, "groups")
           r == [g EXCEPT !.prev = entries, !.prevGroups = groups]
<1>1. g \in ActorType /\ g.pc = "groups" /\ g.loaded = act[a].loaded /\ g.alone = act[a].alone
  BY GoToType DEF TypeInv
<1>2. act' = [act EXCEPT ![a] = r] /\ act[a].pc = "names"
  BY DEF Previous
<1> HIDE DEF g
<1>3. entries \subseteq Names /\ groups \subseteq Sections \X (Groups \cup Sections)
  BY DEF TypeInv, TypeOK
<1>4. /\ r \in ActorType /\ r.pc = "groups" /\ r.loaded = g.loaded /\ r.alone = g.alone
      /\ r.prev = entries /\ r.prevGroups = groups
  BY <1>1, <1>3 DEF ActorType
<1> HIDE DEF r
<1> QED BY <1>1, <1>2, <1>4, ActorSet DEF KeepsLoad

\* A load begins with all the sections.
LEMMA ParseGroupsEffect ==
  ASSUME TypeInv, NEW a \in Actors, ParseGroups(a)
  PROVE  /\ Moves(a) /\ KeepsPrev(a) /\ KeepsLoad(a) /\ act[a].pc = "groups"
         /\ act'[a].pc = "load" /\ act'[a].todo = Sections
<1> DEFINE g == GoTo(a, "load")
           r == [g EXCEPT !.todo = Sections]
<1>1. /\ g \in ActorType /\ g.pc = "load" /\ g.loaded = act[a].loaded /\ g.alone = act[a].alone
      /\ g.prev = act[a].prev /\ g.prevGroups = act[a].prevGroups
  BY GoToType DEF TypeInv
<1>2. act' = [act EXCEPT ![a] = r] /\ act[a].pc = "groups"
  BY DEF ParseGroups
<1> HIDE DEF g
<1>4. /\ r \in ActorType /\ r.pc = "load" /\ r.loaded = g.loaded /\ r.alone = g.alone
      /\ r.prev = g.prev /\ r.prevGroups = g.prevGroups /\ r.todo = Sections
  BY <1>1 DEF ActorType
<1> HIDE DEF r
<1> QED BY <1>1, <1>2, <1>4, ActorSet DEF KeepsLoad, KeepsPrev

\* parseProgram loads the programs of one section.
LEMMA ParseProgramEffect ==
  ASSUME TypeInv, NEW a \in Actors, ParseProgram(a)
  PROVE  \E s \in act[a].todo :
           /\ s \in Sections /\ Moves(a) /\ KeepsPrev(a) /\ act'[a].alone = act[a].alone
           /\ act[a].pc = "load" /\ act'[a].pc = "load" /\ act'[a].todo = act[a].todo \ {s}
           /\ act'[a].loaded = IF s \in config.bad THEN act[a].loaded
                               ELSE act[a].loaded \cup ProcNames(s)
           /\ entries' = IF s \in config.bad THEN entries ELSE entries \cup ProcNames(s)
           /\ groups' = GetGroup(s)
<1> DEFINE s == CHOOSE t \in act[a].todo : TRUE
           td == act[a].todo \ {s}
           lo == IF s \in config.bad THEN act[a].loaded ELSE act[a].loaded \cup ProcNames(s)
           r == [act[a] EXCEPT !.todo = td, !.loaded = lo]
<1>1. act[a].pc = "load" /\ act[a].todo # {} /\ act[a] \in ActorType /\ act[a].todo \subseteq Sections
  BY DEF ParseProgram, TypeInv, TypeOK
<1>2. s \in act[a].todo
  BY <1>1
<1>3. act' = [act EXCEPT ![a] = r]
      /\ entries' = (IF s \in config.bad THEN entries ELSE entries \cup ProcNames(s))
      /\ groups' = GetGroup(s)
  BY DEF ParseProgram, TypeInv, TypeOK, LoadedProcs
<1> HIDE DEF s
<1>4. ProcNames(s) \subseteq Names
  BY <1>1, <1>2, ProcNamesType DEF TypeInv, TypeOK
<1>5. lo \subseteq Names /\ td \subseteq Names \cup Sections
  BY <1>1, <1>4 DEF ActorType
<1> HIDE DEF lo, td
<1>6. /\ r \in ActorType /\ r.pc = act[a].pc /\ r.loaded = lo /\ r.alone = act[a].alone
      /\ r.prev = act[a].prev /\ r.prevGroups = act[a].prevGroups /\ r.todo = td
  BY <1>1, <1>5 DEF ActorType
<1> HIDE DEF r
<1>7. /\ Moves(a) /\ KeepsPrev(a) /\ act'[a].alone = act[a].alone /\ act'[a].pc = "load"
      /\ act'[a].todo = td /\ act'[a].loaded = lo
  BY <1>1, <1>3, <1>6, ActorSet DEF KeepsPrev
<1> QED BY <1>1, <1>2, <1>3, <1>7 DEF td, lo

\* What the steps after the load change.
LEMMA GoOnEffect ==
  ASSUME TypeInv, NEW a \in Actors, NEW pc \in {"create", "remove"}, act' = [act EXCEPT ![a] = GoTo(a, pc)]
  PROVE  Moves(a) /\ KeepsPrev(a) /\ KeepsLoad(a) /\ act'[a].pc = pc
<1> DEFINE r == GoTo(a, pc)
<1>1. /\ r \in ActorType /\ r.pc = pc /\ r.loaded = act[a].loaded /\ r.alone = act[a].alone
      /\ r.prev = act[a].prev /\ r.prevGroups = act[a].prevGroups
  BY GoToType DEF TypeInv
<1>2. act' = [act EXCEPT ![a] = r]
  OBVIOUS
<1> HIDE DEF r
<1> QED BY <1>1, <1>2, ActorSet DEF KeepsPrev, KeepsLoad

\* createPrograms begins with all the entries.
LEMMA CreateProgramsEffect ==
  ASSUME TypeInv, NEW a \in Actors, CreatePrograms(a)
  PROVE  /\ Moves(a) /\ KeepsPrev(a) /\ KeepsLoad(a) /\ act[a].pc = "create"
         /\ act'[a].pc = "creating" /\ act'[a].todo = entries
<1> DEFINE g == GoTo(a, "creating")
           r == [g EXCEPT !.todo = entries]
<1>1. /\ g \in ActorType /\ g.pc = "creating" /\ g.loaded = act[a].loaded /\ g.alone = act[a].alone
      /\ g.prev = act[a].prev /\ g.prevGroups = act[a].prevGroups
  BY GoToType DEF TypeInv
<1>2. act' = [act EXCEPT ![a] = r] /\ act[a].pc = "create"
  BY DEF CreatePrograms
<1> HIDE DEF g
<1>3. entries \subseteq Names
  BY DEF TypeInv, TypeOK
<1>4. /\ r \in ActorType /\ r.pc = "creating" /\ r.loaded = g.loaded /\ r.alone = g.alone
      /\ r.prev = g.prev /\ r.prevGroups = g.prevGroups /\ r.todo = entries
  BY <1>1, <1>3 DEF ActorType
<1> HIDE DEF r
<1> QED BY <1>1, <1>2, <1>4, ActorSet DEF KeepsLoad, KeepsPrev

\* One more program is in the process table.
LEMMA CreateProcessEffect ==
  ASSUME TypeInv, NEW a \in Actors, CreateProcess(a)
  PROVE  \E p \in act[a].todo :
           /\ Moves(a) /\ KeepsPrev(a) /\ KeepsLoad(a) /\ p \in Names
           /\ act[a].pc = "creating" /\ act'[a].pc = "creating" /\ act'[a].todo = act[a].todo \ {p}
           /\ procs' = procs \cup {p}
<1> DEFINE p == CHOOSE q \in act[a].todo : TRUE
           td == act[a].todo \ {p}
           r == [act[a] EXCEPT !.todo = td]
<1>1. act[a].pc = "creating" /\ act[a].todo # {} /\ act[a] \in ActorType /\ act[a].todo \subseteq Names
  BY DEF CreateProcess, TypeInv, TypeOK
<1>2. p \in act[a].todo
  BY <1>1
<1>3. act' = [act EXCEPT ![a] = r] /\ procs' = procs \cup {p}
  BY DEF CreateProcess, TypeInv, TypeOK
<1> HIDE DEF p
<1>5. td \subseteq Names
  BY <1>1
<1> HIDE DEF td
<1>6. /\ r \in ActorType /\ r.pc = act[a].pc /\ r.loaded = act[a].loaded /\ r.alone = act[a].alone
      /\ r.prev = act[a].prev /\ r.prevGroups = act[a].prevGroups /\ r.todo = td
  BY <1>1, <1>5 DEF ActorType
<1> HIDE DEF r
<1> QED BY <1>1, <1>2, <1>3, <1>6, ActorSet DEF KeepsPrev, KeepsLoad, td

\* At the end of createPrograms main lets the requests in.
LEMMA CreatedEffect ==
  ASSUME TypeInv, NEW a \in Actors, Created(a)
  PROVE  /\ act' \in [Actors -> ActorType] /\ KeepsPrev(a) /\ KeepsLoad(a)
         /\ act[a].pc = "creating" /\ act[a].todo = {} /\ act'[a].pc = "auto"
         /\ act'[a].stage = "begin" /\ act'[a].todo = {}
         /\ \A b \in Actors \ {a} : act'[b] = IF a = main THEN Fresh ELSE act[b]
<1> DEFINE r == GoTo(a, "auto")
<1>1. /\ r \in ActorType /\ r.pc = "auto" /\ r.loaded = act[a].loaded /\ r.alone = act[a].alone
      /\ r.prev = act[a].prev /\ r.prevGroups = act[a].prevGroups /\ r.stage = "begin"
      /\ r.todo = act[a].todo
  BY GoToType DEF TypeInv
<1>2. /\ DOMAIN act' = Actors /\ act'[a] = r
      /\ \A b \in Actors \ {a} : act'[b] = IF a = main THEN Fresh ELSE act[b]
      /\ act[a].pc = "creating" /\ act[a].todo = {}
  BY DEF Created
<1>3. act' = [b \in Actors |-> act'[b]] /\ act'[a] = r
  BY DEF Created
<1> HIDE DEF r
<1>4. ASSUME NEW b \in Actors PROVE act'[b] \in ActorType
  <2>1. act[b] \in ActorType
    BY DEF TypeInv, TypeOK
  <2>2. CASE b = a
    BY <1>1, <1>3, <2>2
  <2>3. CASE b # a /\ a = main
    <3>1. Fresh \in ActorType
      BY FreshType
    <3>2. act'[b] = Fresh
      BY <1>2, <2>3
    <3> QED BY <3>1, <3>2
  <2>4. CASE b # a /\ a # main
    BY <1>2, <2>1, <2>4
  <2> QED BY <2>2, <2>3, <2>4
<1>5. act' \in [Actors -> ActorType]
  BY <1>3, <1>4
<1> QED BY <1>1, <1>2, <1>5 DEF KeepsPrev, KeepsLoad

\* The Reload ends.
LEMMA RemoveProgramsEffect ==
  ASSUME TypeInv, NEW a \in Actors, RemovePrograms(a)
  PROVE  /\ Moves(a) /\ act[a].pc = "remove"
         /\ act'[a].pc = IF a = main THEN "off" ELSE "idle"
         /\ act'[a].prev = {} /\ act'[a].loaded = {}
<1> DEFINE r == IF a = main THEN [Fresh EXCEPT !.pc = "off"] ELSE Fresh
<1>1. r \in ActorType /\ r.pc = IF a = main THEN "off" ELSE "idle"
  <2>1. CASE a = main
    BY <2>1, FreshType
  <2>2. CASE a # main
    BY <2>2, FreshType
  <2> QED BY <2>1, <2>2
<1>2. act' = [act EXCEPT ![a] = r] /\ act[a].pc = "remove"
  BY DEF RemovePrograms
<1>3. r.prev = {} /\ r.loaded = {}
  BY FreshEmpty
<1> HIDE DEF r
<1> QED BY <1>1, <1>2, <1>3, ActorSet

\* A Reload that begins is alone when no other runs, and those that run are not.
LEMMA ReloadEffect ==
  ASSUME TypeInv, NEW a \in Actors, Reload(a)
  PROVE  /\ act' \in [Actors -> ActorType]
         /\ act[a].pc = "idle" /\ act'[a].pc = "names"
         /\ act'[a].prev = {} /\ act'[a].loaded = {}
         /\ act'[a].alone = ~ \E b \in Actors : act[b].pc \notin {"off", "idle"}
         /\ \A b \in Actors \ {a} :
              /\ act'[b].pc = act[b].pc /\ act'[b].stage = act[b].stage
              /\ act'[b].todo = act[b].todo /\ act'[b].finished = act[b].finished
              /\ act'[b].order = act[b].order /\ act'[b].prev = act[b].prev
              /\ act'[b].prevGroups = act[b].prevGroups /\ act'[b].loaded = act[b].loaded
              /\ act'[b].alone = (act[b].alone /\ act[b].pc \in {"off", "idle"})
<1> DEFINE other == \E b \in Actors : act[b].pc \notin {"off", "idle"}
           al == ~other
           r == [Fresh EXCEPT !.pc = "names", !.alone = al]
           f(b) == [act[b] EXCEPT !.alone = act[b].alone /\ act[b].pc \in {"off", "idle"}]
<1>1. act' = [b \in Actors |-> IF b = a THEN r ELSE f(b)] /\ act[a].pc = "idle"
  BY DEF Reload
<1>2. al \in BOOLEAN
  OBVIOUS
<1>3. r \in ActorType /\ r.pc = "names"
  <2> HIDE DEF al
  <2> QED BY <1>2, FreshType
<1>4. r.alone = al
  BY DEF Fresh
<1>8. r.prev = {} /\ r.loaded = {}
  BY FreshEmpty
<1>5. ASSUME NEW b \in Actors
      PROVE  /\ f(b) \in ActorType
             /\ f(b).pc = act[b].pc /\ f(b).stage = act[b].stage
             /\ f(b).todo = act[b].todo /\ f(b).finished = act[b].finished
             /\ f(b).order = act[b].order /\ f(b).prev = act[b].prev
             /\ f(b).prevGroups = act[b].prevGroups /\ f(b).loaded = act[b].loaded
             /\ f(b).alone = (act[b].alone /\ act[b].pc \in {"off", "idle"})
  <2> DEFINE x == act[b].alone /\ act[b].pc \in {"off", "idle"}
  <2>1. act[b] \in ActorType /\ x \in BOOLEAN
    BY DEF TypeInv, TypeOK
  <2>2. f(b) = [act[b] EXCEPT !.alone = x]
    OBVIOUS
  <2> HIDE DEF x, f
  <2>3. /\ f(b) \in ActorType
        /\ f(b).pc = act[b].pc /\ f(b).stage = act[b].stage
        /\ f(b).todo = act[b].todo /\ f(b).finished = act[b].finished
        /\ f(b).order = act[b].order /\ f(b).prev = act[b].prev
        /\ f(b).prevGroups = act[b].prevGroups /\ f(b).loaded = act[b].loaded
    BY <2>1, <2>2, SMTT(40) DEF ActorType
  <2>4. f(b).alone = x
    BY <2>1, <2>2 DEF ActorType
  <2> QED BY <2>3, <2>4 DEF x
<1> HIDE DEF r, f
<1>6. act' \in [Actors -> ActorType]
  BY <1>1, <1>3, <1>5
<1>7. act'[a] = r /\ \A b \in Actors \ {a} : act'[b] = f(b)
  BY <1>1
<1> QED BY <1>1, <1>3, <1>4, <1>5, <1>6, <1>7, <1>8

\* The tables stay in their types.
LEMMA TablesType ==
  ASSUME TypeInv, [Next]_vars
  PROVE  /\ config' = config /\ entries' \subseteq Names /\ procs' \subseteq Names
         /\ groups' \subseteq Sections \X (Groups \cup Sections)
         /\ lock' \in Actors \cup {nil}
<1> USE DEF TypeInv, TypeOK
<1>1. config' = config
  BY ZenonT(40)
  DEF Next, vars, MapFault, Step, Reload, SortBegin, SortVisit, SortPass, Previous, ParseGroups,
         ParseProgram, Loaded, CreatePrograms, CreateProcess, Created, StartAutoStartPrograms,
         RemovePrograms
<1>2. lock' \in Actors \cup {nil}
  BY ZenonT(40)
  DEF Next, vars, MapFault, Step, Reload, SortBegin, SortVisit, SortPass, Previous, ParseGroups,
         ParseProgram, Loaded, CreatePrograms, CreateProcess, Created, StartAutoStartPrograms,
         RemovePrograms
<1>3. ASSUME NEW a \in Actors, ParseProgram(a)
      PROVE  entries' \subseteq Names /\ groups' \subseteq Sections \X (Groups \cup Sections)
             /\ procs' = procs
  <2>1. PICK s \in Sections : /\ entries' = IF s \in config.bad THEN entries ELSE entries \cup ProcNames(s)
                              /\ groups' = GetGroup(s)
    BY <1>3, ParseProgramEffect
  <2>2. ProcNames(s) \subseteq Names
    BY ProcNamesType
  <2>3. entries' \subseteq Names
    BY <2>1, <2>2
  <2>4. groups' \subseteq Sections \X (Groups \cup Sections)
    BY <2>1 DEF GetGroup
  <2> QED BY <1>3, <2>3, <2>4 DEF ParseProgram
<1>4. ASSUME NEW a \in Actors, ParseGroups(a)
      PROVE  UNCHANGED <<entries, procs>> /\ groups' \subseteq Sections \X (Groups \cup Sections)
  BY <1>4 DEF ParseGroups, ConfigType
<1>5. ASSUME NEW a \in Actors, CreateProcess(a)
      PROVE  UNCHANGED <<entries, groups>> /\ procs' \subseteq Names
  BY <1>5, CreateProcessEffect DEF CreateProcess
<1>6. ASSUME NEW a \in Actors, Created(a)
      PROVE  UNCHANGED <<entries, groups>> /\ procs' \subseteq procs
  BY <1>6 DEF Created
<1>7. ASSUME NEW a \in Actors, RemovePrograms(a)
      PROVE  entries' \subseteq entries /\ groups' \subseteq groups /\ procs' \subseteq procs
  BY <1>7 DEF RemovePrograms
<1>8. ASSUME NEW a \in Actors, \/ Reload(a) \/ SortBegin(a) \/ SortVisit(a) \/ SortPass(a) \/ Previous(a)
                               \/ Loaded(a) \/ CreatePrograms(a) \/ StartAutoStartPrograms(a)
      PROVE  UNCHANGED <<entries, groups, procs>>
  BY <1>8 DEF Reload, SortBegin, SortVisit, SortPass, Previous, Loaded, CreatePrograms,
              StartAutoStartPrograms
<1>9. CASE MapFault \/ UNCHANGED vars
  BY <1>1, <1>2, <1>9 DEF MapFault, vars
<1> HIDE DEF TypeInv, TypeOK
<1>10. entries \subseteq Names /\ procs \subseteq Names /\ groups \subseteq Sections \X (Groups \cup Sections)
  BY DEF TypeInv, TypeOK
<1> QED BY <1>1, <1>2, <1>3, <1>4, <1>5, <1>6, <1>7, <1>8, <1>9, <1>10 DEF Next, Step

\* Groups added, changed and removed are groups.
LEMMA SubType ==
  ASSUME NEW G \in SUBSET (Sections \X (Groups \cup Sections)),
         NEW H \in SUBSET (Sections \X (Groups \cup Sections))
  PROVE  Sub(G, H) \in [{"added", "changed", "removed"} -> SUBSET (Groups \cup Sections)]
<1>1. AllGroup(G) \subseteq Groups \cup Sections /\ AllGroup(H) \subseteq Groups \cup Sections
  BY DEF AllGroup
<1> DEFINE x == AllGroup(G) \ AllGroup(H)
           y == {n \in AllGroup(G) \cap AllGroup(H) : AllProcess(G, n) # AllProcess(H, n)}
           z == AllGroup(H) \ AllGroup(G)
<1>2. x \subseteq Groups \cup Sections /\ y \subseteq Groups \cup Sections /\ z \subseteq Groups \cup Sections
  BY <1>1
<1>3. Sub(G, H) = [added |-> x, changed |-> y, removed |-> z]
  BY DEF Sub
<1> HIDE DEF x, y, z
<1> QED BY <1>2, <1>3

\* The actors stay in their type, and what they visit is of the right kind.
LEMMA ActorsType ==
  ASSUME TypeInv, [Next]_vars
  PROVE  /\ act' \in [Actors -> ActorType]
         /\ \A a \in Actors : /\ act'[a].pc = "load" => act'[a].todo \subseteq Sections
                              /\ act'[a].pc \in {"creating", "auto"} => act'[a].todo \subseteq Names
<1> DEFINE Good(r) == /\ r.pc = "load" => r.todo \subseteq Sections
                      /\ r.pc \in {"creating", "auto"} => r.todo \subseteq Names
           Goal == act' \in [Actors -> ActorType] /\ \A b \in Actors : Good(act'[b])
<1>0. act \in [Actors -> ActorType] /\ \A b \in Actors : Good(act[b])
  BY DEF TypeInv, TypeOK
<1>p. procs \subseteq Names /\ entries \subseteq Names /\ config \in ConfigType
  BY DEF TypeInv, TypeOK
<1>m. ASSUME NEW a \in Actors, Moves(a), Good(act'[a]) PROVE Goal
  <2> HIDE DEF Good
  <2> QED BY <1>m, <1>0 DEF Moves
<1>1. ASSUME NEW a \in Actors, Reload(a) PROVE Goal
  BY <1>0, <1>1, ReloadEffect
<1>2. ASSUME NEW a \in Actors, SortBegin(a) PROVE Goal
  BY <1>m, <1>p, <1>2, SortBeginEffect, SortSets
<1>3. ASSUME NEW a \in Actors, SortVisit(a) PROVE Goal
  <2>1. PICK p : Moves(a) /\ act'[a].pc = "auto" /\ act'[a].todo = act[a].todo \ {p}
    BY <1>3, SortVisitEffect
  <2>2. act[a].pc = "auto"
    BY <1>3 DEF SortVisit
  <2> QED BY <1>0, <1>m, <2>1, <2>2
<1>4. ASSUME NEW a \in Actors, SortPass(a) PROVE Goal
  <2>1. act'[a].todo \subseteq Names /\ act'[a].pc = "auto" /\ Moves(a)
    BY <1>p, <1>4, SortPassEffect, SortSets
  <2> QED BY <1>m, <2>1
<1>5. ASSUME NEW a \in Actors, Previous(a) PROVE Goal
  BY <1>m, <1>5, PreviousEffect
<1>6. ASSUME NEW a \in Actors, ParseGroups(a) PROVE Goal
  BY <1>m, <1>6, ParseGroupsEffect
<1>7. ASSUME NEW a \in Actors, ParseProgram(a) PROVE Goal
  <2>1. PICK s : Moves(a) /\ act[a].pc = "load" /\ act'[a].pc = "load" /\ act'[a].todo = act[a].todo \ {s}
    BY <1>7, ParseProgramEffect
  <2> QED BY <1>0, <1>m, <2>1
<1>8. ASSUME NEW a \in Actors, Loaded(a) PROVE Goal
  BY <1>m, <1>8, GoOnEffect DEF Loaded
<1>9. ASSUME NEW a \in Actors, CreatePrograms(a) PROVE Goal
  BY <1>m, <1>p, <1>9, CreateProgramsEffect
<1>10. ASSUME NEW a \in Actors, CreateProcess(a) PROVE Goal
  <2>1. PICK p : Moves(a) /\ act[a].pc = "creating" /\ act'[a].pc = "creating" /\ act'[a].todo = act[a].todo \ {p}
    BY <1>10, CreateProcessEffect
  <2> QED BY <1>0, <1>m, <2>1
<1>11. ASSUME NEW a \in Actors, Created(a) PROVE Goal
  <2>1. /\ act' \in [Actors -> ActorType] /\ Good(act'[a])
        /\ \A b \in Actors \ {a} : act'[b] = IF a = main THEN Fresh ELSE act[b]
    BY <1>11, CreatedEffect
  <2>2. Good(Fresh)
    BY FreshType
  <2> HIDE DEF Good
  <2> QED BY <1>0, <2>1, <2>2
<1>12. ASSUME NEW a \in Actors, StartAutoStartPrograms(a) PROVE Goal
  BY <1>m, <1>12, GoOnEffect DEF StartAutoStartPrograms
<1>13. ASSUME NEW a \in Actors, RemovePrograms(a) PROVE Goal
  <2>1. Moves(a) /\ act'[a].pc \in {"off", "idle"}
    BY <1>13, RemoveProgramsEffect
  <2> QED BY <1>m, <2>1
<1>14. CASE MapFault \/ UNCHANGED vars
  BY <1>0, <1>14 DEF MapFault, vars
<1>15. ASSUME NEW a \in Actors, Reload(a) \/ Step(a) PROVE Goal
  BY <1>15, <1>1, <1>2, <1>3, <1>4, <1>5, <1>6, <1>7, <1>8, <1>9, <1>10, <1>11, <1>12, <1>13
  DEF Step
<1> QED BY <1>14, <1>15 DEF Next

\* Every step keeps TypeInv.
LEMMA TypeStep == TypeInv /\ [Next]_vars => TypeInv'
<1> SUFFICES ASSUME TypeInv, [Next]_vars PROVE TypeInv'
  BY SMTT(40)
<1>1. crashed' \in BOOLEAN
  BY ZenonT(40) DEF TypeInv, TypeOK, Next, vars, MapFault, Step, Reload, SortBegin, SortVisit, SortPass,
         Previous, ParseGroups, ParseProgram, Loaded, CreatePrograms, CreateProcess, Created,
         StartAutoStartPrograms, RemovePrograms
<1>2. reloads' \in 0 .. MaxReloads
  <2>1. reloads' = reloads \/ (reloads < MaxReloads /\ reloads' = reloads + 1)
    BY ZenonT(40) DEF Next, vars, MapFault, Step, Reload, SortBegin, SortVisit, SortPass,
         Previous, ParseGroups, ParseProgram, Loaded, CreatePrograms, CreateProcess, Created,
         StartAutoStartPrograms, RemovePrograms
  <2> QED BY <2>1, ProgramOrderAssumption DEF TypeInv, TypeOK
<1>3. report' \in [{"added", "changed", "removed"} -> SUBSET (Groups \cup Sections)]
  <2>1. ASSUME NEW a \in Actors, RemovePrograms(a)
        PROVE  report' \in [{"added", "changed", "removed"} -> SUBSET (Groups \cup Sections)]
    <3>1. act[a].prevGroups \in SUBSET (Sections \X (Groups \cup Sections))
      BY DEF TypeInv, TypeOK, ActorType
    <3>2. groups' \in SUBSET (Sections \X (Groups \cup Sections))
      BY TablesType
    <3>3. report' = Sub(groups', act[a].prevGroups)
      BY <2>1 DEF RemovePrograms
    <3> QED BY <3>1, <3>2, <3>3, SubType
  <2>2. CASE report' = report
    BY <2>2 DEF TypeInv, TypeOK
  <2> QED BY <2>1, <2>2 DEF Next, vars, MapFault, Step, Reload, SortBegin, SortVisit, SortPass,
         Previous, ParseGroups, ParseProgram, Loaded, CreatePrograms, CreateProcess, Created,
         StartAutoStartPrograms
<1> QED BY <1>1, <1>2, <1>3, TablesType, ActorsType DEF TypeInv, TypeOK

\* TypeInv holds at the start.
LEMMA TypeInit == Init => TypeInv
<1> SUFFICES ASSUME Init PROVE TypeInv
  OBVIOUS
<1>1. report \in [{"added", "changed", "removed"} -> SUBSET (Groups \cup Sections)]
  BY DEF Init
<1>2. ASSUME NEW a \in Actors PROVE act[a] \in ActorType /\ act[a].pc \in {"idle", "off"}
  <2>1. CASE a = main
    BY <2>1, FreshType DEF Init
  <2>2. CASE a # main
    BY <2>2, FreshType DEF Init
  <2> QED BY <2>1, <2>2
<1>3. act \in [Actors -> ActorType] /\ \A a \in Actors : act[a].pc \in {"idle", "off"}
  <2>1. act = [a \in Actors |-> act[a]]
    BY DEF Init
  <2> QED BY <1>2, <2>1
<1>4. config \in Configs \cap ConfigType /\ reloads \in 0 .. MaxReloads
  BY ConfigsAssumption, ProgramOrderAssumption DEF Init
<1> QED BY <1>1, <1>3, <1>4 DEF Init, TypeInv, TypeOK

\* The type invariant of ProgramOrder.
THEOREM TypeCorrect == Spec => []TypeOK
<1>1. TypeInv => TypeOK
  BY DEF TypeInv
<1> QED BY <1>1, TypeInit, TypeStep, PTL DEF Spec

-----------------------------------------------------------------------------
(* The order of the sort *)

Sorting(a) == act[a].pc = "auto" /\ act[a].stage # "begin"

\* What StartOrder says of the programs put into the order so far.
InOrder(order) ==
  \A j \in DOMAIN order :
    /\ \A q \in Depends(order[j]) \cap procs : \E i \in 1 .. j - 1 : order[i] = q
    /\ \A i \in 1 .. j - 1 :
         /\ order[i] # order[j]
         /\ order[i] \in WithoutDepends(procs) =>
              /\ order[j] \in WithoutDepends(procs)
              /\ config.priority[order[i][1]] <= config.priority[order[j][1]]

\* The order holds the programs of the table that are finished.
Holds(order, finished) ==
  /\ \A i \in DOMAIN order : order[i] \in finished \cap procs
  /\ \A p \in finished \cap procs : \E i \in DOMAIN order : order[i] = p

\* Which programs are finished in each of the three loops.
Visited(stage, todo, finished) ==
  /\ stage = "free" => todo \subseteq Free(procs) /\ finished = Free(procs) \ todo
  /\ stage = "graph" => /\ todo \subseteq Gragh(procs)
                        /\ Free(procs) \subseteq finished
                        /\ finished \subseteq getDependsOnInfo(procs)
  /\ stage = "rest" =>
       /\ todo \subseteq WithoutDepends(procs)
       /\ finished = getDependsOnInfo(procs) \cup (WithoutDepends(procs) \ todo)
       /\ \A p \in finished \cap WithoutDepends(procs), q \in todo :
            config.priority[p[1]] <= config.priority[q[1]]

\* A sort holds the lock of the process table from its beginning to its end.
SortOK(a) ==
  /\ lock = a
  /\ Visited(act[a].stage, act[a].todo, act[a].finished)
  /\ Holds(act[a].order, act[a].finished)
  /\ InOrder(act[a].order)

SortInv == \A a \in Actors : Sorting(a) => SortOK(a)

\* A program may follow the order when it is new, all it depends on is there, and those
\* without dependencies that are there have none before it.
LEMMA OrderGrows ==
  ASSUME NEW order \in Seq(Names), NEW finished, NEW p \in Names \cap procs,
         InOrder(order), Holds(order, finished), p \notin finished,
         Depends(p) \cap procs \subseteq finished,
         \A q \in finished \cap WithoutDepends(procs) :
           p \in WithoutDepends(procs) /\ config.priority[q[1]] <= config.priority[p[1]]
  PROVE  InOrder(Append(order, p)) /\ Holds(Append(order, p), finished \cup {p})
<1> DEFINE longer == Append(order, p)
           n == Len(order)
<1>1. /\ DOMAIN longer = 1 .. n + 1 /\ n \in Nat /\ DOMAIN order = 1 .. n
      /\ \A i \in 1 .. n : longer[i] = order[i]
      /\ longer[n + 1] = p
  OBVIOUS
<1> HIDE DEF longer, n
<1>2. Holds(longer, finished \cup {p})
  BY <1>1 DEF Holds
<1>3. ASSUME NEW j \in 1 .. n
      PROVE  /\ \A q \in Depends(longer[j]) \cap procs : \E i \in 1 .. j - 1 : longer[i] = q
             /\ \A i \in 1 .. j - 1 :
                  /\ longer[i] # longer[j]
                  /\ longer[i] \in WithoutDepends(procs) =>
                       /\ longer[j] \in WithoutDepends(procs)
                       /\ config.priority[longer[i][1]] <= config.priority[longer[j][1]]
  <2>1. \A i \in 1 .. j - 1 : longer[i] = order[i]
    BY <1>1
  <2>2. longer[j] = order[j] /\ j \in DOMAIN order
    BY <1>1
  <2> QED BY <2>1, <2>2 DEF InOrder
<1>4. \A q \in Depends(p) \cap procs : \E i \in 1 .. (n + 1) - 1 : longer[i] = q
  BY <1>1 DEF Holds
<1>5. ASSUME NEW i \in 1 .. (n + 1) - 1
      PROVE  /\ longer[i] # p
             /\ longer[i] \in WithoutDepends(procs) =>
                  /\ p \in WithoutDepends(procs)
                  /\ config.priority[longer[i][1]] <= config.priority[p[1]]
  <2>1. i \in DOMAIN order /\ longer[i] = order[i] /\ order[i] \in finished
    BY <1>1 DEF Holds
  <2> QED BY <2>1
<1>6. ASSUME NEW j \in 1 .. n + 1
      PROVE  /\ \A q \in Depends(longer[j]) \cap procs : \E i \in 1 .. j - 1 : longer[i] = q
             /\ \A i \in 1 .. j - 1 :
                  /\ longer[i] # longer[j]
                  /\ longer[i] \in WithoutDepends(procs) =>
                       /\ longer[j] \in WithoutDepends(procs)
                       /\ config.priority[longer[i][1]] <= config.priority[longer[j][1]]
  <2>1. CASE j \in 1 .. n
    BY <1>3, <2>1
  <2>2. CASE j = n + 1
    BY <1>1, <1>4, <1>5, <2>2
  <2> QED BY <1>1, <2>1, <2>2
<1>7. InOrder(longer)
  BY <1>1, <1>6 DEF InOrder
<1> QED BY <1>2, <1>7 DEF longer

\* The loops visit: the programs without a dependency of their own that others name,
\* those with one, and those that have none and that nobody names.
LEMMA SortParts ==
  /\ Free(procs) \cap Gragh(procs) = {}
  /\ getDependsOnInfo(procs) = Free(procs) \cup Gragh(procs)
  /\ WithoutDepends(procs) \cap getDependsOnInfo(procs) = {}
  /\ procs \subseteq getDependsOnInfo(procs) \cup WithoutDepends(procs)
  /\ \A p \in procs : p \notin Gragh(procs) => Depends(p) = {}
  BY DEF Free, Gragh, getDependsOnInfo, WithoutDepends

\* A visit keeps what SortInv says of its own sort.
LEMMA VisitStep ==
  ASSUME TypeInv, SortInv, NEW a \in Actors, SortVisit(a)
  PROVE  /\ Visited(act'[a].stage, act'[a].todo, act'[a].finished)
         /\ Holds(act'[a].order, act'[a].finished)
         /\ InOrder(act'[a].order)
<1> DEFINE stage == act[a].stage
           todo == act[a].todo
           finished == act[a].finished
           order == act[a].order
<1>1. PICK p \in todo :
           /\ stage = "rest" => \A q \in todo : config.priority[p[1]] <= config.priority[q[1]]
           /\ act'[a].stage = stage
           /\ act'[a].todo = todo \ {p}
           /\ act'[a].finished = IF Takes(a, p) THEN finished \cup {p} ELSE finished
           /\ act'[a].order = IF Takes(a, p) /\ p \in procs THEN Append(order, p) ELSE order
  BY SortVisitEffect
<1>2. /\ Visited(stage, todo, finished) /\ Holds(order, finished) /\ InOrder(order)
      /\ order \in Seq(Names) /\ stage \in {"free", "graph", "rest"} /\ p \in Names
      /\ (Takes(a, p) <=> (stage = "graph" => p \notin finished /\ Depends(p) \subseteq finished))
  BY DEF SortVisit, SortInv, SortOK, Sorting, TypeInv, TypeOK, ActorType, Takes, inFinishedPrograms
<1> HIDE DEF stage, todo, finished, order
<1>3. CASE ~Takes(a, p)
  <2>1. stage = "graph"
    BY <1>2, <1>3
  <2> QED BY <1>1, <1>2, <1>3, <2>1 DEF Visited
<1>4. CASE Takes(a, p)
  <2>1. p \notin finished
    BY <1>2, <1>4, SortParts DEF Visited
  <2>2. Depends(p) \cap procs \subseteq finished \/ p \notin procs
    BY <1>2, <1>4, SortParts DEF Visited
  <2>3. \A q \in finished \cap WithoutDepends(procs) :
          p \in WithoutDepends(procs) /\ config.priority[q[1]] <= config.priority[p[1]]
    BY <1>2, <1>4, SortParts DEF Visited
  <2>4. Visited(stage, todo \ {p}, finished \cup {p})
    <3>1. CASE stage = "free"
      BY <1>2, <3>1 DEF Visited
    <3>2. CASE stage = "graph"
      BY <1>2, <3>2, SortParts DEF Visited
    <3>3. CASE stage = "rest"
      BY <1>1, <1>2, <3>3, SortParts DEF Visited
    <3> QED BY <1>2, <3>1, <3>2, <3>3
  <2>5. CASE p \in procs
    BY <1>1, <1>2, <1>4, <2>1, <2>2, <2>3, <2>4, <2>5, OrderGrows, SMTT(40)
  <2>6. CASE p \notin procs
    <3>1. Holds(order, finished \cup {p})
      BY <1>2, <2>6 DEF Holds
    <3> QED BY <1>1, <1>2, <1>4, <2>4, <2>6, <3>1
  <2> QED BY <2>5, <2>6
<1> QED BY <1>3, <1>4

\* While a sort runs, the table and the text are what they were.
LEMMA SameTable ==
  ASSUME UNCHANGED <<config, procs>>, NEW a \in Actors, lock' = a,
         Visited(act'[a].stage, act'[a].todo, act'[a].finished),
         Holds(act'[a].order, act'[a].finished), InOrder(act'[a].order)
  PROVE  SortOK(a)'
<1>1. \A p : Depends(p)' = Depends(p)
  BY DEF Depends
<1>2. /\ Gragh(procs)' = Gragh(procs) /\ getDependsOnInfo(procs)' = getDependsOnInfo(procs)
      /\ Free(procs)' = Free(procs) /\ WithoutDepends(procs)' = WithoutDepends(procs)
  BY DEF Gragh, getDependsOnInfo, Free, WithoutDepends, Depends
<1>3. Visited(act[a].stage, act[a].todo, act[a].finished)'
  BY <1>1, <1>2 DEF Visited
<1>4. Holds(act[a].order, act[a].finished)'
  BY DEF Holds
<1>5. InOrder(act[a].order)'
  BY <1>1, <1>2 DEF InOrder
<1> QED BY <1>3, <1>4, <1>5 DEF SortOK

\* The sort of an actor that another step does not touch.
LEMMA SortKept ==
  ASSUME SortInv, NEW a \in Actors, UNCHANGED <<config, procs, lock>>,
         act'[a].pc = act[a].pc, act'[a].stage = act[a].stage, act'[a].todo = act[a].todo,
         act'[a].finished = act[a].finished, act'[a].order = act[a].order
  PROVE  Sorting(a)' => SortOK(a)'
<1> SUFFICES ASSUME Sorting(a) PROVE SortOK(a)'
  BY DEF Sorting
<1>1. SortOK(a)
  BY DEF SortInv
<1> QED BY <1>1, SameTable DEF SortOK

\* Every step keeps SortInv.
LEMMA SortStep ==
  ASSUME TypeInv, SortInv, [Next]_vars
  PROVE  SortInv'
<1>n. \A a \in Actors : a # nil
  BY ProgramOrderAssumption DEF Actors
<1>0. config' = config
  BY TablesType
<1>m. ASSUME NEW a \in Actors, Moves(a), UNCHANGED <<procs, lock>>, Sorting(a)' => SortOK(a)'
      PROVE  SortInv'
  BY <1>0, <1>m, SortKept DEF Moves, SortInv
<1>f. ASSUME lock = nil PROVE \A a \in Actors : ~Sorting(a)
  BY <1>f, <1>n DEF SortInv, SortOK
<1>g. ASSUME NEW a \in Actors, Moves(a), lock = nil, act'[a].pc # "auto" PROVE SortInv'
  BY <1>f, <1>g DEF Moves, SortInv, Sorting
<1>1. ASSUME NEW a \in Actors, Reload(a) PROVE SortInv'
  <2>1. UNCHANGED <<procs, lock>>
    BY <1>1 DEF Reload
  <2>2. ~Sorting(a)'
    BY <1>1, ReloadEffect DEF Sorting
  <2>3. ASSUME NEW b \in Actors \ {a} PROVE Sorting(b)' => SortOK(b)'
    <3>1. /\ act'[b].pc = act[b].pc /\ act'[b].stage = act[b].stage /\ act'[b].todo = act[b].todo
          /\ act'[b].finished = act[b].finished /\ act'[b].order = act[b].order
      BY <1>1, ReloadEffect
    <3> QED BY <1>0, <2>1, <3>1, SortKept
  <2> QED BY <2>2, <2>3 DEF SortInv
<1>2. ASSUME NEW a \in Actors, SortBegin(a) PROVE SortInv'
  <2>1. /\ Moves(a) /\ act'[a].stage = "free" /\ act'[a].todo = Free(procs)
        /\ act'[a].finished = {} /\ act'[a].order = <<>>
    BY <1>2, SortBeginEffect
  <2>2. lock = nil /\ lock' = a /\ procs' = procs
    BY <1>2 DEF SortBegin
  <2>3. /\ Visited(act'[a].stage, act'[a].todo, act'[a].finished)
        /\ Holds(act'[a].order, act'[a].finished) /\ InOrder(act'[a].order)
    BY <2>1 DEF Visited, Holds, InOrder
  <2>4. SortOK(a)'
    BY <1>0, <2>2, <2>3, SameTable
  <2> QED BY <1>f, <2>1, <2>2, <2>4 DEF Moves, SortInv, Sorting
<1>3. ASSUME NEW a \in Actors, SortVisit(a) PROVE SortInv'
  <2>1. Moves(a)
    BY <1>3, SortVisitEffect
  <2>2. UNCHANGED <<procs, lock>> /\ Sorting(a)
    BY <1>3 DEF SortVisit, Sorting
  <2>3. lock' = a
    BY <2>2 DEF SortInv, SortOK
  <2>4. SortOK(a)'
    BY <1>0, <1>3, <2>2, <2>3, VisitStep, SameTable
  <2> QED BY <1>m, <2>1, <2>2, <2>4
<1>4. ASSUME NEW a \in Actors, SortPass(a) PROVE SortInv'
  <2> DEFINE finished == act[a].finished
             done == getDependsOnInfo(procs) \subseteq finished
  <2>1. /\ Moves(a) /\ act'[a].stage = (IF done THEN "rest" ELSE "graph")
        /\ act'[a].todo = (IF done THEN WithoutDepends(procs) ELSE Gragh(procs))
        /\ act'[a].finished = finished /\ act'[a].order = act[a].order
    BY <1>4, SortPassEffect
  <2>2. UNCHANGED <<procs, lock>> /\ Sorting(a) /\ act[a].stage \in {"free", "graph"} /\ act[a].todo = {}
    BY <1>4 DEF SortPass, Sorting
  <2>3. SortOK(a)
    BY <2>2 DEF SortInv
  <2>4. Free(procs) \subseteq finished /\ finished \subseteq getDependsOnInfo(procs)
    BY <2>2, <2>3, SortParts DEF SortOK, Visited
  <2>5. Visited(act'[a].stage, act'[a].todo, act'[a].finished)
    <3>1. CASE done
      <4>1. finished = getDependsOnInfo(procs) /\ finished \cap WithoutDepends(procs) = {}
        BY <2>4, <3>1, SortParts
      <4> QED BY <2>1, <3>1, <4>1 DEF Visited
    <3>2. CASE ~done
      BY <2>1, <2>4, <3>2 DEF Visited
    <3> QED BY <3>1, <3>2
  <2>6. SortOK(a)'
    BY <1>0, <2>1, <2>2, <2>3, <2>5, SameTable DEF SortOK
  <2> QED BY <1>m, <2>1, <2>2, <2>6
<1>5. ASSUME NEW a \in Actors, \/ Previous(a) \/ ParseGroups(a) \/ ParseProgram(a) \/ Loaded(a)
                               \/ CreatePrograms(a)
      PROVE  SortInv'
  <2>1. UNCHANGED <<procs, lock>>
    BY <1>5 DEF Previous, ParseGroups, ParseProgram, Loaded, CreatePrograms
  <2>2. Moves(a) /\ act'[a].pc # "auto"
    BY <1>5, PreviousEffect, ParseGroupsEffect, ParseProgramEffect, GoOnEffect, CreateProgramsEffect
    DEF Loaded
  <2> QED BY <1>m, <2>1, <2>2 DEF Sorting
<1>6. ASSUME NEW a \in Actors, CreateProcess(a) PROVE SortInv'
  BY <1>6, <1>g, CreateProcessEffect DEF CreateProcess
<1>7. ASSUME NEW a \in Actors, Created(a) PROVE SortInv'
  <2>1. lock = nil
    BY <1>7 DEF Created
  <2>2. ASSUME NEW b \in Actors PROVE ~Sorting(b)'
    <3>1. CASE b = a
      BY <1>7, <3>1, CreatedEffect DEF Sorting
    <3>2. CASE b # a /\ a = main
      BY <1>7, <3>2, CreatedEffect, FreshType DEF Sorting
    <3>3. CASE b # a /\ a # main
      BY <1>7, <1>f, <2>1, <3>3, CreatedEffect DEF Sorting
    <3> QED BY <3>1, <3>2, <3>3
  <2> QED BY <2>2 DEF SortInv
<1>8. ASSUME NEW a \in Actors, StartAutoStartPrograms(a) PROVE SortInv'
  <2>1. Moves(a) /\ act'[a].pc = "remove"
    BY <1>8, GoOnEffect DEF StartAutoStartPrograms
  <2>2. Sorting(a)
    BY <1>8 DEF StartAutoStartPrograms, Sorted, Sorting
  <2>3. \A b \in Actors \ {a} : ~Sorting(b)
    BY <2>2 DEF SortInv, SortOK
  <2> QED BY <2>1, <2>3 DEF Moves, SortInv, Sorting
<1>9. ASSUME NEW a \in Actors, RemovePrograms(a) PROVE SortInv'
  <2>1. Moves(a) /\ act'[a].pc # "auto"
    BY <1>9, RemoveProgramsEffect
  <2>2. lock = nil
    BY <1>9 DEF RemovePrograms
  <2> QED BY <1>g, <2>1, <2>2
<1>10. CASE MapFault \/ UNCHANGED vars
  <2>1. UNCHANGED <<procs, lock, act>>
    BY <1>10 DEF MapFault, vars
  <2> QED BY <1>0, <2>1, SortKept DEF SortInv
<1>11. ASSUME NEW a \in Actors, Reload(a) \/ Step(a) PROVE SortInv'
  BY <1>11, <1>1, <1>2, <1>3, <1>4, <1>5, <1>6, <1>7, <1>8, <1>9 DEF Step
<1> QED BY <1>10, <1>11 DEF Next

\* The programs are started in the order of depends_on, each once and in the end all of
\* them, for every text and whatever other reloads do meanwhile (sortProcess,
\* SortProgram, StartAutoStartPrograms).
THEOREM StartOrderAlways == Spec => []StartOrder
<1>1. Init => TypeInv /\ SortInv
  <2>1. Init => SortInv
    <3> SUFFICES ASSUME Init, NEW a \in Actors PROVE ~Sorting(a)
      BY DEF SortInv
    <3>1. act[a].pc \in {"idle", "off"}
      BY FreshType DEF Init
    <3> QED BY <3>1 DEF Sorting
  <2> QED BY <2>1, TypeInit
<1>2. TypeInv /\ SortInv => StartOrder
  <2> SUFFICES ASSUME TypeInv, SortInv, NEW a \in Actors, act[a].pc = "auto", act[a].stage # "begin"
               PROVE  /\ InOrder(act[a].order)
                      /\ Sorted(a) => {act[a].order[i] : i \in DOMAIN act[a].order} = procs
    BY DEF StartOrder, InOrder
  <2>1. SortOK(a)
    BY DEF SortInv, Sorting
  <2>2. ASSUME Sorted(a) PROVE procs \subseteq act[a].finished
    BY <2>1, <2>2, SortParts DEF SortOK, Sorted, Visited
  <2> QED BY <2>1, <2>2 DEF SortOK, Holds
<1>3. TypeInv /\ SortInv /\ [Next]_vars => TypeInv' /\ SortInv'
  BY TypeStep, SortStep
<1> QED BY <1>1, <1>2, <1>3, PTL DEF Spec

-----------------------------------------------------------------------------
(* What a Reload removes, and what it reports *)

\* The programs of the text.
AllProgs == UNION {ProcNames(s) : s \in Sections \ config.bad}

\* What is loaded is in the configuration, and a load that is over has loaded the whole text.
Loads(a) ==
  /\ act[a].prev \subseteq AllProgs /\ act[a].loaded \subseteq entries
  /\ act[a].pc = "load" =>
       \A s \in Sections \ config.bad : s \in act[a].todo \/ ProcNames(s) \subseteq act[a].loaded
  /\ act[a].pc \in {"create", "creating", "auto", "remove"} => AllProgs \subseteq act[a].loaded

KeptInv == entries \subseteq AllProgs /\ \A a \in Actors : Loads(a)

\* The group of a section in the text.
GroupOf(s) == <<s, IF config.group[s] = nil THEN s ELSE config.group[s]>>
TextGroups == {GroupOf(s) : s \in Sections}

\* A Reload that has seen no other is the only one.
AloneOK(a) ==
  act[a].alone /\ act[a].pc \notin {"off", "idle"} =>
    /\ \A b \in Actors \ {a} : act[b].pc \in {"off", "idle"}
    /\ act[a].pc # "names" => act[a].prevGroups = IF a = main THEN {} ELSE TextGroups

\* The first load has not filled ProgramGroup yet.
Unfilled == act[main].pc \in {"idle", "names", "groups"}

\* The requests come after the programs of main were created. The groups of the sections
\* are there, but for those which a load that made a new ProgramGroup has still to take.
GroupsInv ==
  /\ groups \subseteq TextGroups
  /\ Unfilled => groups = {}
  /\ Unfilled \/ act[main].pc \in {"load", "create", "creating"} =>
       \A b \in Clients : act[b].pc = "off"
  /\ ~Unfilled =>
       /\ \A s \in Sections : config.group[s] # nil => GroupOf(s) \in groups
       /\ \/ TextGroups \subseteq groups
          \/ \E b \in Actors : /\ act[b].pc = "load"
                               /\ \A s \in Sections : GroupOf(s) \in groups \/ s \in act[b].todo
  /\ \A a \in Actors : AloneOK(a)

\* The entries only grow as long as KeptInv holds, and stay within the text.
LEMMA EntriesGrow ==
  ASSUME TypeInv, KeptInv, [Next]_vars
  PROVE  entries \subseteq entries' /\ entries' \subseteq AllProgs
<1>1. ASSUME NEW a \in Actors, ParseProgram(a)
      PROVE  entries \subseteq entries' /\ entries' \subseteq AllProgs
  <2>1. PICK s \in Sections : entries' = IF s \in config.bad THEN entries ELSE entries \cup ProcNames(s)
    BY <1>1, ParseProgramEffect
  <2>2. s \notin config.bad => ProcNames(s) \subseteq AllProgs
    BY DEF AllProgs
  <2> QED BY <2>1, <2>2 DEF KeptInv
<1>2. ASSUME NEW a \in Actors, RemovePrograms(a)
      PROVE  entries' = entries
  BY <1>2 DEF RemovePrograms, KeptInv, Loads
<1>3. CASE entries' = entries
  BY <1>3 DEF KeptInv
<1>4. ASSUME NEW a \in Actors, Reload(a) \/ Step(a) PROVE entries \subseteq entries' /\ entries' \subseteq AllProgs
  BY <1>1, <1>2, <1>3, <1>4
  DEF Step, Reload, SortBegin, SortVisit, SortPass, Previous, ParseGroups, Loaded, CreatePrograms,
      CreateProcess, Created, StartAutoStartPrograms
<1>5. CASE MapFault \/ UNCHANGED vars
  BY <1>3, <1>5 DEF MapFault, vars
<1> QED BY <1>4, <1>5 DEF Next

\* The load of an actor that keeps what it has loaded, and stays at its load or after it.
LEMMA LoadsKept ==
  ASSUME TypeInv, KeptInv, NEW a \in Actors, config' = config, entries \subseteq entries',
         act'[a].prev = act[a].prev \/ act'[a].prev = entries, act'[a].loaded = act[a].loaded,
         \/ act'[a].pc = act[a].pc /\ (act[a].pc = "load" => act'[a].todo = act[a].todo)
         \/ act'[a].pc = "load" /\ act'[a].todo = Sections
         \/ act[a].pc \in {"create", "creating", "auto", "remove"}
         \/ act'[a].pc \in {"names", "groups"}
  PROVE  Loads(a)'
<1>1. AllProgs' = AllProgs /\ \A s \in Sections : ProcNames(s)' = ProcNames(s)
  BY DEF AllProgs, ProcNames
<1>2. Loads(a) /\ entries \subseteq AllProgs
  BY DEF KeptInv
<1>3. act'[a].prev \subseteq AllProgs /\ act'[a].loaded \subseteq entries'
  BY <1>2 DEF Loads
<1>4. act'[a].pc = "load" =>
        \A s \in Sections \ config.bad : s \in act'[a].todo \/ ProcNames(s) \subseteq act'[a].loaded
  BY <1>2 DEF Loads, AllProgs
<1>5. act'[a].pc \in {"create", "creating", "auto", "remove"} => AllProgs \subseteq act'[a].loaded
  BY <1>2 DEF Loads
<1> QED BY <1>1, <1>3, <1>4, <1>5 DEF Loads

\* An actor that has just begun, or has ended, has loaded nothing.
LEMMA LoadsNothing ==
  ASSUME NEW a \in Actors, act'[a].prev = {}, act'[a].loaded = {}, act'[a].pc \in {"off", "idle", "names"}
  PROVE  Loads(a)'
  BY DEF Loads

\* Every step keeps KeptInv.
LEMMA KeptStep ==
  ASSUME TypeInv, KeptInv, [Next]_vars
  PROVE  KeptInv'
<1>0. config' = config /\ entries \subseteq entries'
  BY TablesType, EntriesGrow
<1>e. (entries \subseteq AllProgs)'
  <2>1. AllProgs' = AllProgs
    BY <1>0 DEF AllProgs, ProcNames
  <2> QED BY <2>1, EntriesGrow
<1>o. ASSUME NEW b \in Actors, act'[b] = act[b] PROVE Loads(b)'
  BY <1>0, <1>o, LoadsKept
<1>m. ASSUME NEW a \in Actors, Moves(a), Loads(a)' PROVE \A b \in Actors : Loads(b)'
  BY <1>m, <1>o DEF Moves
<1>1. ASSUME NEW a \in Actors, Reload(a) PROVE \A b \in Actors : Loads(b)'
  <2>1. Loads(a)'
    BY <1>1, ReloadEffect, LoadsNothing
  <2>2. ASSUME NEW b \in Actors \ {a} PROVE Loads(b)'
    <3>1. /\ act'[b].pc = act[b].pc /\ act'[b].todo = act[b].todo /\ act'[b].prev = act[b].prev
          /\ act'[b].loaded = act[b].loaded
      BY <1>1, ReloadEffect
    <3> QED BY <1>0, <3>1, LoadsKept
  <2> QED BY <2>1, <2>2
<1>2. ASSUME NEW a \in Actors, SortBegin(a) \/ SortVisit(a) \/ SortPass(a) PROVE \A b \in Actors : Loads(b)'
  <2>1. Moves(a) /\ KeepsPrev(a) /\ KeepsLoad(a) /\ act'[a].pc = "auto"
    BY <1>2, SortBeginEffect, SortVisitEffect, SortPassEffect
  <2>2. act[a].pc = "auto"
    BY <1>2 DEF SortBegin, SortVisit, SortPass
  <2>3. Loads(a)'
    BY <1>0, <2>1, <2>2, LoadsKept DEF KeepsPrev, KeepsLoad
  <2> QED BY <1>m, <2>1, <2>3
<1>3. ASSUME NEW a \in Actors, Previous(a) PROVE \A b \in Actors : Loads(b)'
  <2>1. Moves(a) /\ KeepsLoad(a) /\ act'[a].pc = "groups" /\ act'[a].prev = entries
    BY <1>3, PreviousEffect
  <2>2. Loads(a)'
    BY <1>0, <2>1, LoadsKept DEF KeepsLoad
  <2> QED BY <1>m, <2>1, <2>2
<1>4. ASSUME NEW a \in Actors, ParseGroups(a) PROVE \A b \in Actors : Loads(b)'
  <2>1. Moves(a) /\ KeepsPrev(a) /\ KeepsLoad(a) /\ act'[a].pc = "load" /\ act'[a].todo = Sections
    BY <1>4, ParseGroupsEffect
  <2>2. Loads(a)'
    BY <1>0, <2>1, LoadsKept DEF KeepsPrev, KeepsLoad
  <2> QED BY <1>m, <2>1, <2>2
<1>5. ASSUME NEW a \in Actors, ParseProgram(a) PROVE \A b \in Actors : Loads(b)'
  <2>1. PICK s \in act[a].todo :
           /\ s \in Sections /\ Moves(a) /\ act'[a].prev = act[a].prev
           /\ act[a].pc = "load" /\ act'[a].pc = "load" /\ act'[a].todo = act[a].todo \ {s}
           /\ act'[a].loaded = IF s \in config.bad THEN act[a].loaded
                               ELSE act[a].loaded \cup ProcNames(s)
           /\ entries' = IF s \in config.bad THEN entries ELSE entries \cup ProcNames(s)
    BY <1>5, ParseProgramEffect DEF KeepsPrev
  <2>2. Loads(a) /\ entries \subseteq AllProgs
    BY DEF KeptInv
  <2>3. AllProgs' = AllProgs /\ \A t \in Sections : ProcNames(t)' = ProcNames(t)
    BY <1>0 DEF AllProgs, ProcNames
  <2>4. act'[a].loaded \subseteq entries' /\ act'[a].prev \subseteq AllProgs
    BY <2>1, <2>2 DEF Loads
  <2>5. \A t \in Sections \ config.bad : t \in act'[a].todo \/ ProcNames(t) \subseteq act'[a].loaded
    BY <2>1, <2>2 DEF Loads
  <2>6. Loads(a)'
    BY <1>0, <2>1, <2>3, <2>4, <2>5 DEF Loads
  <2> QED BY <1>m, <2>1, <2>6
<1>6. ASSUME NEW a \in Actors, Loaded(a) PROVE \A b \in Actors : Loads(b)'
  <2>1. Moves(a) /\ KeepsPrev(a) /\ KeepsLoad(a) /\ act'[a].pc = "create"
    BY <1>6, GoOnEffect DEF Loaded
  <2>2. Loads(a) /\ act[a].pc = "load" /\ act[a].todo = {}
    BY <1>6 DEF KeptInv, Loaded
  <2>3. AllProgs \subseteq act[a].loaded
    BY <2>2 DEF Loads, AllProgs
  <2>4. AllProgs' = AllProgs
    BY <1>0 DEF AllProgs, ProcNames
  <2>5. Loads(a)'
    BY <1>0, <2>1, <2>2, <2>3, <2>4 DEF Loads, KeepsPrev, KeepsLoad
  <2> QED BY <1>m, <2>1, <2>5
<1>7. ASSUME NEW a \in Actors, CreatePrograms(a) \/ CreateProcess(a) \/ StartAutoStartPrograms(a)
      PROVE  \A b \in Actors : Loads(b)'
  <2>1. Moves(a) /\ KeepsPrev(a) /\ KeepsLoad(a)
    BY <1>7, CreateProgramsEffect, CreateProcessEffect, GoOnEffect DEF StartAutoStartPrograms
  <2>2. act[a].pc \in {"create", "creating", "auto", "remove"}
    BY <1>7 DEF CreatePrograms, CreateProcess, StartAutoStartPrograms, Sorted
  <2>3. Loads(a)'
    BY <1>0, <2>1, <2>2, LoadsKept DEF KeepsPrev, KeepsLoad
  <2> QED BY <1>m, <2>1, <2>3
<1>8. ASSUME NEW a \in Actors, Created(a) PROVE \A b \in Actors : Loads(b)'
  <2>1. /\ KeepsPrev(a) /\ KeepsLoad(a) /\ act[a].pc = "creating"
        /\ \A b \in Actors \ {a} : act'[b] = IF a = main THEN Fresh ELSE act[b]
    BY <1>8, CreatedEffect
  <2>2. Loads(a)'
    BY <1>0, <2>1, LoadsKept DEF KeepsPrev, KeepsLoad
  <2>3. ASSUME NEW b \in Actors \ {a}, act'[b] = Fresh PROVE Loads(b)'
    <3>1. Fresh.pc = "idle"
      BY FreshType
    <3> QED BY <2>3, <3>1, FreshEmpty, LoadsNothing
  <2> QED BY <1>o, <2>1, <2>2, <2>3
<1>9. ASSUME NEW a \in Actors, RemovePrograms(a) PROVE \A b \in Actors : Loads(b)'
  <2>1. Moves(a) /\ act'[a].prev = {} /\ act'[a].loaded = {} /\ act'[a].pc \in {"off", "idle"}
    BY <1>9, RemoveProgramsEffect
  <2>2. Loads(a)'
    BY <2>1, LoadsNothing
  <2> QED BY <1>m, <2>1, <2>2
<1>10. CASE MapFault \/ UNCHANGED vars
  <2>1. act' = act
    BY <1>10 DEF MapFault, vars
  <2> QED BY <1>e, <1>o, <2>1 DEF KeptInv
<1>11. ASSUME NEW a \in Actors, Reload(a) \/ Step(a) PROVE \A b \in Actors : Loads(b)'
  BY <1>11, <1>1, <1>2, <1>3, <1>4, <1>5, <1>6, <1>7, <1>8, <1>9 DEF Step
<1> QED BY <1>e, <1>10, <1>11 DEF Next, KeptInv

\* KeptInv holds at the start.
LEMMA KeptInit == Init => KeptInv
<1> SUFFICES ASSUME Init PROVE KeptInv
  OBVIOUS
<1>1. ASSUME NEW a \in Actors PROVE Loads(a)
  <2>1. act[a].prev = {} /\ act[a].loaded = {}
    BY FreshEmpty DEF Init
  <2>2. act[a].pc \in {"idle", "off"}
    BY FreshType DEF Init
  <2> QED BY <2>1, <2>2 DEF Loads
<1> QED BY <1>1 DEF KeptInv, Init

\* No step takes a program out of the process table.
LEMMA NoneRemoved ==
  ASSUME TypeInv, KeptInv, [Next]_vars
  PROVE  procs \subseteq procs'
<1>1. ASSUME NEW a \in Actors, Created(a) PROVE procs' = procs
  <2>1. act[a].prev \subseteq entries
    BY <1>1 DEF Created, KeptInv, Loads
  <2> QED BY <1>1, <2>1 DEF Created
<1>2. ASSUME NEW a \in Actors, RemovePrograms(a) PROVE procs' = procs
  <2>1. act[a].prev \subseteq act[a].loaded
    BY <1>2, SMTT(40) DEF RemovePrograms, KeptInv, Loads
  <2> QED BY <1>2, <2>1 DEF RemovePrograms
<1>3. ASSUME NEW a \in Actors, Reload(a) \/ Step(a) PROVE procs \subseteq procs'
  BY <1>1, <1>2, <1>3
  DEF Step, Reload, SortBegin, SortVisit, SortPass, Previous, ParseGroups, ParseProgram, Loaded,
      CreatePrograms, CreateProcess, StartAutoStartPrograms
<1>4. CASE MapFault \/ UNCHANGED vars
  BY <1>4 DEF MapFault, vars
<1> QED BY <1>3, <1>4 DEF Next

\* No program leaves the process table, however the loads of one text overlap (Reload,
\* createPrograms, RemoveProgram).
THEOREM ProgramsKeptAlways == Spec => ProgramsKept
<1>1. TypeInv /\ KeptInv /\ [Next]_vars => [procs \subseteq procs']_vars
  BY NoneRemoved
<1>2. TypeInv /\ KeptInv /\ [Next]_vars => TypeInv' /\ KeptInv'
  BY TypeStep, KeptStep
<1> QED BY <1>1, <1>2, TypeInit, KeptInit, PTL DEF Spec, ProgramsKept

\* A load replaces no group by another: what parseProgram adds is what the text says.
LEMMA GetGroupAdds ==
  ASSUME TypeInv, groups \subseteq TextGroups, NEW s \in Sections,
         config.group[s] # nil => GroupOf(s) \in groups
  PROVE  /\ groups \subseteq GetGroup(s) /\ GetGroup(s) \subseteq TextGroups
         /\ GroupOf(s) \in GetGroup(s)
<1>1. \A g \in groups : g[1] = s => g = GroupOf(s)
  BY DEF TextGroups, GroupOf
<1>2. GroupOf(s)[1] = s
  BY DEF GroupOf
<1>3. CASE \E g \in groups : g[1] = s
  BY <1>1, <1>3 DEF GetGroup
<1>4. CASE ~ \E g \in groups : g[1] = s
  <2>1. GroupOf(s) = <<s, s>>
    BY <1>2, <1>4 DEF GroupOf
  <2>2. GetGroup(s) = groups \cup {<<s, s>>}
    BY <1>4 DEF GetGroup
  <2> QED BY <2>1, <2>2 DEF TextGroups
<1> QED BY <1>3, <1>4

\* When nobody loads, and main has, every section has its group.
LEMMA GroupsComplete ==
  ASSUME GroupsInv, ~Unfilled, \A b \in Actors : act[b].pc # "load"
  PROVE  groups = TextGroups
  BY DEF GroupsInv

\* A step of actor a keeps AloneOK when no other begins, and a remembers the groups before its load.
LEMMA AloneKept ==
  ASSUME TypeInv, GroupsInv, config' = config, NEW a \in Actors,
         \A b \in Actors \ {a} : act'[b] = act[b] \/ act'[b].pc \in {"off", "idle"},
         act[a].pc \notin {"off", "idle"},
         \/ act'[a].pc \in {"off", "idle"}
         \/ /\ act'[a].alone = act[a].alone
            /\ act'[a].prevGroups = IF act[a].pc = "names" THEN groups ELSE act[a].prevGroups
  PROVE  \A b \in Actors : AloneOK(b)'
<1>0. SUFFICES ASSUME NEW b \in Actors, act'[b].alone, act'[b].pc \notin {"off", "idle"}
               PROVE  /\ \A c \in Actors \ {b} : act'[c].pc \in {"off", "idle"}
                      /\ act'[b].prevGroups = IF b = main THEN {} ELSE TextGroups
  <2>1. TextGroups' = TextGroups
    BY DEF TextGroups, GroupOf
  <2> QED BY <2>1 DEF AloneOK
<1>1. act[b].alone /\ act[b].pc \notin {"off", "idle"}
  BY <1>0
<1>2. AloneOK(b)
  BY DEF GroupsInv
<1>3. b = a
  BY <1>0, <1>1, <1>2 DEF AloneOK
<1>4. \A c \in Actors \ {b} : act[c].pc \in {"off", "idle"} /\ act'[c].pc \in {"off", "idle"}
  BY <1>1, <1>2, <1>3 DEF AloneOK
<1>5. CASE act[a].pc # "names"
  BY <1>0, <1>1, <1>2, <1>3, <1>4, <1>5 DEF AloneOK
<1>6. CASE act[a].pc = "names"
  <2>1. CASE a = main
    <3>1. groups = {}
      BY <1>6, <2>1 DEF GroupsInv, Unfilled
    <3> QED BY <1>0, <1>3, <1>4, <1>6, <2>1, <3>1
  <2>2. CASE a # main
    <3>1. ~Unfilled
      BY <1>6, <2>2 DEF GroupsInv, Actors
    <3>2. \A c \in Actors : act[c].pc # "load"
      BY <1>3, <1>4, <1>6
    <3>3. groups = TextGroups
      BY <3>1, <3>2, GroupsComplete
    <3> QED BY <1>0, <1>3, <1>4, <1>6, <2>2, <3>3
  <2> QED BY <2>1, <2>2
<1> QED BY <1>5, <1>6

\* A step of actor a keeps GroupsInv when the groups stay and no load begins or goes on.
LEMMA GroupsKept ==
  ASSUME TypeInv, GroupsInv, config' = config, groups' = groups, NEW a \in Actors, Moves(a),
         act[a].pc \notin {"off", "idle", "groups"},
         \/ act'[a].pc \in {"off", "idle"}
         \/ /\ act'[a].alone = act[a].alone
            /\ act'[a].prevGroups = IF act[a].pc = "names" THEN groups ELSE act[a].prevGroups,
         act[a].pc = "names" <=> act'[a].pc = "groups", act'[a].pc \notin {"names", "load"},
         act[a].pc = "load" => act'[a].pc = "create" /\ act[a].todo = {},
         a = main => /\ act'[a].pc # "idle"
                     /\ act'[a].pc \in {"create", "creating"} =>
                          act[a].pc \in {"load", "create", "creating"}
  PROVE  GroupsInv'
<1> USE DEF Moves
<1>1. /\ groups \subseteq TextGroups /\ (Unfilled => groups = {})
      /\ Unfilled \/ act[main].pc \in {"load", "create", "creating"} =>
           \A b \in Clients : act[b].pc = "off"
      /\ ~Unfilled => \A s \in Sections : config.group[s] # nil => GroupOf(s) \in groups
  BY DEF GroupsInv
<1>2. TextGroups' = TextGroups /\ \A s \in Sections : GroupOf(s)' = GroupOf(s)
  BY DEF TextGroups, GroupOf
<1>m. main \in Actors /\ \A b \in Clients : b \in Actors /\ b # main
  BY ProgramOrderAssumption DEF Actors
<1>3. Unfilled' <=> Unfilled
  BY <1>m DEF Unfilled
<1>4. act'[main].pc \in {"idle", "names", "groups", "load", "create", "creating"} =>
        \A b \in Clients : act'[b].pc = "off"
  BY <1>1, <1>m DEF Unfilled, Actors
<1>5. ASSUME ~Unfilled
      PROVE  \/ TextGroups \subseteq groups
             \/ \E b \in Actors : /\ act'[b].pc = "load"
                                  /\ \A s \in Sections : GroupOf(s) \in groups \/ s \in act'[b].todo
  <2>1. CASE TextGroups \subseteq groups
    BY <2>1
  <2>2. CASE \E b \in Actors : /\ act[b].pc = "load"
                               /\ \A s \in Sections : GroupOf(s) \in groups \/ s \in act[b].todo
    <3>1. PICK b \in Actors : /\ act[b].pc = "load"
                              /\ \A s \in Sections : GroupOf(s) \in groups \/ s \in act[b].todo
      BY <2>2
    <3>2. CASE b # a
      BY <3>1, <3>2
    <3>3. CASE b = a
      BY <3>1, <3>3 DEF TextGroups
    <3> QED BY <3>2, <3>3
  <2> QED BY <1>5, <2>1, <2>2 DEF GroupsInv
<1>6. \A b \in Actors : AloneOK(b)'
  BY AloneKept
<1>7. Unfilled' \/ act'[main].pc \in {"load", "create", "creating"} =>
           \A b \in Clients : act'[b].pc = "off"
  BY <1>4 DEF Unfilled
<1>8. (groups \subseteq TextGroups)' /\ (Unfilled => groups = {})'
  BY <1>1, <1>2, <1>3
<1>9. ASSUME ~Unfilled'
      PROVE  /\ \A s \in Sections : config'.group[s] # nil => GroupOf(s)' \in groups'
             /\ \/ TextGroups' \subseteq groups'
                \/ \E b \in Actors : /\ act'[b].pc = "load"
                                     /\ \A s \in Sections : GroupOf(s)' \in groups' \/ s \in act'[b].todo
  BY <1>1, <1>2, <1>3, <1>5, <1>9
<1> HIDE DEF Moves
<1> QED BY <1>6, <1>7, <1>8, <1>9 DEF GroupsInv

\* Every step keeps GroupsInv.
LEMMA GroupsStep ==
  ASSUME TypeInv, KeptInv, GroupsInv, [Next]_vars
  PROVE  GroupsInv'
<1>0. config' = config
  BY TablesType
<1>t. TextGroups' = TextGroups /\ \A s \in Sections : GroupOf(s)' = GroupOf(s)
  BY <1>0 DEF TextGroups, GroupOf
<1>m. main \in Actors /\ \A b \in Clients : b \in Actors /\ b # main
  BY ProgramOrderAssumption DEF Actors
<1>i. /\ groups \subseteq TextGroups /\ (Unfilled => groups = {})
      /\ Unfilled \/ act[main].pc \in {"load", "create", "creating"} =>
           \A b \in Clients : act[b].pc = "off"
      /\ ~Unfilled => \A s \in Sections : config.group[s] # nil => GroupOf(s) \in groups
      /\ \A b \in Actors : AloneOK(b)
  BY DEF GroupsInv
<1>d. ~Unfilled =>
        \/ TextGroups \subseteq groups
        \/ \E b \in Actors : /\ act[b].pc = "load"
                             /\ \A s \in Sections : GroupOf(s) \in groups \/ s \in act[b].todo
  BY DEF GroupsInv
<1>c. ASSUME NEW a \in Actors, a # main, act[a].pc # "off"
      PROVE  ~Unfilled /\ act[main].pc \notin {"load", "create", "creating"}
  BY <1>c, <1>i DEF Actors
<1>1. ASSUME NEW a \in Actors, Reload(a) PROVE GroupsInv'
  <2>1. /\ act[a].pc = "idle" /\ act'[a].pc = "names"
        /\ act'[a].alone = ~ \E b \in Actors : act[b].pc \notin {"off", "idle"}
        /\ \A b \in Actors \ {a} :
             /\ act'[b].pc = act[b].pc /\ act'[b].todo = act[b].todo
             /\ act'[b].alone = (act[b].alone /\ act[b].pc \in {"off", "idle"})
    BY <1>1, ReloadEffect
  <2>2. groups' = groups
    BY <1>1 DEF Reload
  <2>3. Unfilled' <=> Unfilled
    BY <1>m, <2>1 DEF Unfilled
  <2>4. Unfilled' \/ act'[main].pc \in {"load", "create", "creating"} =>
           \A b \in Clients : act'[b].pc = "off"
    BY <1>c, <1>i, <1>m, <2>1, <2>3
  <2>5. ASSUME NEW b \in Actors PROVE AloneOK(b)'
    BY <2>1 DEF AloneOK
  <2>6. ASSUME ~Unfilled
        PROVE  \/ TextGroups \subseteq groups
               \/ \E b \in Actors : /\ act'[b].pc = "load"
                                    /\ \A s \in Sections : GroupOf(s) \in groups \/ s \in act'[b].todo
    <3>1. CASE TextGroups \subseteq groups
      BY <3>1
    <3>2. CASE \E b \in Actors : /\ act[b].pc = "load"
                                 /\ \A s \in Sections : GroupOf(s) \in groups \/ s \in act[b].todo
      <4>1. PICK b \in Actors : /\ act[b].pc = "load"
                                /\ \A s \in Sections : GroupOf(s) \in groups \/ s \in act[b].todo
        BY <3>2
      <4>2. act'[b].pc = "load" /\ act'[b].todo = act[b].todo
        BY <2>1, <4>1
      <4> QED BY <4>1, <4>2
    <3> QED BY <1>d, <2>6, <3>1, <3>2
  <2> QED BY <1>0, <1>i, <1>t, <2>2, <2>3, <2>4, <2>5, <2>6 DEF GroupsInv
<1>2. ASSUME NEW a \in Actors, ParseGroups(a) PROVE GroupsInv'
  <2>1. /\ Moves(a) /\ KeepsPrev(a) /\ KeepsLoad(a) /\ act[a].pc = "groups"
        /\ act'[a].pc = "load" /\ act'[a].todo = Sections
    BY <1>2, ParseGroupsEffect
  <2>2. groups' = {<<s, config.group[s]>> : s \in {t \in Sections : config.group[t] # nil}}
    BY <1>2 DEF ParseGroups
  <2>3. /\ groups' \subseteq TextGroups
        /\ \A s \in Sections : config.group[s] # nil => GroupOf(s) \in groups'
    BY <2>2 DEF TextGroups, GroupOf
  <2>4. ~Unfilled'
    <3>1. CASE a = main
      BY <2>1, <3>1 DEF Unfilled
    <3>2. CASE a # main
      BY <1>c, <1>m, <2>1, <3>2 DEF Unfilled, Moves
    <3> QED BY <3>1, <3>2
  <2>5. act'[main].pc \in {"load", "create", "creating"} => \A b \in Clients : act'[b].pc = "off"
    <3>1. CASE a = main
      BY <1>i, <1>m, <2>1, <3>1 DEF Unfilled, Moves
    <3>2. CASE a # main
      BY <1>c, <1>m, <2>1, <3>2 DEF Moves
    <3> QED BY <3>1, <3>2
  <2>6. \A b \in Actors : AloneOK(b)'
    BY <1>0, <2>1, AloneKept DEF Moves, KeepsPrev, KeepsLoad
  <2> QED BY <1>0, <1>t, <2>1, <2>3, <2>4, <2>5, <2>6 DEF GroupsInv
<1>3. ASSUME NEW a \in Actors, ParseProgram(a) PROVE GroupsInv'
  <2>1. PICK s \in act[a].todo :
           /\ s \in Sections /\ Moves(a) /\ KeepsPrev(a) /\ act'[a].alone = act[a].alone
           /\ act[a].pc = "load" /\ act'[a].pc = "load" /\ act'[a].todo = act[a].todo \ {s}
           /\ groups' = GetGroup(s)
    BY <1>3, ParseProgramEffect
  <2>2. ~Unfilled
    <3>1. CASE a = main
      BY <2>1, <3>1 DEF Unfilled
    <3>2. CASE a # main
      BY <1>c, <2>1, <3>2
    <3> QED BY <3>1, <3>2
  <2>3. \A b \in Actors : act'[b].pc = act[b].pc
    BY <2>1 DEF Moves
  <2>4. groups \subseteq groups' /\ groups' \subseteq TextGroups /\ GroupOf(s) \in groups'
    BY <1>i, <2>1, <2>2, GetGroupAdds
  <2>5. \A b \in Actors : AloneOK(b)'
    BY <1>0, <2>1, AloneKept DEF Moves, KeepsPrev
  <2>6. \/ TextGroups \subseteq groups'
        \/ \E b \in Actors : /\ act'[b].pc = "load"
                             /\ \A t \in Sections : GroupOf(t) \in groups' \/ t \in act'[b].todo
    <3>1. CASE TextGroups \subseteq groups
      BY <2>4, <3>1
    <3>2. CASE \E b \in Actors : /\ act[b].pc = "load"
                                 /\ \A t \in Sections : GroupOf(t) \in groups \/ t \in act[b].todo
      <4>1. PICK b \in Actors : /\ act[b].pc = "load"
                                /\ \A t \in Sections : GroupOf(t) \in groups \/ t \in act[b].todo
        BY <3>2
      <4>2. CASE b = a
        BY <2>1, <2>4, <4>1, <4>2
      <4>3. CASE b # a
        BY <2>1, <2>4, <4>1, <4>3 DEF Moves
      <4> QED BY <4>2, <4>3
    <3> QED BY <1>d, <2>2, <3>1, <3>2
  <2>7. ~Unfilled' /\ (act'[main].pc \in {"load", "create", "creating"} =>
                          \A b \in Clients : act'[b].pc = "off")
    BY <1>i, <1>m, <2>2, <2>3 DEF Unfilled
  <2>8. \A t \in Sections : config.group[t] # nil => GroupOf(t) \in groups'
    BY <1>i, <2>2, <2>4
  <2> QED BY <1>0, <1>t, <2>4, <2>5, <2>6, <2>7, <2>8 DEF GroupsInv
<1>4. ASSUME NEW a \in Actors, Created(a) PROVE GroupsInv'
  <2>1. /\ act' \in [Actors -> ActorType] /\ KeepsPrev(a) /\ KeepsLoad(a)
        /\ act[a].pc = "creating" /\ act'[a].pc = "auto"
        /\ \A b \in Actors \ {a} : act'[b] = IF a = main THEN Fresh ELSE act[b]
    BY <1>4, CreatedEffect
  <2>2. groups' = groups
    BY <1>4 DEF Created
  <2>3. CASE a # main
    BY <1>0, <1>c, <2>1, <2>2, <2>3, GroupsKept DEF Moves, KeepsPrev, KeepsLoad
  <2>4. CASE a = main
    <3>1. ~Unfilled /\ ~Unfilled'
      BY <2>1, <2>4 DEF Unfilled
    <3>2. \A b \in Clients : act[b].pc = "off"
      BY <1>i, <2>1, <2>4
    <3>3. \A b \in Actors : act[b].pc # "load"
      BY <2>1, <2>4, <3>2 DEF Actors
    <3>4. groups = TextGroups
      BY <3>1, <3>3, GroupsComplete
    <3>5. Fresh.pc = "idle"
      BY FreshType
    <3>6. \A b \in Actors : AloneOK(b)'
      BY <1>0, <2>1, <2>4, <3>5, AloneKept DEF KeepsPrev, KeepsLoad
    <3> QED BY <1>0, <1>i, <1>t, <2>1, <2>2, <2>4, <3>1, <3>4, <3>6 DEF GroupsInv
  <2> QED BY <2>3, <2>4
<1>5. ASSUME NEW a \in Actors, Previous(a) PROVE GroupsInv'
  <2>1. /\ Moves(a) /\ KeepsLoad(a) /\ act[a].pc = "names" /\ act'[a].pc = "groups"
        /\ act'[a].prevGroups = groups
    BY <1>5, PreviousEffect
  <2>2. groups' = groups
    BY <1>5 DEF Previous
  <2> QED BY <1>0, <2>1, <2>2, GroupsKept DEF KeepsLoad
<1>6. ASSUME NEW a \in Actors, \/ SortBegin(a) \/ SortVisit(a) \/ SortPass(a) \/ Loaded(a)
                               \/ CreatePrograms(a) \/ CreateProcess(a) \/ StartAutoStartPrograms(a)
      PROVE  GroupsInv'
  <2>1. Moves(a) /\ KeepsPrev(a) /\ KeepsLoad(a)
    BY <1>6, SortBeginEffect, SortVisitEffect, SortPassEffect, GoOnEffect, CreateProgramsEffect,
       CreateProcessEffect, ZenonT(40) DEF Loaded, StartAutoStartPrograms
  <2>2. \/ act[a].pc = "auto" /\ act'[a].pc \in {"auto", "remove"}
        \/ act[a].pc = "load" /\ act'[a].pc = "create" /\ act[a].todo = {}
        \/ act[a].pc \in {"create", "creating"} /\ act'[a].pc = "creating"
    BY <1>6, SortBeginEffect, SortVisitEffect, SortPassEffect, GoOnEffect, CreateProgramsEffect,
       CreateProcessEffect
    DEF SortBegin, SortVisit, SortPass, Loaded, StartAutoStartPrograms, Sorted
  <2>3. groups' = groups
    BY <1>6 DEF SortBegin, SortVisit, SortPass, Loaded, CreatePrograms, CreateProcess,
                StartAutoStartPrograms
  <2> QED BY <1>0, <2>1, <2>2, <2>3, GroupsKept DEF KeepsPrev, KeepsLoad
<1>7. ASSUME NEW a \in Actors, RemovePrograms(a) PROVE GroupsInv'
  <2>1. /\ Moves(a) /\ act[a].pc = "remove" /\ act'[a].pc = IF a = main THEN "off" ELSE "idle"
    BY <1>7, RemoveProgramsEffect
  <2>2. groups' = groups
    BY <1>7 DEF RemovePrograms, KeptInv, Loads
  <2> QED BY <1>0, <2>1, <2>2, GroupsKept
<1>8. CASE MapFault \/ UNCHANGED vars
  <2>1. groups' = groups /\ act' = act
    BY <1>8 DEF MapFault, vars
  <2>2. \A b \in Actors : AloneOK(b)'
    BY <1>i, <1>t, <2>1 DEF AloneOK
  <2> QED BY <1>0, <1>d, <1>i, <1>t, <2>1, <2>2 DEF GroupsInv, Unfilled
<1>9. ASSUME NEW a \in Actors, Reload(a) \/ Step(a) PROVE GroupsInv'
  BY <1>9, <1>1, <1>2, <1>3, <1>4, <1>5, <1>6, <1>7 DEF Step
<1> QED BY <1>8, <1>9 DEF Next

\* GroupsInv holds at the start.
LEMMA GroupsInit == Init => GroupsInv
<1> SUFFICES ASSUME Init PROVE GroupsInv
  OBVIOUS
<1>1. \A a \in Actors : act[a].pc = IF a = main THEN "idle" ELSE "off"
  BY FreshType DEF Init
<1>2. groups = {} /\ main \in Actors /\ main \notin Clients
  BY ProgramOrderAssumption DEF Init, Actors
<1>3. Unfilled /\ \A b \in Clients : act[b].pc = "off"
  BY <1>1, <1>2 DEF Unfilled, Actors
<1>4. \A a \in Actors : AloneOK(a)
  BY <1>1 DEF AloneOK
<1> QED BY <1>2, <1>3, <1>4 DEF GroupsInv

\* What ReportExact says the Reload of actor a returns.
Exact(a) == [added |-> IF a # main THEN {}
                       ELSE {IF config.group[s] = nil THEN s ELSE config.group[s] : s \in Sections},
             changed |-> {}, removed |-> {}]

\* A Reload that ends alone reports exactly what it changed.
LEMMA ReportStep ==
  ASSUME TypeInv, KeptInv, GroupsInv, [Next]_vars, NEW a \in Actors,
         act[a].pc = "remove", act'[a].pc # "remove", act[a].alone
  PROVE  report' = Exact(a)
<1>1. RemovePrograms(a)
  <2>1. ASSUME NEW b \in Actors, b # a, Step(b) PROVE act'[a] = act[a]
    <3>1. CASE ~Created(b)
      <4>1. Moves(b)
        BY <2>1, <3>1, SortBeginEffect, SortVisitEffect, SortPassEffect, PreviousEffect,
           ParseGroupsEffect, ParseProgramEffect, GoOnEffect, CreateProgramsEffect,
           CreateProcessEffect, RemoveProgramsEffect
        DEF Step, Loaded, StartAutoStartPrograms
      <4> QED BY <2>1, <4>1 DEF Moves
    <3>2. CASE Created(b)
      <4>1. b # main
        BY <2>1, <3>2, CreatedEffect DEF GroupsInv, Actors
      <4> QED BY <2>1, <3>2, <4>1, CreatedEffect
    <3> QED BY <3>1, <3>2
  <2>2. ASSUME NEW b \in Actors, Reload(b) PROVE act'[a].pc = act[a].pc
    BY <2>2, ReloadEffect
  <2>3. ASSUME Step(a) PROVE RemovePrograms(a)
    BY <2>3 DEF Step, SortBegin, SortVisit, SortPass, Previous, ParseGroups, ParseProgram, Loaded,
                CreatePrograms, CreateProcess, Created, StartAutoStartPrograms, Sorted
  <2>4. ~(MapFault \/ UNCHANGED vars)
    BY DEF MapFault, vars
  <2> QED BY <2>1, <2>2, <2>3, <2>4 DEF Next
<1>2. AloneOK(a)
  BY DEF GroupsInv
<1>3. /\ \A b \in Actors \ {a} : act[b].pc \in {"off", "idle"}
      /\ act[a].prevGroups = IF a = main THEN {} ELSE TextGroups
  BY <1>2 DEF AloneOK
<1>4. \A b \in Actors : act[b].pc # "load"
  BY <1>3
<1>5. ~Unfilled
  <2>1. CASE a = main
    BY <2>1 DEF Unfilled
  <2>2. CASE a # main
    BY <2>2 DEF GroupsInv, Actors
  <2> QED BY <2>1, <2>2
<1>6. groups = TextGroups
  BY <1>4, <1>5, GroupsComplete
<1>7. groups' = groups
  BY <1>1 DEF RemovePrograms, KeptInv, Loads
<1>8. report' = Sub(TextGroups, act[a].prevGroups)
  BY <1>1, <1>6, <1>7 DEF RemovePrograms
<1>9. AllGroup(TextGroups) = {IF config.group[s] = nil THEN s ELSE config.group[s] : s \in Sections}
  <2> DEFINE name(s) == IF config.group[s] = nil THEN s ELSE config.group[s]
  <2>1. \A s \in Sections : GroupOf(s)[2] = name(s)
    BY DEF GroupOf
  <2> HIDE DEF name
  <2>2. AllGroup(TextGroups) = {name(s) : s \in Sections}
    BY <2>1 DEF AllGroup, TextGroups
  <2> QED BY <2>2 DEF name
<1>10. CASE a = main
  <2>1. AllGroup({}) = {}
    BY DEF AllGroup
  <2> QED BY <1>3, <1>8, <1>9, <1>10, <2>1 DEF Sub, Exact
<1>11. CASE a # main
  BY <1>3, <1>8, <1>11 DEF Sub, Exact
<1> QED BY <1>10, <1>11

\* A Reload that no other overlaps returns exactly what has changed, for every text: all the
\* groups at the first one, nothing later (Load, ProcessGroup.Sub).
THEOREM ReportExactAlways == Spec => ReportExact
<1>1. TypeInv /\ KeptInv /\ GroupsInv /\ [Next]_vars =>
        [\A a \in Actors : act[a].pc = "remove" /\ act'[a].pc # "remove" /\ act[a].alone =>
           report' = [added |-> IF a # main THEN {}
                                ELSE {IF config.group[s] = nil THEN s ELSE config.group[s] :
                                        s \in Sections},
                      changed |-> {}, removed |-> {}]]_vars
  BY ReportStep DEF Exact
<1>2. TypeInv /\ KeptInv /\ GroupsInv /\ [Next]_vars => TypeInv' /\ KeptInv' /\ GroupsInv'
  BY TypeStep, KeptStep, GroupsStep
<1> QED BY <1>1, <1>2, TypeInit, KeptInit, GroupsInit, PTL DEF Spec, ReportExact

=============================================================================

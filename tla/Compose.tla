------------------------------ MODULE Compose ------------------------------
(***************************************************************************)
(* The compose agent: gateway/serve/container.go. A directory holds the    *)
(* file of one application, and docker-compose (outside the code) runs     *)
(* what the file says. A file is the set of its sections.                  *)
(*                                                                         *)
(* Every request has a goroutine of its own and nothing keeps two requests *)
(* for one directory apart; an up leaves a cleanUp behind, and a truncate  *)
(* its removals. ComposeBaseDir is /data/compose, as in gateway.cfg.       *)
(***************************************************************************)
EXTENDS Naturals, FiniteSets

CONSTANTS
  Dirs,
  TempDirs,        \* those whose names begin with "compose-"
  Yamls,           \* what a request may send: sets of sections
  ComposeRequests, \* bound: the requests, each made once
  Absent, Nothing

ASSUME ComposeAssumption ==
  /\ TempDirs \subseteq Dirs /\ IsFiniteSet(TempDirs)
  /\ \A file \in SUBSET UNION Yamls : file \notin {Absent, Nothing}

VARIABLES
  dir,       \* dir[d]: Absent, Nothing (no file in it), or the file
  running,   \* running[d]: Nothing, or the file whose services run
  request,   \* request[r]: where it is, for which directory, with which file
  gone,      \* the requests whose client has gone before they were over
  cleanups,  \* cleanups[r]: where the cleanUp of an up is
  truncate   \* truncate[r]: results to wait for, downs that run, results in
             \* resultChan, directories still to be removed

composeVars == <<dir, running, request, gone, cleanups, truncate>>

NewRequest == [step |-> "new", dir |-> Absent, yaml |-> {}]
NoTruncate == [wait |-> 0, downs |-> {}, results |-> 0, removing |-> {}]

Steps == {"new", "mkdir", "olddown", "write", "update", "up", "remove", "truncate", "over"}

\* What a file may be.
Files == SUBSET UNION Yamls

ComposeTypeOK ==
  /\ dir \in [Dirs -> Files \cup {Absent, Nothing}]
  /\ running \in [Dirs -> Files \cup {Nothing}]
  /\ request \in [ComposeRequests -> [step : Steps, dir : Dirs \cup {Absent}, yaml : Files]]
  /\ gone \subseteq ComposeRequests
  /\ cleanups \in [ComposeRequests -> {"none", "started", "down", "remove", "over"}]
  /\ truncate \in [ComposeRequests -> [wait : Nat, downs : SUBSET TempDirs, results : Nat,
                                       removing : SUBSET TempDirs]]

\* filterInvalidComposeSection: the sections docker-compose knows.
ValidSections == {"version", "services", "networks", "volumes", "x-"}
Filtered(yaml) == yaml \cap ValidSections

\* A docker-compose command needs the file in the directory.
HasFile(d) == dir[d] \notin {Absent, Nothing}

\* The gateway finds the directories of its earlier runs, and their services running.
ComposeInit ==
  /\ dir \in [Dirs -> {Filtered(yaml) : yaml \in Yamls} \cup {Absent}]
  /\ running = [d \in Dirs |-> IF HasFile(d) THEN dir[d] ELSE Nothing]
  /\ request = [r \in ComposeRequests |-> NewRequest]
  /\ gone = {}
  /\ cleanups = [r \in ComposeRequests |-> "none"]
  /\ truncate = [r \in ComposeRequests |-> NoTruncate]

-----------------------------------------------------------------------------
Begins(r, step, d, yaml) ==
  /\ request[r].step = "new"
  /\ request' = [request EXCEPT ![r] = [step |-> step, dir |-> d, yaml |-> yaml]]

Goes(r, step) == request' = [request EXCEPT ![r].step = step]

\* docker-compose down in a directory, which may fail.
Downs(d) ==
  \/ running' = running
  \/ HasFile(d) /\ running' = [running EXCEPT ![d] = Nothing]

\* dockerComposeUp, without an id in a new directory, with one in the directory of that
\* name: a Stat tells whether it is to be made or the old application is to go down.
dockerComposeUp(r, d, yaml) ==
  /\ \/ /\ d \in TempDirs /\ dir[d] = Absent
        /\ dir' = [dir EXCEPT ![d] = Nothing]
        /\ Begins(r, "write", d, Filtered(yaml))
     \/ /\ d \notin TempDirs /\ dir' = dir
        /\ Begins(r, IF dir[d] = Absent THEN "mkdir" ELSE "olddown", d, Filtered(yaml))
  /\ UNCHANGED <<running, gone, cleanups, truncate>>

\* Mkdir, whose error is dropped when another request has made it meanwhile.
Mkdir(r) ==
  LET d == request[r].dir
  IN /\ request[r].step = "mkdir"
     /\ dir' = IF dir[d] = Absent THEN [dir EXCEPT ![d] = Nothing] ELSE dir
     /\ Goes(r, "write")
     /\ UNCHANGED <<running, gone, cleanups, truncate>>

OldDown(r) ==
  /\ request[r].step = "olddown"
  /\ Downs(request[r].dir)
  /\ Goes(r, "write")
  /\ UNCHANGED <<dir, gone, cleanups, truncate>>

\* WriteFile fails when the directory has gone, and may fail when it has not; then the
\* request is over. Otherwise its cleanUp is started.
WriteFile(r) ==
  LET d == request[r].dir
  IN /\ request[r].step = "write"
     /\ \/ /\ dir[d] # Absent
           /\ dir' = [dir EXCEPT ![d] = request[r].yaml]
           /\ Goes(r, "up")
           /\ cleanups' = [cleanups EXCEPT ![r] = "started"]
        \/ Goes(r, "over") /\ UNCHANGED <<dir, cleanups>>
     /\ UNCHANGED <<running, gone, truncate>>

\* dockerComposeUpdate: a new file if the request has one, then up.
dockerComposeUpdate(r, d, yaml) ==
  /\ Begins(r, "update", d, yaml)
  /\ UNCHANGED <<dir, running, gone, cleanups, truncate>>

\* Whether there is a file is looked at before it is filtered.
updateYaml(r) ==
  LET d == request[r].dir
  IN /\ request[r].step = "update"
     /\ \/ request[r].yaml = {} /\ dir' = dir /\ Goes(r, "up")
        \/ /\ request[r].yaml # {} /\ dir[d] # Absent
           /\ dir' = [dir EXCEPT ![d] = Filtered(request[r].yaml)] /\ Goes(r, "up")
        \/ request[r].yaml # {} /\ dir' = dir /\ Goes(r, "over")
     /\ UNCHANGED <<running, gone, cleanups, truncate>>

\* docker-compose up: it may fail, with the services started or not.
ComposeUp(r) ==
  LET d == request[r].dir
  IN /\ request[r].step = "up"
     /\ \/ running' = running
        \/ HasFile(d) /\ running' = [running EXCEPT ![d] = dir[d]]
     /\ Goes(r, "over")
     /\ UNCHANGED <<dir, gone, cleanups, truncate>>

\* handleComposeCommand: any other command on the directory.
handleComposeCommand(r, d) ==
  /\ HasFile(d)
  /\ Begins(r, "over", d, {})
  /\ \E services \in {running[d], Nothing, dir[d]} : running' = [running EXCEPT ![d] = services]
  /\ UNCHANGED <<dir, gone, cleanups, truncate>>

\* dockerComposeDown: when docker-compose fails the directory stays.
dockerComposeDown(r, d) ==
  /\ \/ /\ HasFile(d) /\ running' = [running EXCEPT ![d] = Nothing]
        /\ Begins(r, "remove", d, {})
     \/ running' = running /\ Begins(r, "over", d, {})
  /\ UNCHANGED <<dir, gone, cleanups, truncate>>

RemoveAll(r) ==
  /\ request[r].step = "remove"
  /\ dir' = [dir EXCEPT ![request[r].dir] = Absent]
  /\ Goes(r, "over")
  /\ UNCHANGED <<running, gone, cleanups, truncate>>

\* The client closes its connection: the request goes on, with its context done.
ClientGone(r) ==
  /\ request[r].step \notin {"new", "over"} /\ r \notin gone
  /\ gone' = gone \cup {r}
  /\ UNCHANGED <<dir, running, request, cleanups, truncate>>

-----------------------------------------------------------------------------
CleanupGoes(r, to) == cleanups' = [cleanups EXCEPT ![r] = to]

\* cleanUp once the context of its request is done. No response is ever found in a
\* request, so it counts as failed; cleanUp does nothing when the directory exists, and
\* goes on when it does not.
cleanUp(r) ==
  /\ cleanups[r] = "started" /\ (r \in gone \/ request[r].step = "over")
  /\ CleanupGoes(r, IF dir[request[r].dir] = Absent THEN "down" ELSE "over")
  /\ UNCHANGED <<dir, running, request, gone, truncate>>

CleanupDown(r) ==
  /\ cleanups[r] = "down"
  /\ CleanupGoes(r, "remove")
  /\ Downs(request[r].dir)
  /\ UNCHANGED <<dir, request, gone, truncate>>

CleanupRemove(r) ==
  /\ cleanups[r] = "remove"
  /\ CleanupGoes(r, "over")
  /\ dir' = [dir EXCEPT ![request[r].dir] = Absent]
  /\ UNCHANGED <<running, request, gone, truncate>>

-----------------------------------------------------------------------------
\* Mutant: what is not one of the gateway's own directories is counted too.
CountAll(files) == Cardinality(files)

\* The results a truncate waits for: one for each of the gateway's own directories.
dirCount(files) == Cardinality(files \cap TempDirs)

\* DockerComposeTruncate: a docker-compose down for each of the gateway's own
\* directories, all at once.
DockerComposeTruncate(r) ==
  LET files == {d \in Dirs : dir[d] # Absent}
  IN /\ Begins(r, "truncate", Absent, {})
     /\ truncate' = [truncate EXCEPT ![r] =
          [wait |-> dirCount(files), downs |-> files \cap TempDirs, results |-> 0, removing |-> {}]]
     /\ UNCHANGED <<dir, running, gone, cleanups>>

\* checkResult: the result is sent before the directory is removed.
checkResult(r, d) ==
  /\ d \in truncate[r].downs
  /\ \E done \in SUBSET {d} :
       /\ d \in done => HasFile(d)
       /\ running' = [e \in Dirs |-> IF e \in done THEN Nothing ELSE running[e]]
       /\ truncate' = [truncate EXCEPT ![r] = [wait |-> truncate[r].wait,
                                               downs |-> truncate[r].downs \ {d},
                                               results |-> truncate[r].results + 1,
                                               removing |-> truncate[r].removing \cup done]]
  /\ UNCHANGED <<dir, request, gone, cleanups>>

TruncateRemove(r, d) ==
  /\ d \in truncate[r].removing
  /\ truncate' = [truncate EXCEPT ![r].removing = @ \ {d}]
  /\ dir' = [dir EXCEPT ![d] = Absent]
  /\ UNCHANGED <<running, request, gone, cleanups>>

\* A result is taken from resultChan; the answer is written after the last one.
TruncateReceives(r) ==
  /\ request[r].step = "truncate" /\ truncate[r].wait > 0 /\ truncate[r].results > 0
  /\ truncate' = [truncate EXCEPT ![r].wait = @ - 1, ![r].results = @ - 1]
  /\ UNCHANGED <<dir, running, request, gone, cleanups>>

TruncateAnswers(r) ==
  /\ request[r].step = "truncate" /\ truncate[r].wait = 0
  /\ Goes(r, "over")
  /\ UNCHANGED <<dir, running, gone, cleanups, truncate>>

ComposeNext ==
  \E r \in ComposeRequests :
    \/ \E d \in Dirs :
         \/ \E y \in Yamls : dockerComposeUp(r, d, y) \/ dockerComposeUpdate(r, d, y)
         \/ handleComposeCommand(r, d) \/ dockerComposeDown(r, d)
         \/ checkResult(r, d) \/ TruncateRemove(r, d)
    \/ Mkdir(r) \/ OldDown(r) \/ WriteFile(r) \/ updateYaml(r) \/ ComposeUp(r) \/ RemoveAll(r)
    \/ ClientGone(r) \/ cleanUp(r) \/ CleanupDown(r) \/ CleanupRemove(r)
    \/ DockerComposeTruncate(r) \/ TruncateReceives(r) \/ TruncateAnswers(r)

ComposeSpec == ComposeInit /\ [][ComposeNext]_composeVars

-----------------------------------------------------------------------------
\* A truncate is owed exactly the results it waits for, whatever directories other
\* requests make and remove while its downs run: it is not left waiting for a result
\* nobody will send, and no result is left over (DockerComposeTruncate, checkResult).
TruncateServed ==
  \A r \in ComposeRequests :
    truncate[r].wait = Cardinality(truncate[r].downs) + truncate[r].results

=============================================================================

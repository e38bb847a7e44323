------------------------------- MODULE Venue -------------------------------
(* A venue in cloud mode: the endpoints that store packages and projects, and
   the host that loads, replaces and routes the configured version of every
   project (venue/endpoints/*, venue/bin/commands/venued-host.js,
   service/runner-router.js, config/json-file.js).

   A project is stored by its document and its workspace, and configured by its
   hash under projects in config.json.  The host polls that file: a write shows
   as one change event, later.  Every worker below awaits between its steps.
   Keys, signatures and hashes are abstracted to which definitions are genuine. *)
EXTENDS Naturals, FiniteSets

CONSTANTS
  Project, Version,    \* Version is a set of positive numbers: the hashes
  Domain,              \* the domain each unit names; two may name the same one
  System,              \* units whose first route is on the SYSTEM party, the venue's
  Genuine,             \* units made for this venue and signed, with the tars they
                       \* were uploaded with, by an owner whose key is stored
  Call,                \* calls of create-project
  Handler,             \* calls of handleConfigChange
  Run,                 \* the call of run
  MaxCrash             \* bound: crashes

Worker == Handler \cup {Run}
Unit == Project \X Version      \* a version of a project
NoVersion == 0
NoUnit == <<"none", NoVersion>>
DomainName == {Domain[u] : u \in Unit}

\* Who a project's runner is registered as: its own party, or the venue.
SystemParty == "SYSTEM"
Party == Project \cup {SystemParty}

ASSUME VenueAssumption ==
  /\ Version \subseteq Nat \ {0}
  /\ Genuine \subseteq Project \X Version
  /\ Run \notin Handler
  /\ NoUnit[1] \notin Project /\ SystemParty \notin Project

VARIABLES
  packages,      \* projects whose package is stored (venue_pkg)
  docs,          \* units with a document (venue_project)
  files,         \* units whose workspace is written
  config,        \* projects.<name> in config.json
  changed,       \* written since the last poll of the file
  call,          \* where each call of create-project is
  venue,         \* down, set up, starting, up, deaf: run threw, no change is
                 \* listened to
  handlingChange,
  worker,        \* [stage, todo, held, live, unit, old]; old: runningHash; held: the projects object it
                 \* read; live: that object is still the config's own
  active,        \* active_projects
  byName,        \* active_projects_by_name
  running,       \* units whose parties and runners are started
  domains,       \* runnersByDomain
  hosts,         \* runnersByHost
  crashes

stored == <<packages, docs, files>>
hosting == <<active, byName, running, domains, hosts>>
vars == <<stored, config, changed, call, venue, handlingChange, worker, hosting, crashes>>

TypeOK ==
  /\ packages \subseteq Project /\ docs \subseteq Unit /\ files \subseteq Unit
  /\ config \in [Project -> Version \cup {NoVersion}]
  /\ changed \in BOOLEAN /\ handlingChange \in BOOLEAN
  /\ call \in [Call -> [stage : {"idle", "found", "files", "config", "done"},
                        unit : Unit \cup {NoUnit}]]
  /\ venue \in {"down", "set up", "starting", "up", "deaf"}
  /\ \A w \in Worker :
       /\ worker[w].stage \in {"idle", "next", "link", "unload", "stopping", "load",
                               "starting", "routing", "failed"}
       /\ worker[w].todo \subseteq Project
       /\ worker[w].held \in [Project -> Version \cup {NoVersion}]
       /\ worker[w].unit \in Unit \cup {NoUnit}
       /\ worker[w].old \in Version \cup {NoVersion}
  /\ active \subseteq Unit /\ running \subseteq active
  /\ byName \in [Project -> Version \cup {NoVersion}]
  /\ domains \in [DomainName -> Unit \cup {NoUnit}]
  /\ hosts \in [Party -> Unit \cup {NoUnit}]

Nothing == [p \in Project |-> NoVersion]
Idle == [stage |-> "idle", todo |-> {}, held |-> Nothing, live |-> FALSE,
         unit |-> NoUnit, old |-> NoVersion]

Init ==
  /\ packages = {} /\ docs = {} /\ files = {}
  /\ config = Nothing /\ changed = FALSE
  /\ call = [c \in Call |-> [stage |-> "idle", unit |-> NoUnit]]
  /\ venue = "down" /\ handlingChange = FALSE
  /\ worker = [w \in Worker |-> Idle]
  /\ active = {} /\ byName = Nothing /\ running = {}
  /\ domains = [d \in DomainName |-> NoUnit]
  /\ hosts = [i \in Party |-> NoUnit]
  /\ crashes = 0

Serving == venue \notin {"down", "set up"}

-----------------------------------------------------------------------------
(* The endpoints *)

\* What the schemas of the endpoints let through: any package, any definition
\* of a project.
PackageUpload == Project
Upload == Unit

\* A package is signed by an owner whose key is stored.
AcceptedPackage(p) == \E v \in Version : <<p, v>> \in Genuine

\* A definition is for this venue, signed by an owner whose key is stored, and
\* comes with the tar it lists.
Accepted(u) == u \in Genuine

\* create-package: the document is found or created, then the files are written;
\* one step, as nothing but the document is read again.
CreatePackage(p) ==
  /\ Serving /\ p \notin packages /\ AcceptedPackage(p)
  /\ packages' = packages \cup {p}
  /\ UNCHANGED <<docs, files, config, changed, call, venue, handlingChange, worker, hosting, crashes>>

CallAt(c, stage) == Serving /\ call[c].stage = stage
CallGoes(c, stage) == call' = [call EXCEPT ![c].stage = stage]

\* create-project: the packages of its routes must be stored, and the document
\* is looked for.
CreateProject(c, u) ==
  /\ CallAt(c, "idle")
  /\ Accepted(u) /\ u[1] \in packages
  /\ call' = [call EXCEPT ![c] = [stage |-> IF u \in docs THEN "files" ELSE "found", unit |-> u]]
  /\ UNCHANGED <<stored, config, changed, venue, handlingChange, worker, hosting, crashes>>

\* A check fails, and nothing was stored.
RefuseProject(c, u) ==
  /\ CallAt(c, "idle")
  /\ ~(Accepted(u) /\ u[1] \in packages)
  /\ CallGoes(c, "done")
  /\ UNCHANGED <<stored, config, changed, venue, handlingChange, worker, hosting, crashes>>

\* It was not there.  An overlapping call may have created one too: a second
\* document changes nothing, the first is used.
CreateDocument(c) ==
  /\ CallAt(c, "found")
  /\ docs' = docs \cup {call[c].unit}
  /\ CallGoes(c, "files")
  /\ UNCHANGED <<packages, files, config, changed, venue, handlingChange, worker, hosting, crashes>>

\* The tars are extracted and the definition is written to the workspace.
MWriteFiles(c) ==       \* mutant: the project is configured before its files are there
  /\ CallAt(c, "files")
  /\ config' = [config EXCEPT ![call[c].unit[1]] = call[c].unit[2]]
  /\ CallGoes(c, "config")
  /\ UNCHANGED <<stored, changed, venue, handlingChange, worker, hosting, crashes>>
WriteFiles(c) ==
  /\ CallAt(c, "files")
  /\ files' = files \cup {call[c].unit}
  /\ CallGoes(c, "config")
  /\ UNCHANGED <<packages, docs, config, changed, venue, handlingChange, worker, hosting, crashes>>

\* config.write changes the object in memory and saves it.  A worker that holds
\* that very object sees the new value.
WriteConfig(c) ==
  /\ CallAt(c, "config")
  /\ LET p == call[c].unit[1]  v == call[c].unit[2] IN
       /\ config' = [config EXCEPT ![p] = v]
       /\ worker' = [w \in Worker |-> IF worker[w].live
                       THEN [worker[w] EXCEPT !.held[p] = v] ELSE worker[w]]
  /\ changed' = TRUE
  /\ CallGoes(c, "done")
  /\ UNCHANGED <<stored, venue, handlingChange, hosting, crashes>>

\* A tar cannot be extracted, a file not written: what was stored stays.
CreateFails(c) ==
  /\ Serving /\ call[c].stage \in {"found", "files"}
  /\ CallGoes(c, "done")
  /\ UNCHANGED <<stored, config, changed, venue, handlingChange, worker, hosting, crashes>>

-----------------------------------------------------------------------------
(* RunnerRouter *)

\* onRequest: who answers a request; the venue itself if nobody has the domain.
getRunnerByDomain(d) == domains[d]

\* Who answers what is sent to a party.
getRunnerByHostIdentity(i) == hosts[i]

\* Whose runner it is: that of the first route.
PartyOf(u) == IF u \in System THEN SystemParty ELSE u[1]

\* A party or a domain that is taken stays with whom it has.
addRunner(u) ==
  /\ hosts' = [hosts EXCEPT ![PartyOf(u)] = IF @ = NoUnit THEN u ELSE @]
  /\ domains' = [domains EXCEPT ![Domain[u]] = IF @ = NoUnit THEN u ELSE @]

\* The entry goes, whoever it leads to.
removeRunnerByDomain(d) == domains' = [domains EXCEPT ![d] = NoUnit]
removeRunnerByHostIdentity(i) == hosts' = [hosts EXCEPT ![i] = NoUnit]

-----------------------------------------------------------------------------
(* The host: run and handleConfigChange *)

Configured == {p \in Project : config[p] # NoVersion}
Reads(w) == worker' = [worker EXCEPT ![w] =
  [Idle EXCEPT !.stage = "next", !.todo = Configured, !.held = config, !.live = TRUE]]

\* The configuration is read, the party, the service, the runner, the router and
\* the server are made, the first time with a key for i2p.
Setup ==
  /\ venue = "down"
  /\ venue' = "set up"
  /\ UNCHANGED <<stored, config, changed, call, handlingChange, worker, hosting, crashes>>

\* The party, the runner and the server are started; the projects follow.
RunStarts ==
  /\ venue = "set up"
  /\ venue' = "starting"
  /\ Reads(Run)
  /\ UNCHANGED <<stored, config, changed, call, handlingChange, hosting, crashes>>

\* The file is loaded again, which replaces the content; unless the host
\* listens and no change is being handled, that is all.
Reload == worker' = [w \in Worker |-> [worker[w] EXCEPT !.live = FALSE]]

IgnoreChange ==
  /\ Serving /\ changed
  /\ venue # "up" \/ handlingChange
  /\ changed' = FALSE
  /\ Reload
  /\ UNCHANGED <<stored, config, call, venue, handlingChange, hosting, crashes>>

MHandleConfigChange(h) ==   \* mutant: no handlingChange
  /\ venue = "up" /\ changed /\ worker[h].stage = "idle"
  /\ changed' = FALSE /\ handlingChange' = TRUE
  /\ Reads(h)
  /\ UNCHANGED <<stored, config, call, venue, hosting, crashes>>
HandleConfigChange(h) ==
  /\ venue = "up" /\ changed /\ worker[h].stage = "idle"
  /\ ~handlingChange
  /\ changed' = FALSE /\ handlingChange' = TRUE
  /\ Reads(h)
  /\ UNCHANGED <<stored, config, call, venue, hosting, crashes>>

At(w, stage) == Serving /\ worker[w].stage = stage
Goes(w, stage) == worker' = [worker EXCEPT ![w].stage = stage]
NextProject(w) ==
  worker' = [worker EXCEPT ![w].stage = "next", ![w].todo = @ \ {worker[w].unit[1]}]

\* What is thrown ends the worker: a handler leaves handlingChange set, run
\* never listens to changes.
Throws(w) ==
  /\ Goes(w, "failed")
  /\ venue' = IF w = Run THEN "deaf" ELSE venue

\* One project after the other.  run loads each; a handler passes over those
\* that run the configured version, and throws at one that runs none.
Run1(p) ==
  /\ At(Run, "next") /\ p \in worker[Run].todo
  /\ worker' = [worker EXCEPT ![Run].stage = "load", ![Run].unit = <<p, worker[Run].held[p]>>]
  /\ UNCHANGED <<stored, config, changed, call, venue, handlingChange, hosting, crashes>>

Compare(h, p) ==
  /\ At(h, "next") /\ p \in worker[h].todo
  /\ LET v == worker[h].held[p] IN
       IF v = byName[p] THEN /\ worker' = [worker EXCEPT ![h].todo = @ \ {p}]
                             /\ UNCHANGED venue
       ELSE IF byName[p] = NoVersion THEN Throws(h)
       ELSE /\ worker' = [worker EXCEPT ![h].stage = "link", ![h].unit = <<p, v>>,
                                              ![h].old = byName[p]]
            /\ UNCHANGED venue
  /\ UNCHANGED <<stored, config, changed, call, handlingChange, hosting, crashes>>

\* The documents of both versions are found, linked and saved.
Link(h) ==
  /\ At(h, "link")
  /\ IF worker[h].unit \in docs THEN Goes(h, "unload") /\ UNCHANGED venue ELSE Throws(h)
  /\ UNCHANGED <<stored, config, changed, call, handlingChange, hosting, crashes>>

Old(h) == <<worker[h].unit[1], worker[h].old>>

\* unloadProject: its domain is no longer routed, whoever it led to.
MUnloadProject(h) ==   \* mutant: the domain is left to the next version
  /\ At(h, "unload")
  /\ Goes(h, IF Old(h) \in active THEN "stopping" ELSE "load")
  /\ running' = running \ {Old(h)}
  /\ UNCHANGED <<stored, config, changed, call, venue, handlingChange, active, byName, domains, hosts, crashes>>
UnloadProject(h) ==
  /\ At(h, "unload")
  /\ Goes(h, IF Old(h) \in active THEN "stopping" ELSE "load")
  /\ IF Old(h) \in active THEN removeRunnerByDomain(Domain[Old(h)]) ELSE UNCHANGED domains
  /\ running' = running \ {Old(h)}
  /\ UNCHANGED <<stored, config, changed, call, venue, handlingChange, active, byName, hosts, crashes>>

\* Its runners and parties are stopped, and it is forgotten.  Only its own
\* parties are no longer routed: what it registered as the venue stays.
Unloaded(h) ==
  /\ At(h, "stopping")
  /\ removeRunnerByHostIdentity(worker[h].unit[1])
  /\ active' = active \ {Old(h)}
  /\ byName' = [byName EXCEPT ![worker[h].unit[1]] = NoVersion]
  /\ Goes(h, "load")
  /\ UNCHANGED <<stored, config, changed, call, venue, handlingChange, running, domains, crashes>>

\* loadProject: without its document the project is passed over.  It is active
\* from here on, before anything of it runs.
LoadProject(w) ==
  /\ At(w, "load")
  /\ LET u == worker[w].unit IN
       IF u \in docs
         THEN /\ byName' = [byName EXCEPT ![u[1]] = u[2]]
              /\ active' = active \cup {u}
              /\ Goes(w, "starting")
         ELSE NextProject(w) /\ UNCHANGED <<byName, active>>
  /\ UNCHANGED <<stored, config, changed, call, venue, handlingChange, running, domains, hosts, crashes>>

\* Its parties and, route by route, its runners are started: the package of a
\* route must be there.  A project without a route fails here too.
StartRunners(w) ==
  /\ At(w, "starting")
  /\ IF worker[w].unit[1] \in packages
       THEN /\ running' = running \cup {worker[w].unit}
            /\ Goes(w, "routing") /\ UNCHANGED venue
       ELSE Throws(w) /\ UNCHANGED running
  /\ UNCHANGED <<stored, config, changed, call, handlingChange, active, byName, domains, hosts, crashes>>

\* Its runner is routed, and the loop goes on.
AddRunner(w) ==
  /\ At(w, "routing")
  /\ addRunner(worker[w].unit)
  /\ NextProject(w)
  /\ UNCHANGED <<stored, config, changed, call, venue, handlingChange, active, byName, running, crashes>>

\* The loop is done: the host listens to changes (again).
AllDone(w) ==
  /\ At(w, "next") /\ worker[w].todo = {}
  /\ worker' = [worker EXCEPT ![w] = Idle]
  /\ venue' = IF w = Run THEN "up" ELSE venue
  /\ handlingChange' = (w = Run /\ handlingChange)
  /\ UNCHANGED <<stored, config, changed, call, hosting, crashes>>

\* A query, a secret, a party or a runner fails while it is awaited.
StepFails(w) ==
  /\ Serving /\ worker[w].stage \in {"link", "stopping", "load", "starting"}
  /\ Throws(w)
  /\ UNCHANGED <<stored, config, changed, call, handlingChange, hosting, crashes>>

\* The process ends; documents, workspaces and config.json stay.
Crash ==
  /\ venue # "down" /\ crashes < MaxCrash
  /\ crashes' = crashes + 1
  /\ venue' = "down" /\ handlingChange' = FALSE /\ changed' = FALSE
  /\ worker' = [w \in Worker |-> Idle]
  /\ active' = {} /\ byName' = Nothing /\ running' = {}
  /\ domains' = [d \in DomainName |-> NoUnit] /\ hosts' = [i \in Party |-> NoUnit]
  /\ call' = [c \in Call |-> IF call[c].stage = "idle" THEN call[c] ELSE [call[c] EXCEPT !.stage = "done"]]
  /\ UNCHANGED <<stored, config>>

-----------------------------------------------------------------------------
Next ==
  \/ \E p \in PackageUpload : CreatePackage(p)
  \/ \E p \in Project : Run1(p)
  \/ \E c \in Call : \/ \E u \in Upload : CreateProject(c, u) \/ RefuseProject(c, u)
                     \/ CreateDocument(c) \/ WriteFiles(c) \/ WriteConfig(c) \/ CreateFails(c)
  \/ Setup \/ RunStarts \/ IgnoreChange \/ Crash
  \/ \E h \in Handler : \/ HandleConfigChange(h) \/ Link(h) \/ UnloadProject(h) \/ Unloaded(h)
                        \/ \E p \in Project : Compare(h, p)
  \/ \E w \in Worker : \/ LoadProject(w) \/ StartRunners(w) \/ AddRunner(w) \/ AllDone(w)
                       \/ StepFails(w)

Spec == Init /\ [][Next]_vars

-----------------------------------------------------------------------------
(* Properties *)

\* Through loads, reloads, failures and versions that share a domain, a domain
\* only leads to a version that runs, never to one that was stopped or not yet
\* started.  The entry of a project's party leads to one that runs or to one that
\* a handler is stopping, or failed to stop: the entry goes only when the party
\* has stopped (venued-host.js:569-582).  Nothing is said of the venue's own
\* entry: unloadProject leaves it with the version that took it.
RoutedIsRunning ==
  /\ \A d \in DomainName : getRunnerByDomain(d) \in running \cup {NoUnit}
  /\ \A p \in Project : LET u == getRunnerByHostIdentity(p) IN
       \/ u \in running \cup {NoUnit}
       \/ \E h \in Handler : worker[h].stage \in {"stopping", "failed"} /\ Old(h) = u

\* Two versions of a project, which may have the same keys, are never active at
\* once, however the changes of the configuration overlap.
OneVersionActive ==
  \A p \in Project : Cardinality({v \in Version : <<p, v>> \in active}) <= 1

\* What is configured can be loaded, now or after a crash: its document, its
\* workspace and its package were all stored before.  And nothing is configured
\* but what its owner signed for this venue.
ConfiguredIsStored ==
  \A p \in Configured : /\ <<p, config[p]>> \in docs \cap files \cap Genuine
                        /\ p \in packages
=============================================================================

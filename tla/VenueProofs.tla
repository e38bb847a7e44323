----------------------------- MODULE VenueProofs -----------------------------
(* What a venue is configured to run can be loaded, one version of a project
   runs at a time, and what is routed runs: for any projects, versions, domains,
   uploads and changes, however they overlap, fail or are cut short by crashes. *)

EXTENDS Venue, FiniteSetTheorems, TLAPS

-----------------------------------------------------------------------------
(* Uploads *)

\* The part of the state that uploads are about.
UploadType ==
  /\ config \in [Project -> Version \cup {NoVersion}]
  /\ call \in [Call -> [stage : {"idle", "found", "files", "config", "done"},
                        unit : Unit \cup {NoUnit}]]

\* An upload has stored what its stage says, and nobody removes it.
UploadsAreStored ==
  \A c \in Call :
    /\ call[c].stage \in {"found", "files", "config"} =>
         call[c].unit \in Genuine /\ call[c].unit[1] \in packages
    /\ call[c].stage \in {"files", "config"} => call[c].unit \in docs
    /\ call[c].stage = "config" => call[c].unit \in files

UploadInv ==
  /\ UploadType
  /\ UploadsAreStored
  /\ ConfiguredIsStored

uploadVars == <<stored, config, call>>

LEMMA GenuineUnits == \A u \in Genuine : u \in Unit /\ u[1] \in Project /\ u[2] \in Version /\ u = <<u[1], u[2]>>
  BY VenueAssumption DEF Unit

LEMMA InitUploads == Init => UploadInv
  BY DEF Init, Nothing, UploadInv, UploadType, UploadsAreStored, ConfiguredIsStored, Configured

\* Nothing that was stored is lost.
LEMMA StoredGrows ==
  ASSUME UploadInv, UNCHANGED config,
         packages \subseteq packages', docs \subseteq docs', files \subseteq files'
  PROVE  ConfiguredIsStored'
  BY DEF UploadInv, ConfiguredIsStored, Configured

\* The venue and its workers do not touch what uploads stored.
LEMMA HostKeepsUploads ==
  ASSUME UploadInv, UNCHANGED uploadVars
  PROVE  UploadInv'
  BY DEF UploadInv, UploadType, UploadsAreStored, ConfiguredIsStored, Configured, uploadVars, stored

\* A call that ends leaves everything as it is.
LEMMA EndKeeps ==
  ASSUME UploadInv, NEW c \in Call, CallGoes(c, "done"), UNCHANGED <<stored, config>>
  PROVE  UploadInv'
<1>1. /\ call' \in [Call -> [stage : {"idle", "found", "files", "config", "done"},
                             unit : Unit \cup {NoUnit}]]
      /\ call'[c].stage = "done" /\ \A d \in Call : d # c => call'[d] = call[d]
  BY DEF UploadInv, UploadType, CallGoes
<1>2. UploadType' /\ UploadsAreStored'
  BY <1>1 DEF UploadInv, UploadType, UploadsAreStored, stored
<1>3. ConfiguredIsStored'
  BY StoredGrows DEF stored
<1>4. QED BY <1>2, <1>3 DEF UploadInv

LEMMA CreatePackageKeeps ==
  ASSUME UploadInv, NEW p \in Project, CreatePackage(p)
  PROVE  UploadInv'
<1>1. packages' = packages \cup {p} /\ UNCHANGED <<docs, files, config, call>>
  BY DEF CreatePackage
<1>2. UploadType' /\ UploadsAreStored'
  BY <1>1 DEF UploadInv, UploadType, UploadsAreStored
<1>3. ConfiguredIsStored'
  BY <1>1, StoredGrows
<1>4. QED BY <1>2, <1>3 DEF UploadInv

LEMMA CreateProjectKeeps ==
  ASSUME UploadInv, NEW c \in Call, NEW u \in Unit, CreateProject(c, u)
  PROVE  UploadInv'
<1>1. PICK stage \in {"found", "files"} :
        /\ call' = [call EXCEPT ![c] = [stage |-> stage, unit |-> u]]
        /\ stage = "files" => u \in docs
  BY DEF CreateProject
<1>2. u \in Genuine /\ u[1] \in packages /\ UNCHANGED <<stored, config>>
  BY DEF CreateProject, Accepted
<1>3. /\ call' \in [Call -> [stage : {"idle", "found", "files", "config", "done"},
                             unit : Unit \cup {NoUnit}]]
      /\ call'[c] = [stage |-> stage, unit |-> u] /\ \A d \in Call : d # c => call'[d] = call[d]
  BY <1>1 DEF UploadInv, UploadType
<1>4. UploadType' /\ UploadsAreStored'
  BY <1>1, <1>2, <1>3 DEF UploadInv, UploadType, UploadsAreStored, stored
<1>5. ConfiguredIsStored'
  BY <1>2, StoredGrows DEF stored
<1>6. QED BY <1>4, <1>5 DEF UploadInv

\* The document, then the workspace.
LEMMA StoreKeeps ==
  ASSUME UploadInv, NEW c \in Call, CreateDocument(c) \/ WriteFiles(c)
  PROVE  UploadInv'
<1>1. PICK stage \in {"files", "config"} : CallGoes(c, stage)
  BY DEF CreateDocument, WriteFiles
<1>2. UNCHANGED <<packages, config>> /\ docs \subseteq docs' /\ files \subseteq files'
  BY DEF CreateDocument, WriteFiles
<1>3. /\ call' \in [Call -> [stage : {"idle", "found", "files", "config", "done"},
                             unit : Unit \cup {NoUnit}]]
      /\ call'[c].stage = stage /\ call'[c].unit = call[c].unit
      /\ \A d \in Call : d # c => call'[d] = call[d]
  BY <1>1 DEF UploadInv, UploadType, CallGoes
<1>4. /\ call'[c].unit \in Genuine /\ call'[c].unit[1] \in packages' /\ call'[c].unit \in docs'
      /\ call'[c].stage = "config" => call'[c].unit \in files'
  <2>1. CASE CreateDocument(c)
    <3>1. CallGoes(c, "files") /\ call[c].stage = "found" /\ docs' = docs \cup {call[c].unit}
      BY <2>1 DEF CreateDocument, CallAt
    <3>2. call'[c].stage = "files"
      BY <3>1 DEF UploadInv, UploadType, CallGoes
    <3>3. QED BY <3>1, <3>2, <1>2, <1>3 DEF UploadInv, UploadsAreStored
  <2>2. CASE WriteFiles(c)
    <3>1. call[c].stage = "files" /\ files' = files \cup {call[c].unit}
      BY <2>2 DEF WriteFiles, CallAt
    <3>2. QED BY <3>1, <1>2, <1>3 DEF UploadInv, UploadsAreStored
  <2>3. QED BY <2>1, <2>2
<1>5. UploadType' /\ UploadsAreStored'
  BY <1>2, <1>3, <1>4 DEF UploadInv, UploadType, UploadsAreStored
<1>6. ConfiguredIsStored'
  BY <1>2, StoredGrows
<1>7. QED BY <1>5, <1>6 DEF UploadInv

LEMMA WriteConfigKeeps ==
  ASSUME UploadInv, NEW c \in Call, WriteConfig(c)
  PROVE  UploadInv'
<1> DEFINE u == call[c].unit
<1>1. /\ config' = [config EXCEPT ![u[1]] = u[2]]
      /\ CallGoes(c, "done") /\ call[c].stage = "config" /\ UNCHANGED stored
  BY DEF WriteConfig, CallAt
<1>2. u \in Genuine /\ u[1] \in packages /\ u \in docs /\ u \in files
  BY <1>1 DEF UploadInv, UploadsAreStored
<1>3. u[1] \in Project /\ u[2] \in Version /\ u = <<u[1], u[2]>>
  BY <1>2, GenuineUnits
<1>4. /\ call' \in [Call -> [stage : {"idle", "found", "files", "config", "done"},
                             unit : Unit \cup {NoUnit}]]
      /\ call'[c].stage = "done" /\ \A d \in Call : d # c => call'[d] = call[d]
  BY <1>1 DEF UploadInv, UploadType, CallGoes
<1>5. /\ config' \in [Project -> Version \cup {NoVersion}]
      /\ config'[u[1]] = u[2] /\ \A p \in Project : p # u[1] => config'[p] = config[p]
  BY <1>1, <1>3 DEF UploadInv, UploadType
<1>6. UploadType' /\ UploadsAreStored'
  BY <1>1, <1>4, <1>5 DEF UploadInv, UploadType, UploadsAreStored, stored
<1>7. ASSUME NEW p \in Project, config'[p] # NoVersion
      PROVE  <<p, config'[p]>> \in (docs \cap files \cap Genuine) /\ p \in packages
  <2>1. CASE p = u[1]
    BY <2>1, <1>2, <1>3, <1>5
  <2>2. CASE p # u[1]
    BY <2>2, <1>5, <1>7 DEF UploadInv, ConfiguredIsStored, Configured
  <2>3. QED BY <2>1, <2>2
<1>8. ConfiguredIsStored'
  BY <1>1, <1>7 DEF ConfiguredIsStored, Configured, stored
<1>9. QED BY <1>6, <1>8 DEF UploadInv

\* A crash ends the calls, and leaves what they stored.
LEMMA CrashKeeps ==
  ASSUME UploadInv, Crash
  PROVE  UploadInv'
<1>1. /\ call' = [c \in Call |-> IF call[c].stage = "idle" THEN call[c] ELSE [call[c] EXCEPT !.stage = "done"]]
      /\ UNCHANGED <<stored, config>>
  BY DEF Crash
<1>2. /\ call' \in [Call -> [stage : {"idle", "found", "files", "config", "done"},
                             unit : Unit \cup {NoUnit}]]
      /\ \A c \in Call : call'[c].stage \in {"idle", "done"}
  BY <1>1 DEF UploadInv, UploadType
<1>3. UploadType' /\ UploadsAreStored'
  BY <1>1, <1>2 DEF UploadInv, UploadType, UploadsAreStored
<1>4. ConfiguredIsStored'
  BY <1>1, StoredGrows DEF stored
<1>5. QED BY <1>3, <1>4 DEF UploadInv

LEMMA NextUploads == UploadInv /\ [Next]_vars => UploadInv'
<1> SUFFICES ASSUME UploadInv, [Next]_vars PROVE UploadInv'
  OBVIOUS
<1>1. ASSUME NEW p \in PackageUpload, CreatePackage(p)
      PROVE  UploadInv'
  BY <1>1, CreatePackageKeeps DEF PackageUpload
<1>2. ASSUME NEW c \in Call, NEW u \in Upload, CreateProject(c, u)
      PROVE  UploadInv'
  BY <1>2, CreateProjectKeeps DEF Upload
<1>3. ASSUME NEW c \in Call, CreateFails(c) \/ \E u \in Upload : RefuseProject(c, u)
      PROVE  UploadInv'
  <2>1. CallGoes(c, "done") /\ UNCHANGED <<stored, config>>
    BY <1>3 DEF CreateFails, RefuseProject
  <2>2. QED BY <2>1, EndKeeps
<1>4. ASSUME NEW c \in Call, CreateDocument(c) \/ WriteFiles(c)
      PROVE  UploadInv'
  BY <1>4, StoreKeeps
<1>5. ASSUME NEW c \in Call, WriteConfig(c)
      PROVE  UploadInv'
  BY <1>5, WriteConfigKeeps
<1>6. CASE Crash
  BY <1>6, CrashKeeps
<1>7. CASE Setup \/ RunStarts \/ IgnoreChange \/ \E p \in Project : Run1(p)
  BY <1>7, HostKeepsUploads DEF Setup, RunStarts, IgnoreChange, Run1, uploadVars
<1>8. ASSUME NEW h \in Handler,
             \/ HandleConfigChange(h) \/ Link(h) \/ UnloadProject(h) \/ Unloaded(h)
             \/ \E p \in Project : Compare(h, p)
      PROVE  UploadInv'
  BY <1>8, HostKeepsUploads DEF HandleConfigChange, Link, UnloadProject, Unloaded, Compare, uploadVars
<1>9. ASSUME NEW w \in Worker,
             LoadProject(w) \/ StartRunners(w) \/ AddRunner(w) \/ AllDone(w) \/ StepFails(w)
      PROVE  UploadInv'
  BY <1>9, HostKeepsUploads DEF LoadProject, StartRunners, AddRunner, AllDone, StepFails, uploadVars
<1>10. CASE UNCHANGED vars
  BY <1>10, HostKeepsUploads DEF vars, uploadVars
<1>11. QED BY <1>1, <1>2, <1>3, <1>4, <1>5, <1>6, <1>7, <1>8, <1>9, <1>10 DEF Next

-----------------------------------------------------------------------------
(* Workers *)

WorkerStage == {"idle", "next", "link", "unload", "stopping", "load", "starting", "routing", "failed"}

WorkerType ==
  [ stage : WorkerStage, todo : SUBSET Project, held : [Project -> Version \cup {NoVersion}],
    live : BOOLEAN, unit : Unit \cup {NoUnit}, old : Version \cup {NoVersion} ]

Busy(w) == worker[w].stage \notin {"idle", "failed"}

\* run works while the venue starts, a handler while a change is handled, and
\* never two of them.
OneWorker ==
  /\ \A w \in Worker : Busy(w) =>
        IF w = Run THEN venue = "starting" ELSE venue = "up" /\ handlingChange
  /\ \A w, x \in Worker : Busy(w) /\ Busy(x) => w = x

Inactive(p) == \A v \in Version : <<p, v>> \notin active

\* What a worker has behind it at each step.
Knows(w) ==
  /\ \A p \in worker[w].todo : worker[w].held[p] # NoVersion
  /\ worker[w].stage \notin {"idle", "next", "failed"} => worker[w].unit \in Unit
  /\ worker[w].stage \in {"link", "unload", "stopping"} => worker[w].old = byName[worker[w].unit[1]]
  /\ worker[w].stage = "stopping" => Old(w) \notin running
  /\ worker[w].stage = "load" => Inactive(worker[w].unit[1])
  /\ worker[w].stage \in {"starting", "routing"} => worker[w].unit \in active
  /\ worker[w].stage = "routing" => worker[w].unit \in running
  /\ w = Run /\ Busy(w) =>
       \A p \in worker[w].todo : worker[w].stage = "next" \/ p # worker[w].unit[1] => Inactive(p)

WorkerInv ==
  /\ worker \in [Worker -> WorkerType]
  /\ OneWorker
  /\ \A w \in Worker : Knows(w)

-----------------------------------------------------------------------------
(* Hosting *)

HostingType ==
  /\ venue \in {"down", "set up", "starting", "up", "deaf"} /\ handlingChange \in BOOLEAN
  /\ active \subseteq Unit
  /\ byName \in [Project -> Version \cup {NoVersion}]
  /\ domains \in [DomainName -> Unit \cup {NoUnit}]
  /\ hosts \in [Party -> Unit \cup {NoUnit}]

\* An active version has the name of its project, which only one can have.
ActiveIsNamed == \A p \in Project, v \in Version : <<p, v>> \in active => byName[p] = v

\* A domain leads to a version that runs and is to have it.
RoutesRun ==
  \A d \in DomainName : domains[d] # NoUnit =>
    domains[d] \in running /\ Domain[domains[d]] = d

HostingInv ==
  /\ HostingType
  /\ ActiveIsNamed
  /\ running \subseteq active
  /\ RoutesRun
  /\ venue \in {"down", "set up"} => active = {}

HostInv == WorkerInv /\ HostingInv

USE DEF WorkerStage

LEMMA InitHost == Init => HostInv
<1> SUFFICES ASSUME Init PROVE HostInv
  OBVIOUS
<1>1. Nothing \in [Project -> Version \cup {NoVersion}]
  BY DEF Nothing
<1>2. Idle \in WorkerType /\ Idle.stage = "idle" /\ Idle.todo = {}
  BY <1>1 DEF Idle, WorkerType
<1>3. worker \in [Worker -> WorkerType] /\ \A w \in Worker : worker[w] = Idle
  BY <1>2 DEF Init
<1>4. OneWorker /\ \A w \in Worker : Knows(w)
  BY <1>2, <1>3 DEF OneWorker, Busy, Knows
<1>5. HostingType
  BY <1>1 DEF Init, HostingType
<1>6. ActiveIsNamed /\ RoutesRun /\ running \subseteq active /\ active = {}
  BY DEF Init, ActiveIsNamed, RoutesRun, Nothing
<1>7. QED BY <1>3, <1>4, <1>5, <1>6 DEF HostInv, WorkerInv, HostingInv

\* Who is at work knows its own step; the others are out of it, whatever it does.
LEMMA OneWorks ==
  ASSUME HostInv, NEW w \in Worker, Busy(w), NEW rec \in WorkerType,
         worker' = [worker EXCEPT ![w] = rec], Knows(w)',
         rec.stage \in {"idle", "failed"} \/ UNCHANGED <<venue, handlingChange>>
  PROVE  WorkerInv'
<1>1. /\ worker' \in [Worker -> WorkerType] /\ worker'[w] = rec
      /\ \A x \in Worker : x # w => worker'[x] = worker[x] /\ ~Busy(x)
  BY DEF HostInv, WorkerInv, OneWorker
<1>2. OneWorker'
  BY <1>1 DEF HostInv, WorkerInv, OneWorker, Busy
<1>3. ASSUME NEW x \in Worker, x # w
      PROVE  Knows(x)'
  <2>1. worker'[x] = worker[x] /\ worker[x].stage \in {"idle", "failed"}
    BY <1>1, <1>3 DEF Busy
  <2>2. \A p \in worker[x].todo : worker[x].held[p] # NoVersion
    BY DEF HostInv, WorkerInv, Knows
  <2>3. QED BY <2>1, <2>2 DEF Knows, Busy
<1>4. QED BY <1>1, <1>2, <1>3 DEF WorkerInv

\* A worker gives up: what is active stays, and nobody is at work.
LEMMA ThrowsKeeps ==
  ASSUME HostInv, NEW w \in Worker, Busy(w), Throws(w), Serving, UNCHANGED <<handlingChange, hosting>>
  PROVE  HostInv'
<1> DEFINE rec == [worker[w] EXCEPT !.stage = "failed"]
<1>1. rec \in WorkerType /\ rec.stage = "failed" /\ rec.todo = worker[w].todo /\ rec.held = worker[w].held
  BY DEF HostInv, WorkerInv, WorkerType
<1>2. worker' = [worker EXCEPT ![w] = rec] /\ worker'[w] = rec
  BY DEF Throws, Goes, HostInv, WorkerInv
<1>3. Knows(w)'
  BY <1>1, <1>2 DEF HostInv, WorkerInv, Knows, Busy
<1>4. WorkerInv'
  BY <1>1, <1>2, <1>3, OneWorks
<1>5. venue' \in {venue, "deaf"}
  BY DEF Throws
<1>6. HostingInv'
  BY <1>5 DEF HostInv, HostingInv, HostingType, ActiveIsNamed, RoutesRun, hosting, Serving
<1>7. QED BY <1>4, <1>6 DEF HostInv

\* A worker goes on, and nothing else changes.
LEMMA WorkerStep ==
  ASSUME HostInv, NEW w \in Worker, Busy(w), NEW rec \in WorkerType,
         worker' = [worker EXCEPT ![w] = rec], Knows(w)',
         UNCHANGED <<venue, handlingChange, hosting>>
  PROVE  HostInv'
<1>1. WorkerInv'
  BY OneWorks
<1>2. HostingInv'
  BY DEF HostInv, HostingInv, HostingType, ActiveIsNamed, RoutesRun, hosting
<1>3. QED BY <1>1, <1>2 DEF HostInv

\* Uploads and reloads change at most what the workers hold of the configuration.
LEMMA HeldStep ==
  ASSUME HostInv, UNCHANGED <<venue, handlingChange, hosting>>,
         worker' \in [Worker -> WorkerType],
         \A w \in Worker :
            /\ worker'[w].stage = worker[w].stage /\ worker'[w].todo = worker[w].todo
            /\ worker'[w].unit = worker[w].unit /\ worker'[w].old = worker[w].old
            /\ \A p \in Project : worker[w].held[p] # NoVersion => worker'[w].held[p] # NoVersion
  PROVE  HostInv'
<1>1. OneWorker'
  BY DEF HostInv, WorkerInv, OneWorker, Busy
<1>2. ASSUME NEW w \in Worker
      PROVE  Knows(w)'
  <2>1. Knows(w) /\ worker[w].todo \subseteq Project
    BY DEF HostInv, WorkerInv, WorkerType
  <2>2. UNCHANGED <<active, running, byName>> /\ Old(w)' = Old(w) /\ \A p : Inactive(p)' <=> Inactive(p)
    BY DEF hosting, Old, Inactive
  <2>3. QED BY <2>1, <2>2 DEF Knows, Busy
<1>3. HostingInv'
  BY DEF HostInv, HostingInv, HostingType, ActiveIsNamed, RoutesRun, hosting
<1>4. QED BY <1>1, <1>2, <1>3 DEF HostInv, WorkerInv

LEMMA ReloadKeeps ==
  ASSUME HostInv, Reload, UNCHANGED <<venue, handlingChange, hosting>>
  PROVE  HostInv'
<1>1. \A w \in Worker : worker'[w] = [worker[w] EXCEPT !.live = FALSE]
  BY DEF Reload
<1>2. \A w \in Worker : worker[w] \in WorkerType
  BY DEF HostInv, WorkerInv
<1>3. ASSUME NEW w \in Worker
      PROVE  worker'[w] \in WorkerType
  <2>1. worker[w] \in WorkerType
    BY <1>2
  <2>2. [worker[w] EXCEPT !.live = FALSE] \in WorkerType
    BY <2>1 DEF WorkerType
  <2>3. QED BY <1>1, <2>2
<1>4. worker' \in [Worker -> WorkerType]
  BY <1>3 DEF Reload
<1>5. QED BY <1>1, <1>2, <1>4, HeldStep DEF WorkerType

LEMMA WriteConfigReaches ==
  ASSUME UploadInv, HostInv, NEW c \in Call, WriteConfig(c)
  PROVE  HostInv'
<1> DEFINE p == call[c].unit[1]
           v == call[c].unit[2]
<1>1. p \in Project /\ v \in Version /\ v # NoVersion
  BY GenuineUnits, VenueAssumption DEF WriteConfig, CallAt, UploadInv, UploadsAreStored, NoVersion
<1>2. /\ worker' = [w \in Worker |-> IF worker[w].live
                      THEN [worker[w] EXCEPT !.held[p] = v] ELSE worker[w]]
      /\ UNCHANGED <<venue, handlingChange, hosting>>
  BY DEF WriteConfig
<1>3. ASSUME NEW w \in Worker
      PROVE  /\ worker'[w] \in WorkerType
             /\ worker'[w].stage = worker[w].stage /\ worker'[w].todo = worker[w].todo
             /\ worker'[w].unit = worker[w].unit /\ worker'[w].old = worker[w].old
             /\ \A q \in Project : worker[w].held[q] # NoVersion => worker'[w].held[q] # NoVersion
  <2>1. worker[w] \in WorkerType
    BY DEF HostInv, WorkerInv
  <2>2. CASE worker[w].live
    <3>1. worker'[w] = [worker[w] EXCEPT !.held = [worker[w].held EXCEPT ![p] = v]]
      BY <1>2, <2>2
    <3>2. [worker[w].held EXCEPT ![p] = v] \in [Project -> Version \cup {NoVersion}]
      BY <1>1, <2>1 DEF WorkerType
    <3>3. QED BY <1>1, <2>1, <3>1, <3>2 DEF WorkerType
  <2>3. CASE ~worker[w].live
    BY <1>2, <2>1, <2>3
  <2>4. QED BY <2>2, <2>3
<1>4. worker' \in [Worker -> WorkerType]
  BY <1>2, <1>3
<1>5. QED BY <1>2, <1>3, <1>4, HeldStep

-----------------------------------------------------------------------------
(* The steps of the host *)

\* A worker that reads the configuration, while nobody else is at work.
LEMMA ReadsKeeps ==
  ASSUME UploadInv, HostInv, NEW w \in Worker, Reads(w), \A x \in Worker : ~Busy(x),
         w = Run => active = {}, UNCHANGED hosting,
         venue' \in {"starting", "up"}, handlingChange' \in BOOLEAN,
         IF w = Run THEN venue' = "starting" ELSE venue' = "up" /\ handlingChange'
  PROVE  HostInv'
<1> DEFINE rec == [Idle EXCEPT !.stage = "next", !.todo = Configured, !.held = config, !.live = TRUE]
<1>1. /\ rec \in WorkerType /\ rec.stage = "next" /\ rec.todo = Configured /\ rec.held = config
  BY DEF UploadInv, UploadType, Idle, WorkerType, Configured
<1>2. /\ worker' \in [Worker -> WorkerType] /\ worker'[w] = rec
      /\ \A x \in Worker : x # w => worker'[x] = worker[x]
  BY <1>1 DEF Reads, HostInv, WorkerInv
<1>3. OneWorker'
  BY <1>1, <1>2 DEF OneWorker, Busy
<1>4. Knows(w)'
  BY <1>1, <1>2 DEF Knows, Busy, Configured, Inactive, hosting
<1>5. ASSUME NEW x \in Worker, x # w
      PROVE  Knows(x)'
  <2>1. worker'[x] = worker[x] /\ worker[x].stage \in {"idle", "failed"}
    BY <1>2, <1>5 DEF Busy
  <2>2. \A p \in worker[x].todo : worker[x].held[p] # NoVersion
    BY DEF HostInv, WorkerInv, Knows
  <2>3. QED BY <2>1, <2>2 DEF Knows, Busy
<1>6. HostingInv'
  BY DEF HostInv, HostingInv, HostingType, ActiveIsNamed, RoutesRun, hosting
<1>7. QED BY <1>2, <1>3, <1>4, <1>5, <1>6 DEF HostInv, WorkerInv

LEMMA BeginsKeep ==
  ASSUME UploadInv, HostInv, Setup \/ RunStarts \/ \E h \in Handler : HandleConfigChange(h)
  PROVE  HostInv'
<1>1. CASE Setup
  <2>1. venue = "down" /\ venue' = "set up" /\ UNCHANGED <<handlingChange, worker, hosting>>
    BY <1>1 DEF Setup
  <2>2. WorkerInv'
    BY <2>1 DEF HostInv, WorkerInv, OneWorker, Busy, Knows, Old, Inactive, hosting
  <2>3. HostingInv'
    BY <2>1 DEF HostInv, HostingInv, HostingType, ActiveIsNamed, RoutesRun, hosting
  <2>4. QED BY <2>2, <2>3 DEF HostInv
<1>2. CASE RunStarts
  <2>1. \A x \in Worker : ~Busy(x)
    BY <1>2 DEF RunStarts, HostInv, WorkerInv, OneWorker
  <2>2. active = {} /\ handlingChange \in BOOLEAN
    BY <1>2 DEF RunStarts, HostInv, HostingInv, HostingType
  <2>3. QED BY <1>2, <2>1, <2>2, ReadsKeeps DEF RunStarts, Worker
<1>3. ASSUME NEW h \in Handler, HandleConfigChange(h)
      PROVE  HostInv'
  <2>1. \A x \in Worker : ~Busy(x)
    BY <1>3 DEF HandleConfigChange, HostInv, WorkerInv, OneWorker
  <2>2. h # Run /\ h \in Worker
    BY VenueAssumption DEF Worker
  <2>3. QED BY <1>3, <2>1, <2>2, ReadsKeeps DEF HandleConfigChange
<1>4. QED BY <1>1, <1>2, <1>3

\* run takes the next project, of which nothing is active yet.
LEMMA Run1Keeps ==
  ASSUME HostInv, NEW p \in Project, Run1(p)
  PROVE  HostInv'
<1> DEFINE rec == [worker[Run] EXCEPT !.stage = "load", !.unit = <<p, worker[Run].held[p]>>]
<1>1. Run \in Worker /\ worker[Run] \in WorkerType /\ Knows(Run) /\ Busy(Run)
  BY DEF HostInv, WorkerInv, Run1, At, Busy, Worker
<1>2. p \in worker[Run].todo /\ worker[Run].stage = "next" /\ UNCHANGED <<venue, handlingChange, hosting>>
  BY DEF Run1, At
<1>3. worker[Run].held[p] \in Version /\ Inactive(p)
  BY <1>1, <1>2 DEF Knows, WorkerType
<1>4. /\ rec \in WorkerType /\ rec.stage = "load" /\ rec.unit = <<p, worker[Run].held[p]>>
      /\ rec.todo = worker[Run].todo /\ rec.held = worker[Run].held /\ rec.unit \in Unit /\ rec.unit[1] = p
  BY <1>1, <1>3 DEF WorkerType, Unit
<1>5. worker' = [worker EXCEPT ![Run] = rec] /\ worker'[Run] = rec
  BY <1>1 DEF Run1, HostInv, WorkerInv
<1>6. Knows(Run)'
  BY <1>1, <1>2, <1>3, <1>4, <1>5 DEF Knows, Busy, Inactive, hosting
<1>7. QED BY <1>1, <1>2, <1>4, <1>5, <1>6, WorkerStep

LEMMA CompareKeeps ==
  ASSUME HostInv, NEW h \in Handler, NEW p \in Project, Compare(h, p)
  PROVE  HostInv'
<1>1. h \in Worker /\ h # Run /\ worker[h] \in WorkerType /\ Knows(h) /\ Busy(h)
  BY VenueAssumption DEF HostInv, WorkerInv, Compare, At, Busy, Worker
<1>2. /\ p \in worker[h].todo /\ worker[h].stage = "next" /\ Serving
      /\ UNCHANGED <<handlingChange, hosting>>
  BY DEF Compare, At
<1>3. worker[h].held[p] \in Version
  BY <1>1, <1>2 DEF Knows, WorkerType
<1> DEFINE v == worker[h].held[p]
<1>4. CASE v = byName[p]
  <2> DEFINE rec == [worker[h] EXCEPT !.todo = @ \ {p}]
  <2>1. /\ rec \in WorkerType /\ rec.stage = "next" /\ rec.todo \subseteq worker[h].todo
        /\ rec.held = worker[h].held
    BY <1>1, <1>2 DEF WorkerType
  <2>2. worker' = [worker EXCEPT ![h] = rec] /\ worker'[h] = rec /\ UNCHANGED venue
    BY <1>1, <1>4 DEF Compare, HostInv, WorkerInv
  <2>3. Knows(h)'
    BY <1>1, <2>1, <2>2 DEF Knows
  <2>4. QED BY <1>1, <1>2, <2>1, <2>2, <2>3, WorkerStep
<1>5. CASE v # byName[p] /\ byName[p] = NoVersion
  BY <1>1, <1>2, <1>5, ThrowsKeeps DEF Compare
<1>6. CASE v # byName[p] /\ byName[p] # NoVersion
  <2> DEFINE rec == [worker[h] EXCEPT !.stage = "link", !.unit = <<p, v>>, !.old = byName[p]]
  <2>1. byName[p] \in Version
    BY <1>6 DEF HostInv, HostingInv, HostingType
  <2>2. /\ rec \in WorkerType /\ rec.stage = "link" /\ rec.unit = <<p, v>> /\ rec.old = byName[p]
        /\ rec.todo = worker[h].todo /\ rec.held = worker[h].held /\ rec.unit \in Unit
    BY <1>1, <1>3, <2>1 DEF WorkerType, Unit
  <2>3. worker' = [worker EXCEPT ![h] = rec] /\ worker'[h] = rec /\ UNCHANGED venue
    BY <1>1, <1>6 DEF Compare, HostInv, WorkerInv
  <2>4. Knows(h)'
    BY <1>1, <1>2, <2>2, <2>3 DEF Knows, hosting
  <2>5. QED BY <1>1, <1>2, <2>2, <2>3, <2>4, WorkerStep
<1>7. QED BY <1>4, <1>5, <1>6

\* A worker whose stage alone changes.
LEMMA GoesTo ==
  ASSUME HostInv, NEW w \in Worker, NEW stage \in WorkerStage, Goes(w, stage)
  PROVE  \E rec \in WorkerType :
           /\ worker' = [worker EXCEPT ![w] = rec] /\ worker'[w] = rec /\ rec.stage = stage
           /\ rec.todo = worker[w].todo /\ rec.held = worker[w].held
           /\ rec.unit = worker[w].unit /\ rec.old = worker[w].old
<1> DEFINE rec == [worker[w] EXCEPT !.stage = stage]
<1>1. worker[w] \in WorkerType
  BY DEF HostInv, WorkerInv
<1>2. /\ rec \in WorkerType /\ rec.stage = stage /\ rec.todo = worker[w].todo /\ rec.held = worker[w].held
      /\ rec.unit = worker[w].unit /\ rec.old = worker[w].old
  BY <1>1 DEF WorkerType
<1>3. worker' = [worker EXCEPT ![w] = rec] /\ worker'[w] = rec
  BY DEF Goes, HostInv, WorkerInv
<1>4. QED BY <1>2, <1>3

\* The same when the project is done with.
LEMMA NextGoesTo ==
  ASSUME HostInv, NEW w \in Worker, NextProject(w)
  PROVE  \E rec \in WorkerType :
           /\ worker' = [worker EXCEPT ![w] = rec] /\ worker'[w] = rec /\ rec.stage = "next"
           /\ rec.todo = worker[w].todo \ {worker[w].unit[1]} /\ rec.held = worker[w].held
<1> DEFINE rec == [worker[w] EXCEPT !.stage = "next", !.todo = @ \ {worker[w].unit[1]}]
<1>1. worker[w] \in WorkerType
  BY DEF HostInv, WorkerInv
<1>2. /\ rec \in WorkerType /\ rec.stage = "next"
      /\ rec.todo = worker[w].todo \ {worker[w].unit[1]} /\ rec.held = worker[w].held
  BY <1>1 DEF WorkerType
<1>3. worker' = [worker EXCEPT ![w] = rec] /\ worker'[w] = rec
  BY DEF NextProject, HostInv, WorkerInv
<1>4. QED BY <1>2, <1>3

LEMMA LinkKeeps ==
  ASSUME HostInv, NEW h \in Handler, Link(h)
  PROVE  HostInv'
<1>1. /\ h \in Worker /\ h # Run /\ Knows(h) /\ Busy(h) /\ worker[h].stage = "link" /\ Serving
      /\ UNCHANGED <<handlingChange, hosting>>
  BY VenueAssumption DEF HostInv, WorkerInv, Link, At, Busy, Worker
<1>2. CASE Goes(h, "unload") /\ UNCHANGED venue
  <2>1. PICK rec \in WorkerType :
          /\ worker' = [worker EXCEPT ![h] = rec] /\ worker'[h] = rec /\ rec.stage = "unload"
          /\ rec.todo = worker[h].todo /\ rec.held = worker[h].held
          /\ rec.unit = worker[h].unit /\ rec.old = worker[h].old
    BY <1>1, <1>2, GoesTo
  <2>2. Knows(h)'
    BY <1>1, <2>1 DEF Knows, hosting
  <2>3. QED BY <1>1, <1>2, <2>1, <2>2, WorkerStep
<1>3. CASE Throws(h)
  BY <1>1, <1>3, ThrowsKeeps
<1>4. QED BY <1>2, <1>3 DEF Link

\* The version that goes is the only one of its project that could be active.
LEMMA UnloadKeeps ==
  ASSUME HostInv, NEW h \in Handler, UnloadProject(h)
  PROVE  HostInv'
<1> DEFINE p == worker[h].unit[1]
<1>1. /\ h \in Worker /\ h # Run /\ Knows(h) /\ Busy(h) /\ worker[h].stage = "unload"
      /\ worker[h].unit \in Unit /\ worker[h].old = byName[p]
  BY VenueAssumption DEF HostInv, WorkerInv, UnloadProject, At, Busy, Worker, Knows
<1>2. p \in Project /\ Old(h) = <<p, byName[p]>>
  BY <1>1 DEF Unit, Old
<1>3. /\ running' = running \ {Old(h)}
      /\ UNCHANGED <<venue, handlingChange, active, byName, hosts>>
  BY DEF UnloadProject
<1>4. PICK stage \in {"stopping", "load"} : Goes(h, stage) /\ (stage = "load" => Old(h) \notin active)
  BY DEF UnloadProject
<1>5. PICK rec \in WorkerType :
        /\ worker' = [worker EXCEPT ![h] = rec] /\ worker'[h] = rec /\ rec.stage = stage
        /\ rec.todo = worker[h].todo /\ rec.held = worker[h].held
        /\ rec.unit = worker[h].unit /\ rec.old = worker[h].old
  BY <1>1, <1>4, GoesTo
<1>6. stage = "load" => Inactive(p)
  BY <1>2, <1>4 DEF HostInv, HostingInv, ActiveIsNamed, Inactive
<1>7. Old(h)' = Old(h) /\ (Inactive(p)' <=> Inactive(p))
  BY <1>3, <1>5 DEF Old, Inactive
<1>8. Knows(h)'
  BY <1>1, <1>3, <1>4, <1>5, <1>6, <1>7 DEF Knows
<1>9. WorkerInv'
  BY <1>1, <1>3, <1>5, <1>8, OneWorks
<1>10. RoutesRun'
  <2>1. CASE Old(h) \in active
    <3>1. domains' = [domains EXCEPT ![Domain[Old(h)]] = NoUnit]
      BY <2>1 DEF UnloadProject, removeRunnerByDomain
    <3>2. ASSUME NEW d \in DomainName, domains'[d] # NoUnit
          PROVE  domains'[d] \in running' /\ Domain[domains'[d]] = d
      <4>1. d # Domain[Old(h)] /\ domains'[d] = domains[d]
        BY <3>1, <3>2 DEF HostInv, HostingInv, HostingType
      <4>2. domains[d] \in running /\ Domain[domains[d]] = d
        BY <3>2, <4>1 DEF HostInv, HostingInv, RoutesRun
      <4>3. domains[d] # Old(h)
        BY <4>1, <4>2
      <4>4. QED BY <1>3, <4>1, <4>2, <4>3
    <3>3. QED BY <3>2 DEF RoutesRun
  <2>2. CASE Old(h) \notin active
    <3>1. domains' = domains /\ running' = running
      BY <1>3, <2>2 DEF UnloadProject, HostInv, HostingInv
    <3>2. QED BY <1>3, <3>1 DEF HostInv, HostingInv, RoutesRun
  <2>3. QED BY <2>1, <2>2
<1>11. HostingType'
  <2>1. domains' = domains \/ domains' = [domains EXCEPT ![Domain[Old(h)]] = NoUnit]
    BY DEF UnloadProject, removeRunnerByDomain
  <2>2. QED BY <1>3, <2>1 DEF HostInv, HostingInv, HostingType
<1>12. HostingInv'
  BY <1>3, <1>10, <1>11 DEF HostInv, HostingInv, ActiveIsNamed
<1>13. QED BY <1>9, <1>12 DEF HostInv

LEMMA UnloadedKeeps ==
  ASSUME HostInv, NEW h \in Handler, Unloaded(h)
  PROVE  HostInv'
<1> DEFINE p == worker[h].unit[1]
<1>1. /\ h \in Worker /\ h # Run /\ Knows(h) /\ Busy(h) /\ worker[h].stage = "stopping"
      /\ worker[h].unit \in Unit /\ worker[h].old = byName[p] /\ Old(h) \notin running
  BY VenueAssumption DEF HostInv, WorkerInv, Unloaded, At, Busy, Worker, Knows
<1>2. p \in Project /\ Old(h) = <<p, byName[p]>>
  BY <1>1 DEF Unit, Old
<1>3. /\ hosts' = [hosts EXCEPT ![p] = NoUnit] /\ active' = active \ {Old(h)}
      /\ byName' = [byName EXCEPT ![p] = NoVersion] /\ Goes(h, "load")
      /\ UNCHANGED <<venue, handlingChange, running, domains>>
  BY DEF Unloaded, removeRunnerByHostIdentity
<1>4. PICK rec \in WorkerType :
        /\ worker' = [worker EXCEPT ![h] = rec] /\ worker'[h] = rec /\ rec.stage = "load"
        /\ rec.todo = worker[h].todo /\ rec.held = worker[h].held
        /\ rec.unit = worker[h].unit /\ rec.old = worker[h].old
  BY <1>1, <1>3, GoesTo
<1>5. Inactive(p)'
  <2>1. ASSUME NEW v \in Version
        PROVE  <<p, v>> \notin active'
    <3>1. <<p, v>> \in active => <<p, v>> = Old(h)
      BY <1>2 DEF HostInv, HostingInv, ActiveIsNamed
    <3>2. QED BY <1>3, <3>1
  <2>2. p' = p
    BY <1>1, <1>4
  <2>3. QED BY <2>1, <2>2 DEF Inactive
<1>6. Knows(h)'
  BY <1>1, <1>4, <1>5 DEF Knows
<1>7. WorkerInv'
  BY <1>1, <1>3, <1>4, <1>6, OneWorks
<1>8. HostingType'
  BY <1>2, <1>3 DEF HostInv, HostingInv, HostingType
<1>9. ActiveIsNamed' /\ running' \subseteq active'
  <2>1. running' \subseteq active'
    BY <1>1, <1>3 DEF HostInv, HostingInv
  <2>2. ASSUME NEW q \in Project, NEW v \in Version, <<q, v>> \in active'
        PROVE  byName'[q] = v
    <3>1. <<q, v>> \in active /\ byName[q] = v /\ q # p
      BY <1>2, <1>3, <2>2 DEF HostInv, HostingInv, ActiveIsNamed
    <3>2. QED BY <1>3, <3>1 DEF HostInv, HostingInv, HostingType
  <2>3. QED BY <2>1, <2>2 DEF ActiveIsNamed
<1>10. RoutesRun'
  BY <1>3 DEF HostInv, HostingInv, RoutesRun
<1>11. active' = {} \/ venue' \notin {"down", "set up"}
  BY <1>3 DEF Unloaded, At, Serving
<1>12. QED BY <1>7, <1>8, <1>9, <1>10, <1>11 DEF HostInv, HostingInv

LEMMA LoadKeeps ==
  ASSUME HostInv, NEW w \in Worker, LoadProject(w)
  PROVE  HostInv'
<1> DEFINE u == worker[w].unit
<1>1. /\ Knows(w) /\ Busy(w) /\ worker[w].stage = "load" /\ Serving
      /\ u \in Unit /\ Inactive(u[1])
      /\ UNCHANGED <<venue, handlingChange, running, domains, hosts>>
  BY DEF HostInv, WorkerInv, LoadProject, At, Busy, Knows
<1>2. u[1] \in Project /\ u[2] \in Version /\ u = <<u[1], u[2]>>
  BY <1>1 DEF Unit
<1>3. CASE u \in docs
  <2>1. byName' = [byName EXCEPT ![u[1]] = u[2]] /\ active' = active \cup {u} /\ Goes(w, "starting")
    BY <1>3 DEF LoadProject
  <2>2. PICK rec \in WorkerType :
          /\ worker' = [worker EXCEPT ![w] = rec] /\ worker'[w] = rec /\ rec.stage = "starting"
          /\ rec.todo = worker[w].todo /\ rec.held = worker[w].held
          /\ rec.unit = worker[w].unit /\ rec.old = worker[w].old
    BY <2>1, GoesTo
  <2>3. \A p : p # u[1] /\ Inactive(p) => Inactive(p)'
    BY <1>2, <2>1 DEF Inactive
  <2>4. Knows(w)'
    BY <1>1, <2>1, <2>2, <2>3 DEF Knows, Busy
  <2>5. WorkerInv'
    BY <1>1, <2>2, <2>4, OneWorks
  <2>6. HostingType'
    BY <1>1, <1>2, <2>1 DEF HostInv, HostingInv, HostingType
  <2>7. ASSUME NEW p \in Project, NEW v \in Version, <<p, v>> \in active'
        PROVE  byName'[p] = v
    <3>1. CASE p = u[1]
      <4>1. <<p, v>> = u
        BY <1>1, <2>1, <2>7, <3>1 DEF Inactive
      <4>2. byName'[u[1]] = u[2]
        BY <1>2, <2>1 DEF HostInv, HostingInv, HostingType
      <4>3. QED BY <1>2, <3>1, <4>1, <4>2
    <3>2. CASE p # u[1]
      <4>1. <<p, v>> \in active
        BY <1>2, <2>1, <2>7, <3>2
      <4>2. QED BY <2>1, <3>2, <4>1 DEF HostInv, HostingInv, HostingType, ActiveIsNamed
    <3>3. QED BY <3>1, <3>2
  <2>8. RoutesRun' /\ running' \subseteq active'
    BY <1>1, <2>1 DEF HostInv, HostingInv, RoutesRun
  <2>9. QED BY <1>1, <2>5, <2>6, <2>7, <2>8 DEF HostInv, HostingInv, ActiveIsNamed, Serving
<1>4. CASE u \notin docs
  <2>1. NextProject(w) /\ UNCHANGED hosting
    BY <1>1, <1>4 DEF LoadProject, hosting
  <2>2. PICK rec \in WorkerType :
          /\ worker' = [worker EXCEPT ![w] = rec] /\ worker'[w] = rec /\ rec.stage = "next"
          /\ rec.todo = worker[w].todo \ {u[1]} /\ rec.held = worker[w].held
    BY <2>1, NextGoesTo
  <2>3. \A p : Inactive(p)' <=> Inactive(p)
    BY <2>1 DEF hosting, Inactive
  <2>4. Knows(w)'
    BY <1>1, <2>2, <2>3 DEF Knows, Busy
  <2>5. QED BY <1>1, <2>1, <2>2, <2>4, WorkerStep
<1>5. QED BY <1>3, <1>4

LEMMA StartRunnersKeeps ==
  ASSUME HostInv, NEW w \in Worker, StartRunners(w)
  PROVE  HostInv'
<1> DEFINE u == worker[w].unit
<1>1. /\ Knows(w) /\ Busy(w) /\ worker[w].stage = "starting" /\ Serving /\ u \in Unit /\ u \in active
      /\ UNCHANGED <<handlingChange, active, byName, domains, hosts>>
  BY DEF HostInv, WorkerInv, StartRunners, At, Busy, Knows
<1>2. CASE u[1] \in packages
  <2>1. running' = running \cup {u} /\ Goes(w, "routing") /\ UNCHANGED venue
    BY <1>2 DEF StartRunners
  <2>2. PICK rec \in WorkerType :
          /\ worker' = [worker EXCEPT ![w] = rec] /\ worker'[w] = rec /\ rec.stage = "routing"
          /\ rec.todo = worker[w].todo /\ rec.held = worker[w].held
          /\ rec.unit = worker[w].unit /\ rec.old = worker[w].old
    BY <2>1, GoesTo
  <2>3. \A p : Inactive(p)' <=> Inactive(p)
    BY <1>1 DEF Inactive
  <2>4. Knows(w)'
    BY <1>1, <2>1, <2>2, <2>3 DEF Knows, Busy
  <2>5. WorkerInv'
    BY <1>1, <2>1, <2>2, <2>4, OneWorks
  <2>6. HostingInv'
    BY <1>1, <2>1 DEF HostInv, HostingInv, HostingType, ActiveIsNamed, RoutesRun
  <2>7. QED BY <2>5, <2>6 DEF HostInv
<1>3. CASE u[1] \notin packages
  <2>1. Throws(w) /\ UNCHANGED hosting
    BY <1>1, <1>3 DEF StartRunners, hosting
  <2>2. QED BY <1>1, <2>1, ThrowsKeeps
<1>4. QED BY <1>2, <1>3

LEMMA AddRunnerKeeps ==
  ASSUME HostInv, NEW w \in Worker, AddRunner(w)
  PROVE  HostInv'
<1> DEFINE u == worker[w].unit
<1>1. /\ Knows(w) /\ Busy(w) /\ worker[w].stage = "routing" /\ u \in Unit /\ u \in active /\ u \in running
      /\ UNCHANGED <<venue, handlingChange, active, byName, running>> /\ NextProject(w)
  BY DEF HostInv, WorkerInv, AddRunner, At, Busy, Knows
<1>2. u[1] \in Project /\ u[2] \in Version /\ u = <<u[1], u[2]>>
  BY <1>1 DEF Unit
<1>3. /\ hosts' = [hosts EXCEPT ![PartyOf(u)] = IF hosts[PartyOf(u)] = NoUnit THEN u ELSE hosts[PartyOf(u)]]
      /\ domains' = [domains EXCEPT ![Domain[u]] = IF domains[Domain[u]] = NoUnit THEN u ELSE domains[Domain[u]]]
  BY DEF AddRunner, addRunner
<1>4. PICK rec \in WorkerType :
        /\ worker' = [worker EXCEPT ![w] = rec] /\ worker'[w] = rec /\ rec.stage = "next"
        /\ rec.todo = worker[w].todo \ {u[1]} /\ rec.held = worker[w].held
  BY <1>1, NextGoesTo
<1>5. \A p : Inactive(p)' <=> Inactive(p)
  BY <1>1 DEF Inactive
<1>6. Knows(w)'
  BY <1>1, <1>4, <1>5 DEF Knows, Busy
<1>7. WorkerInv'
  BY <1>1, <1>4, <1>6, OneWorks
<1>8. HostingType'
  BY <1>1, <1>2, <1>3 DEF HostInv, HostingInv, HostingType
<1>9. ASSUME NEW d \in DomainName, domains'[d] # NoUnit
      PROVE  domains'[d] \in running' /\ Domain[domains'[d]] = d
  <2>1. domains'[d] = domains[d] \/ (d = Domain[u] /\ domains'[d] = u)
    BY <1>3 DEF HostInv, HostingInv, HostingType
  <2>2. QED BY <1>1, <1>9, <2>1 DEF HostInv, HostingInv, RoutesRun
<1>10. RoutesRun'
  BY <1>9 DEF RoutesRun
<1>11. ActiveIsNamed' /\ running' \subseteq active'
  BY <1>1 DEF HostInv, HostingInv, ActiveIsNamed
<1>12. QED BY <1>1, <1>7, <1>8, <1>10, <1>11 DEF HostInv, HostingInv

LEMMA AllDoneKeeps ==
  ASSUME HostInv, NEW w \in Worker, AllDone(w)
  PROVE  HostInv'
<1>1. Busy(w) /\ worker' = [worker EXCEPT ![w] = Idle] /\ UNCHANGED hosting
  BY DEF AllDone, At, Busy
<1>2. Idle \in WorkerType /\ Idle.stage = "idle" /\ Idle.todo = {}
  BY DEF Idle, WorkerType, Nothing
<1>3. Knows(w)'
  BY <1>1, <1>2 DEF HostInv, WorkerInv, Knows, Busy
<1>4. WorkerInv'
  BY <1>1, <1>2, <1>3, OneWorks
<1>5. venue' \in {venue, "up"} /\ handlingChange' \in BOOLEAN
  BY DEF AllDone
<1>6. HostingInv'
  BY <1>1, <1>5 DEF HostInv, HostingInv, HostingType, ActiveIsNamed, RoutesRun, hosting
<1>7. QED BY <1>4, <1>6 DEF HostInv

LEMMA CrashResets ==
  ASSUME HostInv, Crash
  PROVE  HostInv'
<1>1. Nothing \in [Project -> Version \cup {NoVersion}] /\ \A p \in Project : Nothing[p] = NoVersion
  BY DEF Nothing
<1>2. Idle \in WorkerType /\ Idle.stage = "idle" /\ Idle.todo = {}
  BY <1>1 DEF Idle, WorkerType
<1>3. worker' \in [Worker -> WorkerType] /\ \A w \in Worker : worker'[w] = Idle
  BY <1>2 DEF Crash
<1>4. OneWorker' /\ \A w \in Worker : Knows(w)'
  BY <1>2, <1>3 DEF OneWorker, Busy, Knows
<1>5. domains' = [d \in DomainName |-> NoUnit]
  BY DEF Crash, HostInv, HostingInv, HostingType
<1>6. HostingType'
  BY <1>1, <1>5 DEF Crash, HostingType
<1>7. ActiveIsNamed' /\ RoutesRun' /\ running' \subseteq active' /\ active' = {}
  BY <1>1, <1>5 DEF Crash, ActiveIsNamed, RoutesRun
<1>8. QED BY <1>3, <1>4, <1>6, <1>7 DEF HostInv, WorkerInv, HostingInv

\* What is not a step of the host.
LEMMA ElsewhereKeeps ==
  ASSUME HostInv, UNCHANGED <<venue, handlingChange, worker, hosting>>
  PROVE  HostInv'
  BY DEF HostInv, WorkerInv, OneWorker, Busy, Knows, Old, Inactive,
     HostingInv, HostingType, ActiveIsNamed, RoutesRun, hosting

LEMMA NextHost == UploadInv /\ HostInv /\ [Next]_vars => HostInv'
<1> SUFFICES ASSUME UploadInv, HostInv, [Next]_vars PROVE HostInv'
  OBVIOUS
<1>1. ASSUME NEW p \in PackageUpload, CreatePackage(p)
      PROVE  HostInv'
  BY <1>1, ElsewhereKeeps DEF CreatePackage
<1>2. ASSUME NEW c \in Call,
             \/ CreateDocument(c) \/ WriteFiles(c) \/ CreateFails(c)
             \/ \E u \in Upload : CreateProject(c, u) \/ RefuseProject(c, u)
      PROVE  HostInv'
  BY <1>2, ElsewhereKeeps DEF CreateDocument, WriteFiles, CreateFails, CreateProject, RefuseProject
<1>3. ASSUME NEW c \in Call, WriteConfig(c)
      PROVE  HostInv'
  BY <1>3, WriteConfigReaches
<1>4. CASE Crash
  BY <1>4, CrashResets
<1>5. CASE Setup \/ RunStarts \/ \E h \in Handler : HandleConfigChange(h)
  BY <1>5, BeginsKeep
<1>6. CASE IgnoreChange
  BY <1>6, ReloadKeeps DEF IgnoreChange
<1>7. ASSUME NEW p \in Project, Run1(p)
      PROVE  HostInv'
  BY <1>7, Run1Keeps
<1>8. ASSUME NEW h \in Handler, Link(h) \/ UnloadProject(h) \/ Unloaded(h) \/ \E p \in Project : Compare(h, p)
      PROVE  HostInv'
  BY <1>8, LinkKeeps, UnloadKeeps, UnloadedKeeps, CompareKeeps
<1>9. ASSUME NEW w \in Worker, LoadProject(w) \/ StartRunners(w) \/ AddRunner(w) \/ AllDone(w)
      PROVE  HostInv'
  BY <1>9, LoadKeeps, StartRunnersKeeps, AddRunnerKeeps, AllDoneKeeps
<1>10. ASSUME NEW w \in Worker, StepFails(w)
       PROVE  HostInv'
  <2>1. Busy(w) /\ Throws(w) /\ Serving /\ UNCHANGED <<handlingChange, hosting>>
    BY <1>10 DEF StepFails, Busy
  <2>2. QED BY <2>1, ThrowsKeeps
<1>11. CASE UNCHANGED vars
  BY <1>11, ElsewhereKeeps DEF vars
<1>12. QED BY <1>1, <1>2, <1>3, <1>4, <1>5, <1>6, <1>7, <1>8, <1>9, <1>10, <1>11 DEF Next

-----------------------------------------------------------------------------
(* The rest of the type *)

StoredType ==
  /\ packages \subseteq Project /\ docs \subseteq Unit /\ files \subseteq Unit
  /\ changed \in BOOLEAN

LEMMA NextStored == StoredType /\ UploadInv /\ [Next]_vars => StoredType'
<1> SUFFICES ASSUME StoredType, UploadInv, [Next]_vars PROVE StoredType'
  OBVIOUS
<1>1. ASSUME NEW p \in PackageUpload, CreatePackage(p)
      PROVE  StoredType'
  BY <1>1 DEF CreatePackage, PackageUpload, StoredType
<1>2. ASSUME NEW c \in Call, CreateFails(c) \/ \E u \in Upload : CreateProject(c, u) \/ RefuseProject(c, u)
      PROVE  StoredType'
  BY <1>2 DEF CreateFails, CreateProject, RefuseProject, StoredType, stored
<1>3. ASSUME NEW c \in Call, CreateDocument(c) \/ WriteFiles(c)
      PROVE  StoredType'
  <2>1. call[c].unit \in Unit
    BY <1>3, GenuineUnits DEF CreateDocument, WriteFiles, CallAt, UploadInv, UploadsAreStored
  <2>2. QED BY <1>3, <2>1 DEF CreateDocument, WriteFiles, StoredType
<1>4. ASSUME NEW c \in Call, WriteConfig(c)
      PROVE  StoredType'
  BY <1>4 DEF WriteConfig, StoredType, stored
<1>5. CASE Setup \/ RunStarts \/ IgnoreChange \/ Crash \/ \E p \in Project : Run1(p)
  BY <1>5 DEF Setup, RunStarts, IgnoreChange, Crash, Run1, StoredType, stored
<1>6. ASSUME NEW h \in Handler,
             \/ HandleConfigChange(h) \/ Link(h) \/ UnloadProject(h) \/ Unloaded(h)
             \/ \E p \in Project : Compare(h, p)
      PROVE  StoredType'
  BY <1>6 DEF HandleConfigChange, Link, UnloadProject, Unloaded, Compare, StoredType, stored
<1>7. ASSUME NEW w \in Worker,
             LoadProject(w) \/ StartRunners(w) \/ AddRunner(w) \/ AllDone(w) \/ StepFails(w)
      PROVE  StoredType'
  BY <1>7 DEF LoadProject, StartRunners, AddRunner, AllDone, StepFails, StoredType, stored
<1>8. CASE UNCHANGED vars
  BY <1>8 DEF vars, StoredType, stored
<1>9. QED BY <1>1, <1>2, <1>3, <1>4, <1>5, <1>6, <1>7, <1>8 DEF Next

-----------------------------------------------------------------------------
(* The parties the router knows *)

\* A handler stops this version, or gave up while it did.
Stopping(h, u) == worker[h].stage \in {"stopping", "failed"} /\ Old(h) = u

\* A party's entry leads to a version of its project that runs or is stopped.
PartiesLead ==
  \A p \in Project : hosts[p] # NoUnit =>
    /\ hosts[p][1] = p
    /\ hosts[p] \in running \/ \E h \in Handler : Stopping(h, hosts[p])

\* A step that stops nothing, and leaves the handlers that do at it.
LEMMA NothingStops ==
  ASSUME PartiesLead, running \subseteq running',
         \A p \in Project : hosts'[p] \in {hosts[p], NoUnit},
         \A h \in Handler : worker[h].stage \in {"stopping", "failed"} =>
           worker'[h].stage \in {"stopping", "failed"} /\ Old(h)' = Old(h)
  PROVE  PartiesLead'
<1> SUFFICES ASSUME NEW p \in Project, hosts'[p] # NoUnit
             PROVE  /\ hosts'[p][1] = p
                    /\ hosts'[p] \in running' \/ \E h \in Handler : Stopping(h, hosts[p])'
  BY DEF PartiesLead
<1>1. hosts'[p] = hosts[p] /\ hosts[p][1] = p
  BY DEF PartiesLead
<1>2. CASE hosts[p] \in running
  BY <1>1, <1>2
<1>3. ASSUME NEW h \in Handler, Stopping(h, hosts[p])
      PROVE  Stopping(h, hosts[p])'
  BY <1>1, <1>3 DEF Stopping
<1>4. QED BY <1>1, <1>2, <1>3 DEF PartiesLead

\* The step of a worker that stops nothing.
LEMMA OthersStop ==
  ASSUME PartiesLead, running \subseteq running', UNCHANGED hosts, HostInv, NEW w \in Worker,
         worker[w].stage \notin {"stopping", "failed"},
         \A x \in Worker \ {w} : worker'[x] = worker[x]
  PROVE  PartiesLead'
<1>1. \A h \in Handler : worker[h].stage \in {"stopping", "failed"} => worker'[h] = worker[h]
  BY DEF Worker
<1>2. QED BY <1>1, NothingStops DEF Old

\* The routed version that is stopped is the one its handler stops.
LEMMA UnloadLeads ==
  ASSUME PartiesLead, HostInv, NEW h \in Handler, UnloadProject(h)
  PROVE  PartiesLead'
<1>1. /\ h \in Worker /\ worker[h].stage = "unload" /\ running' = running \ {Old(h)} /\ UNCHANGED hosts
      /\ Old(h) \in active => Goes(h, "stopping")
  BY DEF UnloadProject, At, Worker
<1>2. \A x \in Handler \ {h} : worker'[x] = worker[x]
  BY DEF UnloadProject, Goes, HostInv, WorkerInv, Worker
<1>3. Old(h) \in active => worker'[h].stage = "stopping" /\ Old(h)' = Old(h)
  BY <1>1 DEF Goes, HostInv, WorkerInv, WorkerType, Old
<1>4. running \subseteq active
  BY DEF HostInv, HostingInv
<1>5. ASSUME NEW p \in Project, hosts[p] # NoUnit
      PROVE  hosts[p] \in running' \/ \E x \in Handler : Stopping(x, hosts[p])'
  <2>1. CASE hosts[p] \in running
    <3>1. CASE hosts[p] # Old(h)
      BY <1>1, <2>1, <3>1
    <3>2. CASE hosts[p] = Old(h)
      BY <1>1, <1>3, <1>4, <2>1, <3>2 DEF Stopping
    <3>3. QED BY <3>1, <3>2
  <2>2. ASSUME NEW x \in Handler, Stopping(x, hosts[p])
        PROVE  Stopping(x, hosts[p])'
    BY <1>1, <1>2, <2>2 DEF Stopping, Old
  <2>3. QED BY <1>5, <2>1, <2>2 DEF PartiesLead
<1>6. QED BY <1>1, <1>5 DEF PartiesLead, Stopping, Old

\* When a party has stopped, its entry goes with it.
LEMMA UnloadedLeads ==
  ASSUME PartiesLead, HostInv, NEW h \in Handler, Unloaded(h)
  PROVE  PartiesLead'
<1> DEFINE p == worker[h].unit[1]
<1>1. /\ hosts' = [hosts EXCEPT ![p] = NoUnit] /\ UNCHANGED running
      /\ \A x \in Handler \ {h} : worker'[x] = worker[x]
  BY DEF Unloaded, removeRunnerByHostIdentity, Goes, HostInv, WorkerInv, Worker
<1>2. Old(h)[1] = p
  BY DEF Old
<1>3. hosts'[p] = NoUnit \/ p \notin Project
  BY <1>1 DEF HostInv, HostingInv, HostingType, Party
<1>4. ASSUME NEW q \in Project, hosts'[q] # NoUnit
      PROVE  /\ hosts'[q][1] = q
             /\ hosts'[q] \in running' \/ \E x \in Handler : Stopping(x, hosts[q])'
  <2>1. q # p /\ hosts'[q] = hosts[q]
    BY <1>1, <1>3, <1>4 DEF HostInv, HostingInv, HostingType, Party
  <2>2. hosts[q][1] = q /\ Old(h) # hosts[q]
    BY <1>2, <1>4, <2>1 DEF PartiesLead
  <2>3. ASSUME NEW x \in Handler, Stopping(x, hosts[q])
        PROVE  Stopping(x, hosts[q])'
    <3>1. x # h
      BY <2>2, <2>3 DEF Stopping
    <3>2. QED BY <1>1, <2>1, <2>3, <3>1 DEF Stopping, Old
  <2>4. QED BY <1>1, <1>4, <2>1, <2>2, <2>3 DEF PartiesLead
<1>5. QED BY <1>4 DEF PartiesLead

\* What is routed was started just before.
LEMMA AddRunnerLeads ==
  ASSUME PartiesLead, HostInv, NEW w \in Worker, AddRunner(w)
  PROVE  PartiesLead'
<1> DEFINE u == worker[w].unit
<1>1. /\ worker[w].stage = "routing" /\ u \in Unit /\ u \in running /\ UNCHANGED running
      /\ hosts' = [hosts EXCEPT ![PartyOf(u)] = IF hosts[PartyOf(u)] = NoUnit THEN u ELSE hosts[PartyOf(u)]]
      /\ \A x \in Handler \ {w} : worker'[x] = worker[x]
  BY DEF AddRunner, addRunner, NextProject, At, Knows, HostInv, WorkerInv, Worker
<1>2. ASSUME NEW p \in Project, hosts'[p] # NoUnit
      PROVE  /\ hosts'[p][1] = p
             /\ hosts'[p] \in running' \/ \E x \in Handler : Stopping(x, hosts[p])'
  <2>1. CASE p = PartyOf(u) /\ hosts'[p] = u
    <3>1. u[1] = p
      BY <2>1, VenueAssumption DEF PartyOf
    <3>2. QED BY <1>1, <2>1, <3>1
  <2>2. CASE hosts'[p] = hosts[p]
    <3>1. ASSUME NEW x \in Handler, Stopping(x, hosts[p])
          PROVE  Stopping(x, hosts[p])'
      BY <1>1, <2>2, <3>1 DEF Stopping, Old
    <3>2. QED BY <1>1, <1>2, <2>2, <3>1 DEF PartiesLead
  <2>3. QED BY <1>1, <2>1, <2>2 DEF HostInv, HostingInv, HostingType, Party
<1>3. QED BY <1>2 DEF PartiesLead

\* A failure leaves the worker where it was.
LEMMA ThrowsLeads ==
  ASSUME PartiesLead, HostInv, NEW w \in Worker, Throws(w), UNCHANGED hosting
  PROVE  PartiesLead'
<1>1. \A x \in Worker : Old(x)' = Old(x) /\ worker'[x].stage \in {worker[x].stage, "failed"}
  BY DEF Throws, Goes, HostInv, WorkerInv, WorkerType, Old
<1>2. QED BY <1>1, NothingStops DEF hosting, Worker

\* Uploads and reloads leave the workers at their steps.
LEMMA ConfigLeads ==
  ASSUME PartiesLead, HostInv, IgnoreChange \/ \E c \in Call : WriteConfig(c)
  PROVE  PartiesLead'
<1>1. UNCHANGED hosting
  BY DEF IgnoreChange, WriteConfig
<1>2. ASSUME NEW x \in Worker
      PROVE  worker'[x].stage = worker[x].stage /\ Old(x)' = Old(x)
  <2>1. worker[x] \in WorkerType
    BY DEF HostInv, WorkerInv
  <2>2. CASE IgnoreChange
    BY <2>1, <2>2 DEF IgnoreChange, Reload, WorkerType, Old
  <2>3. ASSUME NEW c \in Call, WriteConfig(c)
        PROVE  worker'[x].stage = worker[x].stage /\ Old(x)' = Old(x)
    BY <2>1, <2>3 DEF WriteConfig, WorkerType, Old
  <2>4. QED BY <2>2, <2>3
<1>3. QED BY <1>1, <1>2, NothingStops DEF hosting, Worker

LEMMA NextLeads == HostInv /\ PartiesLead /\ [Next]_vars => PartiesLead'
<1> SUFFICES ASSUME HostInv, PartiesLead, [Next]_vars PROVE PartiesLead'
  OBVIOUS
<1>1. ASSUME UNCHANGED <<worker, hosting>>
      PROVE  PartiesLead'
  BY <1>1, NothingStops DEF hosting, Old
<1>2. CASE \/ Setup \/ \E p \in PackageUpload : CreatePackage(p)
           \/ \E c \in Call : \/ CreateDocument(c) \/ WriteFiles(c) \/ CreateFails(c)
                              \/ \E u \in Upload : CreateProject(c, u) \/ RefuseProject(c, u)
  <2>1. UNCHANGED <<worker, hosting>>
    BY <1>2 DEF Setup, CreatePackage, CreateDocument, WriteFiles, CreateFails, CreateProject, RefuseProject
  <2>2. QED BY <1>1, <2>1
<1>3. CASE IgnoreChange \/ \E c \in Call : WriteConfig(c)
  BY <1>3, ConfigLeads
<1>4. CASE Crash
  BY <1>4 DEF Crash, PartiesLead, Party
<1>5. CASE RunStarts \/ \E p \in Project : Run1(p)
  <2>1. UNCHANGED hosting /\ \A h \in Handler : worker'[h] = worker[h]
    BY <1>5, VenueAssumption DEF RunStarts, Run1, Reads, HostInv, WorkerInv, Worker
  <2>2. QED BY <2>1, NothingStops DEF hosting, Old
<1>6. ASSUME NEW h \in Handler, HandleConfigChange(h)
      PROVE  PartiesLead'
  BY <1>6, OthersStop DEF HandleConfigChange, Reads, hosting, HostInv, WorkerInv, Worker
<1>7. ASSUME NEW h \in Handler, Link(h) \/ \E p \in Project : Compare(h, p)
      PROVE  PartiesLead'
  <2>1. /\ UNCHANGED hosting /\ worker[h].stage \in {"link", "next"} /\ h \in Worker
        /\ \A x \in Worker \ {h} : worker'[x] = worker[x]
    BY <1>7 DEF Link, Compare, At, Goes, Throws, HostInv, WorkerInv, Worker
  <2>2. QED BY <2>1, OthersStop DEF hosting
<1>8. ASSUME NEW h \in Handler, UnloadProject(h) \/ Unloaded(h)
      PROVE  PartiesLead'
  BY <1>8, UnloadLeads, UnloadedLeads
<1>9. ASSUME NEW w \in Worker, LoadProject(w) \/ StartRunners(w) \/ AllDone(w)
      PROVE  PartiesLead'
  <2>1. /\ UNCHANGED hosts /\ running \subseteq running' /\ worker[w].stage \in {"load", "starting", "next"}
        /\ \A x \in Worker \ {w} : worker'[x] = worker[x]
    BY <1>9 DEF LoadProject, StartRunners, AllDone, At, Goes, NextProject, Throws, hosting, HostInv, WorkerInv
  <2>2. QED BY <2>1, OthersStop
<1>10. ASSUME NEW w \in Worker, AddRunner(w) \/ StepFails(w)
       PROVE  PartiesLead'
  BY <1>10, AddRunnerLeads, ThrowsLeads DEF StepFails
<1>11. CASE UNCHANGED vars
  BY <1>1, <1>11 DEF vars
<1>12. QED BY <1>2, <1>3, <1>4, <1>5, <1>6, <1>7, <1>8, <1>9, <1>10, <1>11 DEF Next

-----------------------------------------------------------------------------
(* Theorems *)

IInv == StoredType /\ UploadInv /\ HostInv /\ PartiesLead

\* The inductive invariant of uploads, workers and router holds in every state.
THEOREM VenueInvariant == Spec => []IInv
<1>1. Init => IInv
  BY InitUploads, InitHost DEF IInv, Init, StoredType, PartiesLead, Party
<1>2. IInv /\ [Next]_vars => IInv'
  BY NextStored, NextUploads, NextHost, NextLeads DEF IInv
<1>3. QED BY <1>1, <1>2, PTL DEF Spec

\* Type correctness: every variable of the venue stays in its type, and what
\* runs is active.
THEOREM VenueTypeOK == Spec => []TypeOK
<1>1. IInv => TypeOK
  <2>1. ASSUME IInv, NEW w \in Worker
        PROVE  worker[w] \in WorkerType
    BY <2>1 DEF IInv, HostInv, WorkerInv
  <2>2. QED BY <2>1 DEF IInv, StoredType, UploadInv, UploadType, HostInv, HostingInv, HostingType,
                        WorkerType, TypeOK
<1>2. QED BY <1>1, VenueInvariant, PTL

\* What is configured was stored before, and signed for this venue
\* (create-project.js:214-370), also after a crash between any two steps.
THEOREM VenueConfiguredIsStored == Spec => []ConfiguredIsStored
<1>1. IInv => ConfiguredIsStored BY DEF IInv, UploadInv
<1>2. QED BY <1>1, VenueInvariant, PTL

\* One version of a project is active at a time (venued-host.js:472-530).
THEOREM VenueOneVersionActive == Spec => []OneVersionActive
<1>1. ASSUME IInv, NEW p \in Project
      PROVE  Cardinality({v \in Version : <<p, v>> \in active}) <= 1
  <2> DEFINE S == {v \in Version : <<p, v>> \in active}
  <2>1. S \subseteq {byName[p]}
    BY <1>1 DEF IInv, HostInv, HostingInv, ActiveIsNamed
  <2>2. S = {} \/ S = {byName[p]}
    BY <2>1
  <2>3. Cardinality({}) = 0 /\ Cardinality({byName[p]}) = 1
    BY FS_EmptySet, FS_Singleton
  <2>4. Cardinality(S) = 0 \/ Cardinality(S) = 1
    BY <2>2, <2>3
  <2> HIDE DEF S
  <2>5. Cardinality(S) <= 1
    BY <2>4
  <2>6. QED BY <2>5 DEF S
<1>2. IInv => OneVersionActive
  BY <1>1 DEF OneVersionActive
<1>3. QED BY <1>2, VenueInvariant, PTL

\* A domain leads to a version that runs, and a project's party to one that runs
\* or that a handler is stopping or failed to stop (runner-router.js,
\* venued-host.js:524-859), for any projects, domains, routes on the SYSTEM party,
\* overlapping changes, failures and crashes.
THEOREM VenueRoutedIsRunning == Spec => []RoutedIsRunning
<1>1. ASSUME IInv
      PROVE  RoutedIsRunning
  <2>1. RoutesRun /\ PartiesLead
    BY <1>1 DEF IInv, HostInv, HostingInv
  <2>2. QED BY <2>1 DEF RoutesRun, PartiesLead, Stopping, RoutedIsRunning, getRunnerByDomain,
                        getRunnerByHostIdentity
<1>2. QED BY <1>1, VenueInvariant, PTL
=============================================================================

-------------------------- MODULE SecureConfigProofs --------------------------
(* What holds of a secure config for any tasks, keys and options: only an unlock
   that fails leaves it without a timer, who waits has the application asked,
   and, in an application that unlocks what it finds locked and waits for the
   end of it, it locks itself again, an unlock unlocks, and memory and store
   agree when nothing is under way. *)

EXTENDS SecureConfig, TLAPS

TaskRecord ==
  [ op   : {"read", "write", "right", "wrong"} \cup Settings \cup Replacing,
    key  : Key \cup {None},
    step : Step,
    data : Data \cup {None} ]

\* One set-up at a time; before the end of the first nothing is stored, and
\* what is not stored is nowhere.  Only a password opens a config.
SetUpOnce ==
  /\ \A t \in Setting : /\ stored = None /\ task[t].op \in {"password", "key"}
                        /\ At(t, "setting") <=> settings = "none"
  /\ \A t, u \in Setting : t = u
  /\ settings = "none" => stored = None
  /\ stored = None => content = None /\ ~identity /\ \A t \in Task : task[t].data = None
  /\ identity => settings = "password"

\* What a task has behind it.
TasksKnow ==
  \A t \in Task :
     /\ task[t].step \in {"decrypting", "encrypting", "verifying"} => task[t].data # None
     /\ task[t].step \in {"fetching", "verifying"} /\ task[t].op = "right" => settings = "password"

\* Somebody has changed the content and is going to save it.
WaitsInSave == \E t \in Task : At(t, "waiting in save")
ReleasedInSave == \E t \in Task : At(t, "released in save")

\* An application that only unlocks, and one unlock at a time, leaves no stray
\* timers, and an unlock meets neither an identity nor anybody who was woken.
Calm ==
  /\ strays = 0
  /\ timer => identity
  /\ Timed /\ identity => timer
  /\ identity => content # None
  /\ identity => \A t \in Task : task[t].step \notin {"deriving", "fetching", "verifying"}
  /\ \A t, u \in Unlocking : t = u
  /\ \A t \in Task : task[t].step \in Released => identity
  /\ \A t \in Task : At(t, "fetching") /\ task[t].data # None => task[t].data = stored
  /\ \A t \in Task : At(t, "verifying") => content # None /\ (content = stored \/ WaitsInSave)
  /\ identity => content = stored \/ ReleasedInSave

CInv ==
  /\ TypeOK /\ SetUpOnce /\ TasksKnow /\ BlockedIsWaiting
  /\ ~anytime => Calm

USE DEF At, Waiting, Released, Setting, Unlocking

-----------------------------------------------------------------------------
(* Steps of one task *)

LEMMA NoDataIsData == NoData \in Data /\ NoData # None /\ None \notin Data
  BY SecureConfigAssumption DEF NoData, Data

LEMMA InitCInv == Init => CInv
<1> SUFFICES ASSUME Init PROVE CInv
  OBVIOUS
<1>1. Stands("idle") \in TaskRecord /\ Stands("idle").step = "idle" /\ Stands("idle").data = None
  BY DEF Stands, TaskRecord, Step, Settings
<1>2. \A t \in Task : task[t] = Stands("idle")
  BY DEF Init
<1>3. TypeOK
  BY <1>1, NoDataIsData, SecureConfigAssumption DEF Init, TypeOK, TaskRecord
<1>4. SetUpOnce
  BY <1>1, <1>2, NoDataIsData DEF Init, SetUpOnce
<1>5. TasksKnow /\ BlockedIsWaiting
  BY <1>1, <1>2 DEF Init, TasksKnow, BlockedIsWaiting
<1>6. Calm
  BY <1>1, <1>2 DEF Init, Calm
<1> QED
  BY <1>3, <1>4, <1>5, <1>6 DEF CInv

LEMMA OneTask ==
  ASSUME TypeOK, NEW t \in Task, NEW rec \in TaskRecord, task' = [task EXCEPT ![t] = rec]
  PROVE  /\ task' \in [Task -> TaskRecord]
         /\ task'[t] = rec /\ \A u \in Task : u # t => task'[u] = task[u]
  BY DEF TypeOK, TaskRecord

\* The timer is as it was, or started anew.
LEMMA TimerAnew ==
  ASSUME TypeOK, NEW locked \in BOOLEAN, UpdateTimeout(locked)
  PROVE  /\ timer' \in BOOLEAN
         /\ timer' = timer \/ timer' = Timed
  BY SecureConfigAssumption DEF UpdateTimeout, TypeOK

LEMMA TimerStays ==
  ASSUME TypeOK, timer' = timer \/ timer' = Timed, identity' = identity,
         Timed /\ identity => timer
  PROVE  Timed /\ identity' => timer'
<1>1. Timed \in BOOLEAN /\ timer \in BOOLEAN
  BY SecureConfigAssumption DEF TypeOK
<1> QED
  BY <1>1

\* A step of a task that neither sets up, unlocks nor saves.
Quiet == {"idle", "done", "failed", "decrypting", "encrypting", "waiting", "waiting in readAll",
          "released", "released in readAll"}

LEMMA QuietKeeps ==
  ASSUME CInv, NEW t \in Task, NEW rec \in TaskRecord, task' = [task EXCEPT ![t] = rec],
         UNCHANGED <<setupVars, stored, content, identity, strays>>,
         timer' \in BOOLEAN, timer' = timer \/ timer' = Timed,
         ~anytime => timer' = timer \/ identity,
         task[t].step \in Quiet \ Waiting, rec.step \in Quiet \ Released,
         rec.data # None => stored # None,
         rec.step \in {"decrypting", "encrypting"} => rec.data # None,
         blocked' = (blocked \/ rec.step \in Waiting)
  PROVE  CInv'
<1> USE DEF CInv, setupVars, Quiet
<1>1. /\ task' \in [Task -> TaskRecord]
      /\ task'[t] = rec /\ \A u \in Task : u # t => task'[u] = task[u]
  BY OneTask
<1>2. TypeOK'
  BY <1>1 DEF TypeOK, TaskRecord
<1>3. SetUpOnce'
  <2>1. \A u \in Setting' : u # t /\ u \in Setting /\ task'[u] = task[u]
    BY <1>1
  <2>2. stored = None => \A u \in Task : task'[u].data = None
    BY <1>1 DEF SetUpOnce
  <2> HIDE DEF Setting
  <2> QED
    BY <2>1, <2>2 DEF SetUpOnce
<1>4. TasksKnow'
  BY <1>1 DEF TasksKnow
<1>6. BlockedIsWaiting'
  BY <1>1 DEF BlockedIsWaiting
<1>7. ~anytime' => Calm'
  <2> SUFFICES ASSUME ~anytime PROVE Calm'
    OBVIOUS
  <2>1. Calm
    OBVIOUS
  <2>2. (WaitsInSave => WaitsInSave') /\ (ReleasedInSave => ReleasedInSave')
    BY <1>1 DEF WaitsInSave, ReleasedInSave
  <2>3. \A u \in Unlocking' : u # t /\ u \in Unlocking
    BY <1>1
  <2>4. \A u \in Task : /\ task'[u].step \in Released \cup {"fetching", "verifying", "deriving"} => task'[u] = task[u]
    BY <1>1
  <2>5. Timed /\ identity' => timer'
    BY <2>1, TimerStays DEF Calm
  <2> HIDE DEF Unlocking, Quiet
  <2> QED
    BY <2>1, <2>2, <2>3, <2>4, <2>5 DEF Calm
<1> QED
  BY <1>2, <1>3, <1>4, <1>6, <1>7

LEMMA CallKeeps ==
  ASSUME CInv, UNCHANGED setupVars, NEW t \in Task, NEW k \in Key \cup {None},
         NEW op \in {"read", "write"} \cup Replacing, Call(t, op, k)
  PROVE  CInv'
<1>1. /\ task[t] \in TaskRecord /\ task[t].step = "idle" /\ task \in [Task -> TaskRecord]
      /\ timer \in BOOLEAN /\ blocked \in BOOLEAN
      /\ UNCHANGED <<setupVars, stored, content, identity, strays>>
  BY DEF TypeOK, TaskRecord, CInv, Call
<1>2. task[t].data # None => stored # None
  BY DEF CInv, SetUpOnce
<1>3. CASE Locked
  <2> DEFINE rec == [task[t] EXCEPT !.op = op, !.key = k, !.step = "waiting"]
  <2>1. rec \in TaskRecord /\ rec.step = "waiting" /\ rec.data = task[t].data
    BY <1>1 DEF TaskRecord, Step
  <2>2. task' = [task EXCEPT ![t].op = op, ![t].key = k, ![t].step = "waiting"]
    BY <1>3 DEF Call
  <2>3. task' = [task EXCEPT ![t] = rec]
    BY <1>1, <2>2
  <2>4. timer' = timer /\ blocked' = TRUE
    BY <1>3 DEF Call
  <2> HIDE DEF rec
  <2> QED
    BY <1>1, <1>2, <2>1, <2>3, <2>4, QuietKeeps DEF Quiet
<1>4. CASE ~Locked
  <2> DEFINE rec == IF op \in Replacing
                    THEN [op |-> op, key |-> k, step |-> "encrypting", data |-> Instead(t, op)]
                    ELSE [op |-> op, key |-> k, step |-> "decrypting", data |-> content]
  <2>1. content \in Data /\ content # None /\ identity
    BY <1>4 DEF Locked, TypeOK, CInv
  <2>2. Instead(t, op) \in Data /\ Instead(t, op) # None
    BY SecureConfigAssumption DEF Instead, Data
  <2>3. rec \in TaskRecord /\ rec.step \in {"encrypting", "decrypting"} /\ rec.data # None
    BY <2>1, <2>2 DEF TaskRecord, Step
  <2>4. task' = [task EXCEPT ![t] = rec] /\ UpdateTimeout(Locked) /\ blocked' = blocked
    BY <1>4 DEF Call
  <2>5. stored # None
    BY <2>1 DEF SetUpOnce, CInv
  <2>6. Locked \in BOOLEAN /\ TypeOK
    BY <1>4 DEF CInv, Locked
  <2>7. timer' \in BOOLEAN /\ (timer' = timer \/ timer' = Timed)
    BY <2>4, <2>6, TimerAnew
  <2>8. blocked' = (blocked \/ rec.step \in Waiting)
    BY <1>1, <2>3, <2>4
  <2> HIDE DEF rec
  <2> QED
    BY <1>1, <2>1, <2>3, <2>4, <2>5, <2>7, <2>8, QuietKeeps DEF Quiet
<1> QED
  BY <1>3, <1>4

\* Those whom the unlocked event woke.
LEMMA Woken ==
  ASSUME CInv, NEW t \in Task, task[t].step \in Released, NEW locked \in BOOLEAN,
         UpdateTimeout(locked)
  PROVE  /\ timer' \in BOOLEAN /\ (timer' = timer \/ timer' = Timed)
         /\ ~anytime => identity /\ content # None
         /\ task[t] \in TaskRecord
         /\ ~Locked => content \in Data /\ content # None /\ stored # None
         /\ identity => stored # None
  BY TimerAnew DEF CInv, Calm, TypeOK, TaskRecord, Locked, SetUpOnce

LEMMA ResumeReplaceKeeps ==
  ASSUME CInv, UNCHANGED setupVars, NEW t \in Task, ResumeReplace(t)
  PROVE  CInv'
<1> DEFINE rec == IF identity
                  THEN [task[t] EXCEPT !.step = "encrypting", !.data = Instead(t, task[t].op)]
                  ELSE Stands("failed")
<1>1. task[t].step = "released" /\ UpdateTimeout(Locked) /\ Locked \in BOOLEAN
  BY DEF ResumeReplace, Locked, CInv, TypeOK
<1>2. /\ timer' \in BOOLEAN /\ (timer' = timer \/ timer' = Timed)
      /\ ~anytime => identity
      /\ task[t] \in TaskRecord /\ (identity => stored # None)
  BY <1>1, Woken
<1>3. Instead(t, task[t].op) \in Data /\ Instead(t, task[t].op) # None
  BY SecureConfigAssumption DEF Instead, Data
<1>4. /\ rec \in TaskRecord /\ rec.step \in {"encrypting", "failed"}
      /\ rec.data # None => identity
      /\ rec.step = "encrypting" => rec.data # None
  BY <1>2, <1>3 DEF TaskRecord, Step, Stands, Settings
<1>5. task' = [task EXCEPT ![t] = rec]
  BY DEF ResumeReplace
<1> HIDE DEF rec
<1> QED
  BY <1>1, <1>2, <1>4, <1>5, QuietKeeps DEF ResumeReplace, Quiet, CInv, TypeOK

LEMMA ResumeKeeps ==
  ASSUME CInv, UNCHANGED setupVars, NEW t \in Task, Resume(t) \/ ResumeReadAll(t)
  PROVE  CInv'
<1>1. task[t].step \in {"released", "released in readAll"} /\ UpdateTimeout(Locked) /\ Locked \in BOOLEAN
  BY DEF Resume, ResumeReadAll, Decrypt, Locked, CInv, TypeOK
<1>2. /\ timer' \in BOOLEAN /\ (timer' = timer \/ timer' = Timed)
      /\ ~anytime => identity
      /\ task[t] \in TaskRecord
      /\ ~Locked => content \in Data /\ content # None /\ stored # None
  BY <1>1, Woken
<1>3. task[t].data # None => stored # None
  BY DEF CInv, SetUpOnce
<1>4. UNCHANGED <<setupVars, stored, content, identity, strays>>
  BY DEF Resume, ResumeReadAll
<1>5. PICK rec \in TaskRecord :
        /\ task' = [task EXCEPT ![t] = rec]
        /\ rec.step \in {"waiting in readAll", "failed", "decrypting"}
        /\ rec.data # None => stored # None
        /\ rec.step = "decrypting" => rec.data # None
        /\ blocked' = (blocked \/ rec.step \in Waiting)
  <2>1. CASE ~Locked
    <3> DEFINE rec == [task[t] EXCEPT !.step = "decrypting", !.data = content]
    <3>1. rec \in TaskRecord /\ rec.step = "decrypting" /\ rec.data = content
      BY <1>2, <2>1 DEF TaskRecord, Step
    <3>2. task' = [task EXCEPT ![t] = rec] /\ blocked' = blocked
      BY <2>1 DEF Resume, ResumeReadAll, Decrypt
    <3>3. blocked \in BOOLEAN
      BY DEF CInv, TypeOK
    <3> QED
      BY <1>2, <2>1, <3>1, <3>2, <3>3
  <2>2. CASE Locked /\ Resume(t)
    <3> DEFINE rec == [task[t] EXCEPT !.step = "waiting in readAll"]
    <3>1. rec \in TaskRecord /\ rec.step = "waiting in readAll" /\ rec.data = task[t].data
      BY <1>2 DEF TaskRecord, Step
    <3>2. task' = [task EXCEPT ![t] = rec] /\ blocked' = TRUE
      BY <2>2 DEF Resume, Waits, Goes
    <3> QED
      BY <1>3, <3>1, <3>2
  <2>3. CASE Locked /\ ResumeReadAll(t)
    <3>1. Stands("failed") \in TaskRecord /\ Stands("failed").step = "failed" /\ Stands("failed").data = None
      BY DEF TaskRecord, Step, Stands, Settings
    <3>2. task' = [task EXCEPT ![t] = Stands("failed")] /\ blocked' = blocked
      BY <2>3 DEF ResumeReadAll, Ends
    <3>3. blocked \in BOOLEAN
      BY DEF CInv, TypeOK
    <3> QED
      BY <3>1, <3>2, <3>3
  <2> QED
    BY <2>1, <2>2, <2>3
<1> QED
  BY <1>1, <1>2, <1>4, <1>5, QuietKeeps DEF Quiet

LEMMA GetReadKeeps ==
  ASSUME CInv, UNCHANGED setupVars, NEW t \in Task, GetRead(t) \/ Encrypt(t)
  PROVE  CInv'
<1>1. /\ task[t].step = "decrypting" /\ task[t] \in TaskRecord /\ task[t].data # None
      /\ timer \in BOOLEAN /\ blocked \in BOOLEAN
      /\ UNCHANGED <<stored, lockVars, blocked>>
  BY DEF GetRead, Encrypt, CInv, TypeOK, TaskRecord, TasksKnow
<1>2. stored # None
  BY <1>1 DEF CInv, SetUpOnce
<1>3. PICK rec \in TaskRecord : /\ task' = [task EXCEPT ![t] = rec]
                                /\ rec.step \in {"done", "failed", "encrypting"}
                                /\ rec.step = "encrypting" => rec.data # None
  <2>1. CASE Encrypt(t) /\ identity
    <3> DEFINE data == [task[t].data EXCEPT ![task[t].key] = t]
               rec == [task[t] EXCEPT !.step = "encrypting", !.data = data]
    <3>1. data \in Data /\ data # None
      <4>1. task[t].data \in [Key -> Task \cup {None}]
        BY <1>1 DEF TaskRecord, Data
      <4>2. data \in [Key -> Task \cup {None}]
        BY <4>1
      <4> QED
        BY <4>2, SecureConfigAssumption DEF Data
    <3>2. task' = [task EXCEPT ![t] = rec]
      BY <2>1 DEF Encrypt
    <3> HIDE DEF data
    <3>3. rec \in TaskRecord /\ rec.step = "encrypting" /\ rec.data = data
      BY <1>1, <3>1 DEF TaskRecord, Step
    <3> QED
      BY <3>1, <3>2, <3>3
  <2>2. CASE ~(Encrypt(t) /\ identity)
    <3>1. \A how \in {"done", "failed"} : Stands(how) \in TaskRecord /\ Stands(how).step = how
      BY DEF TaskRecord, Step, Stands, Settings
    <3>2. \E how \in {"done", "failed"} : task' = [task EXCEPT ![t] = Stands(how)]
      BY <2>2 DEF GetRead, Encrypt, Ends
    <3> QED
      BY <3>1, <3>2
  <2> QED
    BY <2>1, <2>2
<1> QED
  BY <1>1, <1>2, <1>3, QuietKeeps DEF Quiet, lockVars

-----------------------------------------------------------------------------
(* Set-ups *)

\* The end of a task.
LEMMA StandsIsRecord ==
  ASSUME NEW how \in {"done", "failed"}
  PROVE  /\ Stands(how) \in TaskRecord
         /\ Stands(how).step = how /\ Stands(how).op = "none" /\ Stands(how).data = None
  BY DEF TaskRecord, Step, Stands, Settings

\* A record with a new step, and what changes with it.
LEMMA WithStep ==
  ASSUME TypeOK, NEW t \in Task, NEW step \in Step
  PROVE  /\ task \in [Task -> TaskRecord] /\ task[t] \in TaskRecord
         /\ [task[t] EXCEPT !.step = step] \in TaskRecord
         /\ [task EXCEPT ![t].step = step] = [task EXCEPT ![t] = [task[t] EXCEPT !.step = step]]
  BY DEF TypeOK, TaskRecord

LEMMA SetUpKeeps ==
  ASSUME CInv, Setting = {}, NEW t \in Task, NEW type \in {"password", "key"}, SetUp(t, type)
  PROVE  CInv'
<1>1. /\ task \in [Task -> TaskRecord] /\ task[t] \in TaskRecord /\ task[t].step = "idle"
      /\ timer \in BOOLEAN /\ blocked \in BOOLEAN
      /\ UNCHANGED <<setupVars, stored, lockVars, blocked>>
  BY DEF TypeOK, TaskRecord, CInv, SetUp
<1>2. CASE isInitialized
  <2>1. task' = [task EXCEPT ![t] = Stands("failed")]
    BY <1>2 DEF SetUp, Ends
  <2> QED
    BY <1>1, <2>1, StandsIsRecord, QuietKeeps DEF Quiet, lockVars
<1>3. CASE ~isInitialized
  <2> DEFINE rec == [task[t] EXCEPT !.op = type, !.step = "setting"]
  <2>1. rec \in TaskRecord /\ rec.step = "setting" /\ rec.op = type /\ rec.data = task[t].data
    BY <1>1 DEF TaskRecord, Step, Settings
  <2>2. task' = [task EXCEPT ![t].op = type, ![t].step = "setting"]
    BY <1>3 DEF SetUp
  <2>3. task' = [task EXCEPT ![t] = rec]
    BY <1>1, <2>2
  <2>4. /\ settings = "none" /\ stored = None /\ content = None /\ ~identity
        /\ \A u \in Task : task[u].data = None
    BY <1>3 DEF isInitialized, CInv, SetUpOnce
  <2> HIDE DEF rec
  <2>5. /\ task' \in [Task -> TaskRecord]
        /\ task'[t] = rec /\ \A u \in Task : u # t => task'[u] = task[u]
    BY <2>1, <2>3, OneTask DEF CInv
  <2>6. TypeOK'
    BY <1>1, <2>5 DEF TypeOK, TaskRecord, CInv, setupVars, lockVars
  <2>7. SetUpOnce'
    BY <1>1, <2>1, <2>4, <2>5 DEF SetUpOnce, setupVars, lockVars
  <2>8. TasksKnow'
    BY <1>1, <2>1, <2>5 DEF TasksKnow, CInv, setupVars, lockVars
  <2>10. BlockedIsWaiting'
    BY <1>1, <2>1, <2>5 DEF BlockedIsWaiting, CInv
  <2>11. ASSUME ~anytime PROVE Calm'
    <3>1. Calm
      BY <2>11 DEF CInv
    <3> QED
      BY <1>1, <2>1, <2>4, <2>5, <3>1 DEF Calm, lockVars
  <2> QED
    BY <1>1, <2>6, <2>7, <2>8, <2>10, <2>11 DEF CInv, setupVars
<1> QED
  BY <1>2, <1>3

LEMMA StoreSettingsKeeps ==
  ASSUME CInv, NEW t \in Task, StoreSettings(t)
  PROVE  CInv'
<1> DEFINE rec == [task[t] EXCEPT !.step = "set"]
<1>1. task[t].step = "setting" /\ TypeOK /\ "set" \in Step
  BY DEF StoreSettings, CInv, Step
<1>2. /\ rec \in TaskRecord /\ rec.step = "set" /\ rec.op = task[t].op /\ rec.data = task[t].data
      /\ task' = [task EXCEPT ![t] = rec] /\ task[t] \in TaskRecord
  <2>1. task[t] \in TaskRecord /\ rec \in TaskRecord
    BY <1>1, WithStep
  <2>2. task' = [task EXCEPT ![t] = rec]
    BY <1>1, WithStep DEF StoreSettings, Goes
  <2> QED
    BY <2>1, <2>2 DEF TaskRecord
<1>3. /\ settings = "none" /\ stored = None /\ content = None /\ ~identity
      /\ task[t].op \in {"password", "key"}
      /\ \A u \in Setting : u = t
  BY <1>1 DEF CInv, SetUpOnce
<1>4. /\ settings' = task[t].op
      /\ UNCHANGED <<anytime, setupRequired, stored, lockVars, blocked>>
  BY DEF StoreSettings
<1> HIDE DEF rec
<1>5. /\ task' \in [Task -> TaskRecord]
      /\ task'[t] = rec /\ \A u \in Task : u # t => task'[u] = task[u]
  BY <1>1, <1>2, OneTask
<1>6. TypeOK'
  BY <1>1, <1>3, <1>4, <1>5 DEF TypeOK, TaskRecord, Settings, lockVars
<1>7. SetUpOnce'
  <2>1. \A u \in Setting' : u = t
    BY <1>3, <1>5
  <2>2. \A u \in Task : task'[u].data = None
    BY <1>2, <1>3, <1>5 DEF CInv, SetUpOnce
  <2> QED
    BY <1>2, <1>3, <1>4, <1>5, <2>1, <2>2 DEF SetUpOnce, lockVars
<1>8. TasksKnow'
  BY <1>2, <1>3, <1>4, <1>5 DEF TasksKnow, CInv
<1>10. BlockedIsWaiting'
  BY <1>1, <1>2, <1>4, <1>5 DEF BlockedIsWaiting, CInv
<1>11. ASSUME ~anytime PROVE Calm'
  <2>1. Calm
    BY <1>11 DEF CInv
  <2>2. \A u \in Task : task'[u].step \in Released \cup {"deriving", "fetching", "verifying"}
                           => task'[u] = task[u]
    BY <1>2, <1>5
  <2>3. Unlocking' = Unlocking
    BY <1>1, <1>2, <1>5
  <2>4. content = None /\ ~identity /\ UNCHANGED <<stored, lockVars>>
    BY <1>3, <1>4
  <2> HIDE DEF Unlocking
  <2> QED
    BY <2>1, <2>2, <2>3, <2>4 DEF Calm, lockVars
<1> QED
  BY <1>4, <1>6, <1>7, <1>8, <1>10, <1>11 DEF CInv

LEMMA StoreContentKeeps ==
  ASSUME CInv, NEW t \in Task, StoreContent(t)
  PROVE  CInv'
<1> DEFINE rec == Stands("done")
<1>1. task[t].step = "set" /\ TypeOK
  BY DEF StoreContent, CInv
<1>2. rec \in TaskRecord /\ rec.step = "done" /\ rec.data = None
  BY StandsIsRecord
<1>3. /\ stored = None /\ content = None /\ ~identity
      /\ \A u \in Task : task[u].data = None
      /\ \A u \in Setting : u = t
  BY <1>1 DEF CInv, SetUpOnce
<1>4. /\ stored' = NoData /\ setupRequired' = FALSE /\ task' = [task EXCEPT ![t] = rec]
      /\ UNCHANGED <<anytime, settings, lockVars, blocked>>
  BY DEF StoreContent, Ends
<1> HIDE DEF rec
<1>5. /\ task' \in [Task -> TaskRecord]
      /\ task'[t] = rec /\ \A u \in Task : u # t => task'[u] = task[u]
  BY <1>1, <1>2, <1>4, OneTask
<1>6. TypeOK'
  BY <1>1, <1>4, <1>5, NoDataIsData DEF TypeOK, TaskRecord, lockVars
<1>7. SetUpOnce'
  <2>1. settings # "none"
    BY <1>1 DEF CInv, SetUpOnce
  <2>2. Setting' = {}
    BY <1>2, <1>3, <1>5
  <2> QED
    BY <1>3, <1>4, <2>1, <2>2, NoDataIsData DEF SetUpOnce, lockVars
<1>8. TasksKnow'
  BY <1>2, <1>4, <1>5 DEF TasksKnow, CInv
<1>10. BlockedIsWaiting'
  BY <1>1, <1>2, <1>4, <1>5 DEF BlockedIsWaiting, CInv
<1>11. ASSUME ~anytime PROVE Calm'
  <2>1. Calm
    BY <1>11 DEF CInv
  <2> QED
    BY <1>1, <1>2, <1>3, <1>4, <1>5, <2>1 DEF Calm, lockVars
<1> QED
  BY <1>4, <1>6, <1>7, <1>8, <1>10, <1>11 DEF CInv

-----------------------------------------------------------------------------
(* The save of a change *)

LEMMA SaveKeeps ==
  ASSUME CInv, UNCHANGED setupVars, NEW t \in Task, Save(t)
  PROVE  CInv'
<1> DEFINE rec == IF identity THEN Stands("done") ELSE [task[t] EXCEPT !.step = "waiting in save"]
<1>1. task[t].step = "encrypting" /\ TypeOK /\ task[t] \in TaskRecord /\ "waiting in save" \in Step
  BY DEF Save, CInv, Step, TypeOK, TaskRecord
<1>2. /\ rec \in TaskRecord /\ rec.step \in {"done", "waiting in save"}
      /\ rec.data # None => rec.data = task[t].data
      /\ identity <=> rec.step = "done"
  BY <1>1, StandsIsRecord, WithStep DEF TaskRecord
<1>3. task' = [task EXCEPT ![t] = rec]
  BY <1>1, WithStep DEF Save, Waits, Goes, Ends
<1>4. /\ content' = task[t].data /\ content' \in Data /\ content' # None
      /\ stored # None /\ Setting = {}
  <2>1. task[t].data # None /\ stored # None
    BY <1>1 DEF CInv, TasksKnow, SetUpOnce
  <2> QED
    BY <1>1, <2>1 DEF Save, CInv, SetUpOnce, TaskRecord
<1>5. /\ timer' \in BOOLEAN /\ (timer' = timer \/ timer' = Timed)
      /\ ~identity => timer' = timer /\ stored' = stored
      /\ identity => stored' = content'
      /\ blocked' = (blocked \/ ~identity)
      /\ UNCHANGED <<setupVars, identity, strays>>
  <2>1. identity => UpdateTimeout(FALSE)
    BY DEF Save
  <2>2. identity => timer' \in BOOLEAN /\ (timer' = timer \/ timer' = Timed)
    BY <1>1, <2>1, TimerAnew
  <2>3. timer \in BOOLEAN /\ blocked \in BOOLEAN
    BY <1>1 DEF TypeOK
  <2> QED
    BY <2>2, <2>3 DEF Save, Waits
<1> HIDE DEF rec
<1>6. /\ task' \in [Task -> TaskRecord]
      /\ task'[t] = rec /\ \A u \in Task : u # t => task'[u] = task[u]
  BY <1>1, <1>2, <1>3, OneTask
<1>7. TypeOK'
  <2>1. stored' \in Data \cup {None} /\ blocked' \in BOOLEAN
    BY <1>1, <1>4, <1>5 DEF TypeOK
  <2> QED
    BY <1>1, <1>4, <1>5, <1>6, <2>1 DEF TypeOK, TaskRecord, setupVars
<1>8. SetUpOnce'
  <2>1. Setting' = {} /\ stored' # None
    BY <1>2, <1>4, <1>5, <1>6
  <2> HIDE DEF Setting
  <2> QED
    BY <1>4, <1>5, <2>1 DEF SetUpOnce, setupVars, CInv
<1>9. TasksKnow'
  BY <1>2, <1>5, <1>6 DEF TasksKnow, CInv, setupVars
<1>11. BlockedIsWaiting'
  BY <1>1, <1>2, <1>5, <1>6 DEF BlockedIsWaiting, CInv
<1>12. ASSUME ~anytime PROVE Calm'
  <2>1. Calm
    BY <1>12 DEF CInv
  <2>2. \A u \in Task : task'[u].step \in Released \cup {"deriving", "fetching", "verifying"}
                           => task'[u] = task[u]
    BY <1>2, <1>6
  <2>3. Unlocking' = Unlocking
    BY <1>1, <1>2, <1>6
  <2>4. ~identity => WaitsInSave'
    BY <1>2, <1>6 DEF WaitsInSave
  <2> HIDE DEF Unlocking
  <2>5. identity => content' = stored'
    BY <1>5
  <2>6. /\ strays' = 0 /\ (timer' => identity')
        /\ (identity' => content' # None)
    BY <1>4, <1>5, <2>1 DEF Calm
  <2>7. Timed /\ identity' => timer'
    BY <1>1, <1>5, <2>1, TimerStays DEF Calm
  <2> QED
    BY <1>5, <2>1, <2>2, <2>3, <2>4, <2>5, <2>6, <2>7, <1>4 DEF Calm
<1> QED
  BY <1>5, <1>7, <1>8, <1>9, <1>11, <1>12 DEF CInv, setupVars

LEMMA ResumeSaveKeeps ==
  ASSUME CInv, UNCHANGED setupVars, NEW t \in Task, ResumeSave(t)
  PROVE  CInv'
<1>1. task[t].step = "released in save" /\ TypeOK /\ UpdateTimeout(Locked) /\ Locked \in BOOLEAN
  BY DEF ResumeSave, CInv, TypeOK, Locked
<1>2. PICK rec \in {Stands("done"), Stands("failed")} : task' = [task EXCEPT ![t] = rec]
  BY DEF ResumeSave, Ends
<1>3. rec \in TaskRecord /\ rec.step \in {"done", "failed"} /\ rec.data = None
  BY <1>2, StandsIsRecord
<1>4. /\ timer' \in BOOLEAN /\ (timer' = timer \/ timer' = Timed)
      /\ UNCHANGED <<setupVars, content, identity, strays, blocked>>
      /\ stored' = IF content = None THEN stored ELSE content
  BY <1>1, TimerAnew DEF ResumeSave
<1>5. /\ task' \in [Task -> TaskRecord]
      /\ task'[t] = rec /\ \A u \in Task : u # t => task'[u] = task[u]
  BY <1>1, <1>2, <1>3, OneTask
<1>6. TypeOK'
  <2>1. stored' \in Data \cup {None}
    BY <1>1, <1>4 DEF TypeOK
  <2> QED
    BY <1>1, <1>4, <1>5, <2>1 DEF TypeOK, TaskRecord, setupVars
<1>7. SetUpOnce'
  <2>1. stored = None => content = None
    BY DEF CInv, SetUpOnce
  <2>2. stored = None <=> stored' = None
    BY <1>4, <2>1
  <2>3. \A u \in Setting' : u # t /\ u \in Setting /\ task'[u] = task[u]
    BY <1>3, <1>5
  <2>4. stored = None => \A u \in Task : task'[u].data = None
    BY <1>3, <1>5 DEF CInv, SetUpOnce
  <2> HIDE DEF Setting
  <2> QED
    BY <1>4, <2>2, <2>3, <2>4 DEF SetUpOnce, setupVars, CInv
<1>8. TasksKnow'
  BY <1>3, <1>4, <1>5 DEF TasksKnow, CInv, setupVars
<1>10. BlockedIsWaiting'
  BY <1>1, <1>3, <1>4, <1>5 DEF BlockedIsWaiting, CInv
<1>11. ASSUME ~anytime PROVE Calm'
  <2>1. Calm /\ identity /\ content # None
    BY <1>1, <1>11 DEF CInv, Calm
  <2>2. \A u \in Task : task'[u].step \in Released \cup {"deriving", "fetching", "verifying"}
                           => task'[u] = task[u]
    BY <1>3, <1>5
  <2>3. Unlocking' = Unlocking
    BY <1>1, <1>3, <1>5
  <2>4. stored' = content' /\ UNCHANGED <<content, identity, strays>>
    BY <1>4, <2>1
  <2>5. timer' => identity'
    BY <2>1, <2>4
  <2>6. \A u \in Task : task'[u].step \notin {"deriving", "fetching", "verifying"}
    BY <2>1, <2>2 DEF Calm
  <2>7. Timed /\ identity' => timer'
    BY <1>1, <1>4, <2>1, TimerStays DEF Calm
  <2> HIDE DEF Unlocking
  <2> QED
    BY <2>1, <2>3, <2>4, <2>5, <2>6, <2>7 DEF Calm
<1> QED
  BY <1>4, <1>6, <1>7, <1>8, <1>10, <1>11 DEF CInv, setupVars

-----------------------------------------------------------------------------
(* An unlock *)

\* What a step of an unlock leaves to be shown: what was going to lock the config
\* still is, and an application that waits for the end finds the rest as it was.
LEMMA UnlockStepKeeps ==
  ASSUME CInv, NEW t \in Task, NEW rec \in TaskRecord, task' = [task EXCEPT ![t] = rec],
         UNCHANGED <<setupVars, stored, identity, strays, blocked>>,
         timer' \in BOOLEAN, content' \in Data \cup {None},
         task[t].step \in {"idle", "deriving", "fetching", "verifying"},
         rec.step \in {"deriving", "fetching", "verifying", "failed"},
         stored = None => content' = None /\ rec.data = None,
         rec.step = "verifying" => rec.data # None,
         rec.step \in {"fetching", "verifying"} /\ rec.op = "right" => settings = "password",
         ~anytime => Calm'
  PROVE  CInv'
<1>1. /\ task' \in [Task -> TaskRecord]
      /\ task'[t] = rec /\ \A u \in Task : u # t => task'[u] = task[u]
  BY OneTask DEF CInv
<1>2. TypeOK'
  BY <1>1 DEF TypeOK, TaskRecord, CInv, setupVars
<1>3. SetUpOnce'
  <2>1. \A u \in Setting' : u # t /\ u \in Setting /\ task'[u] = task[u]
    BY <1>1
  <2>2. stored = None => content' = None /\ \A u \in Task : task'[u].data = None
    BY <1>1 DEF SetUpOnce, CInv
  <2> HIDE DEF Setting
  <2> QED
    BY <2>1, <2>2 DEF SetUpOnce, CInv, setupVars
<1>4. TasksKnow'
  BY <1>1 DEF TasksKnow, CInv, setupVars
<1>5. BlockedIsWaiting'
  BY <1>1 DEF BlockedIsWaiting, CInv
<1> QED
  BY <1>2, <1>3, <1>4, <1>5 DEF CInv, setupVars

LEMMA UnlockKeeps ==
  ASSUME CInv, UNCHANGED setupVars, NEW t \in Task, NEW password \in Password, Unlock(t, password)
  PROVE  CInv'
<1> DEFINE rec == [task[t] EXCEPT !.op = password, !.step = "deriving"]
<1>1. /\ task[t].step = "idle" /\ TypeOK /\ password \in {"right", "wrong"}
      /\ task \in [Task -> TaskRecord] /\ task[t] \in TaskRecord /\ content \in Data \cup {None}
      /\ timer' = FALSE /\ UNCHANGED <<setupVars, stored, content, identity, strays, blocked>>
  BY SecureConfigAssumption DEF Unlock, CInv, TypeOK, TaskRecord
<1>2. rec \in TaskRecord /\ rec.step = "deriving" /\ rec.op = password /\ rec.data = task[t].data
  BY <1>1 DEF TaskRecord, Step
<1>3. task' = [task EXCEPT ![t] = rec]
  <2>1. task' = [task EXCEPT ![t].op = password, ![t].step = "deriving"]
    BY DEF Unlock
  <2> QED
    BY <1>1, <2>1
<1>4. stored = None => content = None /\ rec.data = None
  BY <1>2 DEF CInv, SetUpOnce
<1> HIDE DEF rec
<1>5. /\ task'[t] = rec /\ \A u \in Task : u # t => task'[u] = task[u]
  BY <1>1, <1>2, <1>3, OneTask
<1>6. ASSUME ~anytime PROVE ~identity /\ Unlocking = {} /\ Calm
  BY <1>6 DEF Unlock, MayUnlock, Locked, CInv, Calm
<1>8. ASSUME ~anytime PROVE Calm'
  <2>1. /\ strays' = 0 /\ ~timer' /\ ~identity'
        /\ UNCHANGED <<stored, content>>
    BY <1>1, <1>6, <1>8 DEF Calm
  <2>2. \A u \in Task : task'[u].step \notin Released \cup {"fetching", "verifying"}
    BY <1>1, <1>2, <1>5, <1>6, <1>8 DEF Calm
  <2>3. \A u \in Unlocking' : u = t
    BY <1>5, <1>6, <1>8
  <2> QED
    BY <2>1, <2>2, <2>3 DEF Calm
<1> QED
  BY <1>1, <1>2, <1>3, <1>4, <1>8, UnlockStepKeeps

LEMMA FetchKeeps ==
  ASSUME CInv, UNCHANGED setupVars, NEW t \in Task, Fetch(t)
  PROVE  CInv'
<1> DEFINE op == IF settings = "password" THEN task[t].op ELSE "wrong"
           rec == [task[t] EXCEPT !.step = "fetching", !.data = stored, !.op = op]
<1>1. /\ task[t].step = "deriving" /\ TypeOK
      /\ task \in [Task -> TaskRecord] /\ task[t] \in TaskRecord
      /\ timer \in BOOLEAN /\ content \in Data \cup {None} /\ stored \in Data \cup {None}
      /\ UNCHANGED <<setupVars, stored, lockVars, blocked>>
  BY DEF Fetch, CInv, TypeOK, TaskRecord
<1>2. /\ rec \in TaskRecord /\ rec.step = "fetching" /\ rec.data = stored
      /\ rec.op = op
  BY <1>1 DEF TaskRecord, Step
<1>3. task' = [task EXCEPT ![t] = rec]
  <2>1. task' = [task EXCEPT ![t].step = "fetching", ![t].data = stored, ![t].op = op]
    BY <1>1 DEF Fetch
  <2> QED
    BY <1>1, <2>1
<1>4. rec.op = "right" => settings = "password" /\ task[t].op = "right"
  BY <1>2
<1>5. stored = None => content = None
  BY DEF CInv, SetUpOnce
<1> HIDE DEF rec, op
<1>6. /\ task'[t] = rec /\ \A u \in Task : u # t => task'[u] = task[u]
  BY <1>1, <1>2, <1>3, OneTask
<1>8. ASSUME ~anytime PROVE Calm'
  <2>1. Calm /\ UNCHANGED <<content, identity, timer, strays, stored>>
    BY <1>1, <1>8 DEF CInv, lockVars
  <2>2. ~identity /\ Unlocking' = Unlocking
    BY <1>1, <1>2, <1>6, <2>1 DEF Calm
  <2>3. /\ \A u \in Task : task'[u].step \in Released \cup {"verifying"} => task'[u] = task[u]
        /\ \A u \in Task : At(u, "fetching")' /\ task'[u].data # None => task'[u].data = stored
    BY <1>2, <1>6, <2>1 DEF Calm
  <2>4. WaitsInSave => WaitsInSave'
    BY <1>1, <1>6 DEF WaitsInSave
  <2> HIDE DEF Unlocking
  <2> QED
    BY <2>1, <2>2, <2>3, <2>4 DEF Calm
<1> QED
  BY <1>1, <1>2, <1>3, <1>4, <1>5, <1>8, UnlockStepKeeps DEF lockVars

LEMMA VerifyKeeps ==
  ASSUME CInv, UNCHANGED setupVars, NEW t \in Task, Verify(t)
  PROVE  CInv'
<1> DEFINE rec == IF task[t].data = None THEN Stands("failed")
                  ELSE [task[t] EXCEPT !.step = "verifying"]
<1>1. /\ task[t].step = "fetching" /\ TypeOK /\ "verifying" \in Step
      /\ task[t] \in TaskRecord /\ task[t].data \in Data \cup {None}
      /\ timer \in BOOLEAN /\ content' = task[t].data
      /\ UNCHANGED <<setupVars, stored, identity, timer, strays, blocked>>
  BY DEF Verify, CInv, TypeOK, TaskRecord, Step
<1>2. /\ rec \in TaskRecord /\ rec.step \in {"verifying", "failed"}
      /\ rec.step = "verifying" <=> task[t].data # None
      /\ rec.step = "verifying" => rec.data = task[t].data /\ rec.op = task[t].op
      /\ rec.step = "failed" => rec.data = None
  BY <1>1, StandsIsRecord, WithStep DEF TaskRecord
<1>3. task' = [task EXCEPT ![t] = rec]
  BY <1>1, WithStep DEF Verify, Goes, Ends
<1>4. /\ stored = None => content' = None /\ rec.data = None
      /\ rec.step = "verifying" /\ rec.op = "right" => settings = "password"
  BY <1>1, <1>2 DEF CInv, SetUpOnce, TasksKnow
<1> HIDE DEF rec
<1>5. /\ task'[t] = rec /\ \A u \in Task : u # t => task'[u] = task[u]
  BY <1>1, <1>2, <1>3, OneTask
<1>7. ASSUME ~anytime PROVE Calm'
  <2>1. Calm /\ UNCHANGED <<identity, timer, strays, stored>>
    BY <1>1, <1>7 DEF CInv
  <2>2. ~identity /\ Unlocking = {t}
    BY <1>1, <2>1 DEF Calm
  <2>3. \A u \in Unlocking' : u = t
    BY <1>5, <2>2
  <2>4. \A u \in Task : task'[u].step \notin Released \cup {"fetching"}
    BY <1>2, <1>5, <2>1, <2>2, <2>3 DEF Calm
  <2>5. At(t, "verifying")' => content' # None /\ content' = stored'
    BY <1>1, <1>2, <1>5, <2>1 DEF Calm
  <2> QED
    BY <2>1, <2>2, <2>3, <2>4, <2>5 DEF Calm
<1> QED
  BY <1>1, <1>2, <1>3, <1>4, <1>7, UnlockStepKeeps

LEMMA RejectKeeps ==
  ASSUME CInv, UNCHANGED setupVars, NEW t \in Task, Reject(t)
  PROVE  CInv'
<1> DEFINE rec == Stands("failed")
<1>1. /\ task[t].step = "verifying" /\ task[t].op = "wrong" /\ TypeOK
      /\ timer \in BOOLEAN /\ content \in Data \cup {None}
      /\ UNCHANGED <<setupVars, stored, lockVars, blocked>>
  BY DEF Reject, CInv, TypeOK, TaskRecord
<1>2. rec \in TaskRecord /\ rec.step = "failed" /\ rec.data = None
  BY StandsIsRecord
<1>3. task' = [task EXCEPT ![t] = rec]
  BY DEF Reject, Ends
<1>4. stored = None => content = None
  BY DEF CInv, SetUpOnce
<1> HIDE DEF rec
<1>5. /\ task'[t] = rec /\ \A u \in Task : u # t => task'[u] = task[u]
  BY <1>1, <1>2, <1>3, OneTask
<1>7. ASSUME ~anytime PROVE Calm'
  <2>1. Calm /\ UNCHANGED <<content, identity, timer, strays, stored>>
    BY <1>1, <1>7 DEF CInv, lockVars
  <2>2. ~identity /\ Unlocking = {t}
    BY <1>1, <2>1 DEF Calm
  <2>3. Unlocking' = {}
    BY <1>2, <1>5, <2>2
  <2>4. \A u \in Task : task'[u].step \notin Released \cup {"fetching", "verifying"}
    BY <1>2, <1>5, <2>1, <2>2, <2>3 DEF Calm
  <2> QED
    BY <2>1, <2>2, <2>3, <2>4 DEF Calm
<1> QED
  BY <1>1, <1>2, <1>3, <1>4, <1>7, UnlockStepKeeps DEF lockVars

LEMMA AcceptKeeps ==
  ASSUME CInv, UNCHANGED setupVars, NEW t \in Task, Accept(t)
  PROVE  CInv'
<1>1. /\ task[t].step = "verifying" /\ task[t].op = "right" /\ TypeOK
      /\ identity' = TRUE /\ timer' = (Timed \/ timer)
      /\ strays' = IF Timed /\ timer THEN strays + 1 ELSE strays
      /\ UNCHANGED <<setupVars, stored, content>>
  BY DEF Accept, CInv
<1>2. Stands("done") \in TaskRecord /\ Stands("done").step = "done" /\ Stands("done").data = None
  BY StandsIsRecord
<1>3. /\ task' \in [Task -> TaskRecord]
      /\ task'[t] = Stands("done")
      /\ \A u \in Task : u # t => /\ task'[u].op = task[u].op /\ task'[u].data = task[u].data
                                  /\ task'[u].step = Wake(task[u].step)
  <2>1. \A u \in Task : task[u] \in TaskRecord
    BY <1>1 DEF TypeOK, TaskRecord
  <2>2. \A s \in Step : Wake(s) \in Step
    BY DEF Wake, Step
  <2>3. \A u \in Task : u # t => task'[u] = [task[u] EXCEPT !.step = Wake(task[u].step)]
    BY <2>1 DEF Accept, TaskRecord
  <2>4. ASSUME NEW u \in Task, u # t
        PROVE  /\ task'[u] \in TaskRecord
               /\ task'[u].op = task[u].op /\ task'[u].data = task[u].data
               /\ task'[u].step = Wake(task[u].step)
    <3> DEFINE step == Wake(task[u].step)
    <3>1. step \in Step /\ task[u] \in TaskRecord
      BY <2>1, <2>2 DEF TaskRecord
    <3>2. task'[u] = [task[u] EXCEPT !.step = step]
      BY <2>3, <2>4
    <3> HIDE DEF step
    <3>3. task'[u] \in TaskRecord /\ task'[u].step = step
      BY <3>1, <3>2 DEF TaskRecord
    <3> QED
      BY <3>1, <3>2, <3>3 DEF TaskRecord, step
  <2>5. task'[t] = Stands("done") /\ task' = [u \in Task |-> task'[u]]
    BY DEF Accept
  <2> QED
    BY <1>2, <2>4, <2>5
<1>4. \A u \in Task :
        /\ task'[u].step \notin Waiting
        /\ u # t => /\ task'[u].step \in Released \/ task'[u].step = task[u].step
                    /\ task[u].step \notin Waiting => task'[u].step = task[u].step
                    /\ task[u].step = "waiting in save" => task'[u].step = "released in save"
  BY <1>2, <1>3 DEF Wake
<1>5. settings = "password" /\ stored # None /\ Setting = {}
  BY <1>1 DEF CInv, TasksKnow, SetUpOnce
<1>6. blocked' = FALSE
  BY DEF Accept, CInv, BlockedIsWaiting
<1>7. TypeOK'
  <2>1. timer' \in BOOLEAN /\ strays' \in Nat
    BY <1>1, SecureConfigAssumption DEF TypeOK
  <2> QED
    BY <1>1, <1>3, <1>6, <2>1 DEF TypeOK, TaskRecord, setupVars
<1>8. SetUpOnce'
  <2>1. Setting' = {}
    BY <1>2, <1>3, <1>4, <1>5
  <2> HIDE DEF Setting
  <2> QED
    BY <1>1, <1>5, <2>1 DEF SetUpOnce, setupVars
<1>9. TasksKnow'
  BY <1>1, <1>2, <1>3, <1>4, <1>5 DEF TasksKnow, CInv, setupVars
<1>11. BlockedIsWaiting'
  BY <1>4, <1>6 DEF BlockedIsWaiting
<1>12. ASSUME ~anytime PROVE Calm'
  <2>1. Calm
    BY <1>12 DEF CInv
  <2>2. ~identity /\ ~timer /\ Unlocking = {t} /\ content # None
    BY <1>1, <2>1 DEF Calm
  <2>3. Unlocking' = {}
    BY <1>2, <1>3, <1>4, <2>2
  <2>4. \A u \in Task : task'[u].step \notin {"deriving", "fetching", "verifying"}
    BY <2>3
  <2>5. content = stored \/ ReleasedInSave'
    <3>1. content = stored \/ WaitsInSave
      BY <1>1, <2>1 DEF Calm
    <3>2. ASSUME NEW u \in Task, task[u].step = "waiting in save" PROVE ReleasedInSave'
      BY <1>1, <1>4, <3>2 DEF ReleasedInSave
    <3> QED
      BY <3>1, <3>2 DEF WaitsInSave
  <2>6. strays' = 0 /\ UNCHANGED <<content, stored>> /\ identity'
    BY <1>1, <2>1, <2>2 DEF Calm
  <2>7. Timed => timer'
    BY <1>1, SecureConfigAssumption DEF TypeOK
  <2> QED
    BY <2>2, <2>3, <2>4, <2>5, <2>6, <2>7 DEF Calm
<1> QED
  BY <1>1, <1>7, <1>8, <1>9, <1>11, <1>12 DEF CInv, setupVars

-----------------------------------------------------------------------------
(* A lock *)

LEMMA ForgetKeeps ==
  ASSUME CInv, UNCHANGED setupVars, Lock \/ OnTimeout \/ OnStrayTimeout
  PROVE  CInv'
<1>1. /\ content' = None /\ identity' = FALSE /\ timer' = FALSE
      /\ UNCHANGED <<setupVars, stored, blocked, task>>
      /\ strays' = strays \/ (strays > 0 /\ strays' = strays - 1)
  BY DEF Lock, OnTimeout, OnStrayTimeout, Forget
<1>2. TypeOK'
  <2>1. strays' \in Nat
    BY <1>1 DEF CInv, TypeOK
  <2> QED
    BY <1>1, <2>1 DEF TypeOK, CInv, setupVars
<1>3. SetUpOnce' /\ TasksKnow' /\ BlockedIsWaiting'
  BY <1>1 DEF CInv, SetUpOnce, TasksKnow, BlockedIsWaiting, setupVars
<1>4. ASSUME ~anytime PROVE Calm'
  <2>1. Calm
    BY <1>4 DEF CInv
  <2>2. OnTimeout
    <3>1. ~Lock
      BY <1>4 DEF Lock
    <3>2. strays = 0
      BY <2>1 DEF Calm
    <3>3. ~OnStrayTimeout
      BY <3>2 DEF OnStrayTimeout
    <3> QED
      BY <3>1, <3>3
  <2>3. Awake /\ identity /\ UNCHANGED <<strays, task, stored>>
    BY <1>1, <2>1, <2>2 DEF OnTimeout, Calm
  <2> QED
    BY <1>1, <2>1, <2>3 DEF Calm, Awake
<1> QED
  BY <1>1, <1>2, <1>3, <1>4 DEF CInv, setupVars

-----------------------------------------------------------------------------
(* The invariant and what it says *)

LEMMA NextCInv == CInv /\ [Next]_vars => CInv'
<1> SUFFICES ASSUME CInv, [Next]_vars PROVE CInv'
  OBVIOUS
<1>1. CASE UNCHANGED vars
  <2> USE <1>1 DEF vars, setupVars, lockVars, CInv
  <2>1. TypeOK'
    BY DEF TypeOK
  <2>2. SetUpOnce' /\ TasksKnow'
    BY DEF SetUpOnce, TasksKnow
  <2>3. BlockedIsWaiting'
    BY DEF BlockedIsWaiting
  <2>4. ~anytime' => Calm'
    BY DEF Calm, WaitsInSave, ReleasedInSave
  <2> QED
    BY <2>1, <2>2, <2>3, <2>4
<1>2. ASSUME NEW t \in Task, UNCHANGED setupVars,
             NEW op \in {"read", "write"}, NEW k \in Key, Call(t, op, k) PROVE CInv'
  BY <1>2, CallKeeps
<1>3. ASSUME NEW t \in Task, UNCHANGED setupVars, NEW op \in Replacing, Call(t, op, None) PROVE CInv'
  BY <1>3, CallKeeps
<1>4. ASSUME NEW t \in Task, UNCHANGED setupVars,
             \/ Resume(t) \/ ResumeReplace(t) \/ ResumeReadAll(t) \/ GetRead(t)
             \/ Encrypt(t) \/ Save(t) \/ ResumeSave(t)
      PROVE CInv'
  BY <1>4, ResumeKeeps, ResumeReplaceKeeps, GetReadKeeps, SaveKeeps, ResumeSaveKeeps
<1>5. ASSUME NEW t \in Task, UNCHANGED setupVars, NEW password \in Password, Unlock(t, password)
      PROVE CInv'
  BY <1>5, UnlockKeeps
<1>6. ASSUME NEW t \in Task, UNCHANGED setupVars, Fetch(t) \/ Verify(t) \/ Reject(t) \/ Accept(t)
      PROVE CInv'
  BY <1>6, FetchKeeps, VerifyKeeps, RejectKeeps, AcceptKeeps
<1>7. CASE UNCHANGED setupVars /\ (Lock \/ OnTimeout \/ OnStrayTimeout)
  BY <1>7, ForgetKeeps
<1>8. ASSUME NEW t \in Task, Setting = {}, SetPassword(t) \/ SetIdentity(t) PROVE CInv'
  BY <1>8, SetUpKeeps DEF SetPassword, SetIdentity
<1>9. ASSUME NEW t \in Task, StoreSettings(t) \/ StoreContent(t) PROVE CInv'
  BY <1>9, StoreSettingsKeeps, StoreContentKeeps
<1> HIDE DEF Setting
<1> QED
  BY <1>1, <1>2, <1>3, <1>4, <1>5, <1>6, <1>7, <1>8, <1>9 DEF Next, Work

\* What holds of every state: the types, one set-up at a time, who waits has
\* the application asked, and an application that only unlocks is calm.
THEOREM SecureConfigInvariant == Spec => []CInv
<1> QED
  BY InitCInv, NextCInv, PTL DEF Spec

\* Every variable has its type, for any tasks, keys and options.
THEOREM SecureConfigTypeOK == Spec => []TypeOK
<1>1. CInv => TypeOK
  BY DEF CInv
<1> QED
  BY <1>1, SecureConfigInvariant, PTL

\* A step with which the timer is not stopped: what was going to lock still is.
LEMMA StillLocks ==
  ASSUME TypeOK, WillLock, UNCHANGED <<identity, strays>>,
         timer' = timer \/ timer' = Timed,
         \A t \in Unlocking : t \in Unlocking'
  PROVE  WillLock'
<1> HIDE DEF Unlocking
<1> QED
  BY DEF WillLock, TypeOK

\* A task that does not unlock has changed.
LEMMA OtherStep ==
  ASSUME NEW t \in Task, t \notin Unlocking, NEW rec, task \in [Task -> TaskRecord],
         task' = [task EXCEPT ![t] = rec]
  PROVE  \A u \in Unlocking : u \in Unlocking'
  OBVIOUS

\* Reads, writes and clears only start the timer anew.
LEMMA WorkStillLocks ==
  ASSUME TypeOK, WillLock, NEW t \in Task,
         \/ \E op \in {"read", "write"} \cup Replacing, k \in Key \cup {None} : Call(t, op, k)
         \/ Resume(t) \/ ResumeReplace(t) \/ ResumeReadAll(t) \/ GetRead(t)
         \/ Encrypt(t) \/ Save(t) \/ ResumeSave(t)
  PROVE  WillLock'
<1>1. task \in [Task -> TaskRecord] /\ Locked \in BOOLEAN
  BY DEF TypeOK, TaskRecord, Locked
<1>2. UNCHANGED <<identity, strays>> /\ t \notin Unlocking
  BY DEF Call, Resume, ResumeReplace, ResumeReadAll, GetRead, Encrypt, Save, ResumeSave, lockVars
<1>3. timer' = timer \/ timer' = Timed
  <2>1. (\E locked \in BOOLEAN : UpdateTimeout(locked)) \/ timer' = timer
    BY <1>1 DEF Call, Resume, ResumeReplace, ResumeReadAll, GetRead, Encrypt, Save, ResumeSave,
                Decrypt, lockVars
  <2> QED
    BY <2>1, TimerAnew
<1>4. \E rec : task' = [task EXCEPT ![t] = rec]
  <2>1. \A u \in Task : u # t => task'[u] = task[u]
    BY <1>1 DEF Call, Resume, ResumeReplace, ResumeReadAll, GetRead, Encrypt, Save, ResumeSave,
                Decrypt, Waits, Goes, Ends
  <2>2. task' = [u \in Task |-> task'[u]]
    BY <1>1 DEF Call, Resume, ResumeReplace, ResumeReadAll, GetRead, Encrypt, Save, ResumeSave,
                Decrypt, Waits, Goes, Ends
  <2>3. task' = [task EXCEPT ![t] = task'[t]]
    BY <1>1, <2>1, <2>2
  <2> QED
    BY <2>3
<1> HIDE DEF Unlocking
<1> QED
  BY <1>1, <1>2, <1>3, <1>4, OtherStep, StillLocks

\* An unlock is what locks later, until it fails or sets the timer.
LEMMA UnlockStillLocks ==
  ASSUME TypeOK, WillLock, NEW t \in Task,
         \/ \E password \in Password : Unlock(t, password)
         \/ Fetch(t) \/ Verify(t) \/ Reject(t) \/ Accept(t)
  PROVE  WillLock' \/ \E u \in Unlocking : task'[u].step = "failed"
<1>1. task \in [Task -> TaskRecord] /\ task[t] \in TaskRecord
  BY DEF TypeOK, TaskRecord
<1>2. ASSUME NEW password \in Password, Unlock(t, password) PROVE t \in Unlocking'
  BY <1>1, <1>2 DEF Unlock, TaskRecord
<1>3. CASE Fetch(t)
  BY <1>1, <1>3 DEF Fetch, TaskRecord, WillLock
<1>4. CASE Verify(t)
  BY <1>1, <1>4 DEF Verify, Goes, Ends, Stands, TaskRecord, WillLock
<1>5. CASE Reject(t)
  BY <1>1, <1>5 DEF Reject, Ends, Stands, TaskRecord
<1>6. CASE Accept(t)
  BY <1>6, SecureConfigAssumption DEF Accept, WillLock, TypeOK
<1> HIDE DEF Unlocking
<1> QED
  BY <1>2, <1>3, <1>4, <1>5, <1>6 DEF WillLock

\* Only an unlock that fails leaves an identity that nobody is going to lock.
THEOREM SecureConfigOnlyAFailedUnlockDisarms == Spec => OnlyAFailedUnlockDisarms
<1> DEFINE Step1 == WillLock /\ ~WillLock' => \E t \in Unlocking : task'[t].step = "failed"
<1>1. TypeOK /\ [Next]_vars => [Step1]_vars
  <2> SUFFICES ASSUME TypeOK, Next, WillLock, ~WillLock'
               PROVE  \E t \in Unlocking : task'[t].step = "failed"
    OBVIOUS
  <2>1. ~(Lock \/ OnTimeout \/ OnStrayTimeout)
    BY DEF Lock, OnTimeout, OnStrayTimeout, Forget, WillLock
  <2>2. ASSUME NEW t \in Task, SetUp(t, "password") \/ SetUp(t, "key") \/ StoreSettings(t) \/ StoreContent(t)
        PROVE  WillLock'
    <3>1. task \in [Task -> TaskRecord] /\ t \notin Unlocking
      BY <2>2 DEF TypeOK, TaskRecord, SetUp, StoreSettings, StoreContent
    <3>2. task' = [task EXCEPT ![t] = task'[t]]
      BY <2>2, <3>1 DEF SetUp, StoreSettings, StoreContent, Goes, Ends
    <3>3. UNCHANGED <<identity, timer, strays>>
      BY <2>2 DEF SetUp, StoreSettings, StoreContent, lockVars
    <3> HIDE DEF Unlocking
    <3> QED
      BY <3>1, <3>2, <3>3, OtherStep, StillLocks
  <2> HIDE DEF Unlocking
  <2> QED
    BY <2>1, <2>2, WorkStillLocks, UnlockStillLocks DEF Next, Work, SetPassword, SetIdentity
<1>2. Spec => []TypeOK
  BY SecureConfigTypeOK
<1> QED
  BY <1>1, <1>2, PTL DEF Spec, OnlyAFailedUnlockDisarms

\* An application that only unlocks what it finds locked has a timer armed for
\* every identity: its configs are locked again.
THEOREM SecureConfigVenueRelocks == Spec => [](~anytime /\ Timed /\ ~Locked => timer)
<1>1. CInv => (~anytime /\ Timed /\ ~Locked => timer)
  BY DEF CInv, Calm, Locked
<1> QED
  BY <1>1, SecureConfigInvariant, PTL

\* The application has been asked for a password exactly if somebody waits.
THEOREM SecureConfigBlockedIsWaiting == Spec => []BlockedIsWaiting
<1>1. CInv => BlockedIsWaiting
  BY DEF CInv
<1> QED
  BY <1>1, SecureConfigInvariant, PTL

\* An application that unlocks what it finds locked has in memory, when nothing
\* is under way, what is stored, whatever writes the time-outs met.
THEOREM SecureConfigMemoryIsStored == Spec => []MemoryIsStored
<1>1. CInv => MemoryIsStored
  <2> SUFFICES ASSUME CInv, ~anytime, ~Locked,
                      \A t \in Task : task[t].step \in {"idle", "done", "failed"}
               PROVE  content = stored
    BY DEF MemoryIsStored
  <2>1. Calm /\ identity /\ ~ReleasedInSave
    BY DEF CInv, Locked, ReleasedInSave
  <2> QED
    BY <2>1 DEF Calm
<1> QED
  BY <1>1, SecureConfigInvariant, PTL

\* A task that is done with verifying has found that the key opens the content.
LEMMA OnlyAcceptIsDone ==
  ASSUME TypeOK, Next, NEW t \in Task, task[t].step = "verifying", task'[t].step = "done"
  PROVE  Accept(t)
<1>1. task \in [Task -> TaskRecord]
  BY DEF TypeOK, TaskRecord
<1>2. task' # task
  OBVIOUS
<1>3. ASSUME NEW u \in Task, \/ \E op \in {"read", "write"}, k \in Key : Call(u, op, k)
                             \/ \E op \in Replacing : Call(u, op, None)
      PROVE FALSE
  BY <1>1, <1>3 DEF Call
<1>4. ASSUME NEW u \in Task, Resume(u) \/ ResumeReplace(u) \/ ResumeReadAll(u) PROVE FALSE
  BY <1>1, <1>4 DEF Resume, ResumeReplace, ResumeReadAll, Decrypt, Waits, Goes, Ends
<1>5. ASSUME NEW u \in Task, GetRead(u) \/ Encrypt(u) \/ Save(u) \/ ResumeSave(u) PROVE FALSE
  BY <1>1, <1>5 DEF GetRead, Encrypt, Save, ResumeSave, Waits, Goes, Ends
<1>6. ASSUME NEW u \in Task, (\E password \in Password : Unlock(u, password)) \/ Fetch(u) \/ Verify(u)
      PROVE FALSE
  BY <1>1, <1>6 DEF Unlock, Fetch, Verify, Goes, Ends
<1>7. ASSUME NEW u \in Task, Reject(u) PROVE FALSE
  BY <1>1, <1>7 DEF Reject, Ends, Stands
<1>8. ASSUME NEW u \in Task, Accept(u) PROVE u = t
  <2>1. u # t => task'[t] = [task[t] EXCEPT !.step = Wake("verifying")]
    BY <1>8 DEF Accept
  <2>2. Wake("verifying") = "verifying" /\ task[t] \in TaskRecord
    BY <1>1 DEF Wake
  <2>3. u # t => task'[t].step = "verifying"
    BY <2>1, <2>2 DEF TaskRecord
  <2> QED
    BY <2>3
<1>9. ~(Lock \/ OnTimeout \/ OnStrayTimeout)
  BY <1>2 DEF Lock, OnTimeout, OnStrayTimeout
<1>10. ASSUME NEW u \in Task, SetPassword(u) \/ SetIdentity(u) \/ StoreSettings(u) \/ StoreContent(u)
       PROVE FALSE
  BY <1>1, <1>10 DEF SetPassword, SetIdentity, SetUp, StoreSettings, StoreContent, Goes, Ends
<1> QED
  BY <1>3, <1>4, <1>5, <1>6, <1>7, <1>8, <1>9, <1>10 DEF Next, Work

\* The unlock of such an application ends with a config that is unlocked.
THEOREM SecureConfigUnlockUnlocks == Spec => UnlockUnlocks
<1> DEFINE Opens == \A t \in Task : At(t, "verifying") /\ task'[t].step = "done"
                       /\ ~anytime => ~Locked'
<1>1. CInv /\ [Next]_vars => [Opens]_vars
  <2> SUFFICES ASSUME CInv, Next, NEW t \in Task, task[t].step = "verifying",
                      task'[t].step = "done", ~anytime
               PROVE  ~Locked'
    OBVIOUS
  <2>1. Accept(t)
    BY OnlyAcceptIsDone DEF CInv
  <2>2. content # None
    BY DEF CInv, Calm
  <2> QED
    BY <2>1, <2>2 DEF Accept, Locked
<1> QED
  BY <1>1, SecureConfigInvariant, PTL DEF Spec, UnlockUnlocks
=============================================================================

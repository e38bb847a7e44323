----------------------------- MODULE SecureConfig -----------------------------
(* SecureConfig (src/config/secure-config.js): an encrypted map kept in another
   config, which reads and writes wait for while it is locked, and which locks
   itself after a time.

   Reads, writes, unlocks and the setting of the key are tasks that
   overlap: they stop wherever the code awaits a key derivation, a cipher, the
   underlying config or the unlocked event.  lock() and the timer run between
   any two of their steps.  A task is used once; the value a write stores is
   the task itself. *)

EXTENDS Naturals, FiniteSets

CONSTANTS
  Task, Key,
  None,
  Password,         \* what unlock is called with: "right", "wrong"
  Timed,            \* options.timeoutMs is not negative
  IncludeActivity,  \* options.includeActivity
  AnyTime           \* styles of application: TRUE locks, and unlocks with any
                    \* password, whenever it likes; FALSE only unlocks, a
                    \* locked config, as venue.js does

ASSUME SecureConfigAssumption ==
  /\ None \notin Task /\ None \notin [Key -> Task \cup {None}]
  /\ Password \subseteq {"right", "wrong"}
  /\ {Timed, IncludeActivity} \cup AnyTime \subseteq BOOLEAN

VARIABLES
  anytime,   \* the style of this application
  settings,  \* what settings the underlying config has
  stored,    \* the content in the underlying config
  setupRequired,
  content,   \* SecureConfig.content
  identity,  \* SecureConfig.identity is set
  timer,     \* SecureConfig.timer is armed
  strays,    \* armed timers that this.timer no longer knows
  blocked,   \* SecureConfig.blocked: the application was asked to unlock
  task       \* where each task stands

lockVars == <<content, identity, timer, strays>>
setupVars == <<anytime, settings, setupRequired>>
vars == <<setupVars, stored, lockVars, blocked, task>>

Data == [Key -> Task \cup {None}]
NoData == [k \in Key |-> None]

Waiting == {"waiting", "waiting in readAll", "waiting in save"}
Released == {"released", "released in readAll", "released in save"}
Step == {"idle", "done", "failed", "decrypting", "encrypting",
         "deriving", "fetching", "verifying", "setting", "set"}
        \cup Waiting \cup Released

Replacing == {"clear", "writeAll"}

\* The kind of key: none yet, derived from a password, given by the application.
Settings == {"none", "password", "key"}

TypeOK ==
  /\ anytime \in AnyTime /\ settings \in Settings /\ setupRequired \in BOOLEAN
  /\ stored   \in Data \cup {None}
  /\ content  \in Data \cup {None}
  /\ identity \in BOOLEAN /\ timer \in BOOLEAN /\ blocked \in BOOLEAN
  /\ strays   \in Nat
  /\ task \in [Task -> [op   : {"read", "write", "right", "wrong"} \cup Settings \cup Replacing,
                        key  : Key \cup {None},
                        step : Step,
                        data : Data \cup {None}]]

Stands(step) == [op |-> "none", key |-> None, step |-> step, data |-> None]

\* The constructor and start(), of a new config and of one that was set up.
Init ==
  /\ anytime \in AnyTime /\ settings \in Settings
  /\ setupRequired = (settings = "none")
  /\ stored   = IF settings = "none" THEN None ELSE NoData
  /\ content  = None
  /\ identity = FALSE
  /\ timer    = FALSE
  /\ strays   = 0
  /\ blocked  = FALSE
  /\ task     = [t \in Task |-> Stands("idle")]

Locked == content = None \/ ~identity

At(t, step) == task[t].step = step

Unlocking == {t \in Task : task[t].step \in {"deriving", "fetching", "verifying"}}

Goes(t, step) == task' = [task EXCEPT ![t].step = step]

\* The task is over, and its variables are gone.
Ends(t, how) == task' = [task EXCEPT ![t] = Stands(how)]

MUpdateTimeout(locked) ==   \* mutant: the timer is cleared and not set again
  timer' = (timer /\ ~IncludeActivity /\ ~locked)

\* The timer is started anew; a timer that is set while the config is locked
\* locks it once more.
UpdateTimeout(locked) ==
  timer' = IF ~IncludeActivity /\ ~locked THEN timer ELSE Timed

\* waitForUnlocked: the first to wait makes the application ask for a password.
Waits(t, step) == Goes(t, step) /\ blocked' = TRUE

-----------------------------------------------------------------------------
(* setPassword and setIdentity *)

isInitialized == settings # "none"

\* Both look at isInitialized, and again when they have the key: the answer is
\* the same as long as one of them runs at a time (see Next).
SetUp(t, type) ==
  /\ At(t, "idle")
  /\ IF isInitialized THEN Ends(t, "failed")
     ELSE task' = [task EXCEPT ![t].op = type, ![t].step = "setting"]
  /\ UNCHANGED <<setupVars, stored, lockVars, blocked>>

SetPassword(t) == SetUp(t, "password")
SetIdentity(t) == SetUp(t, "key")

StoreSettings(t) ==
  /\ At(t, "setting")
  /\ settings' = task[t].op
  /\ Goes(t, "set")
  /\ UNCHANGED <<anytime, setupRequired, stored, lockVars, blocked>>

StoreContent(t) ==
  /\ At(t, "set")
  /\ stored' = NoData
  /\ setupRequired' = FALSE
  /\ Ends(t, "done")
  /\ UNCHANGED <<anytime, settings, lockVars, blocked>>

-----------------------------------------------------------------------------
(* read, write, clear and writeAll *)

\* What clear and writeAll put in place of the content.
Instead(t, op) == [k \in Key |-> IF op = "clear" THEN None ELSE t]

\* readAll has the content and decrypts it.
Decrypt(t) ==
  /\ task' = [task EXCEPT ![t].step = "decrypting", ![t].data = content]
  /\ UpdateTimeout(Locked)

MCall(t, op, k) ==   \* mutant: the timer is started anew before the wait
  /\ At(t, "idle")
  /\ task' = [task EXCEPT ![t] = [op |-> op, key |-> k, data |-> content,
                                  step |-> IF Locked THEN "waiting" ELSE "decrypting"]]
  /\ blocked' = (blocked \/ Locked)
  /\ UpdateTimeout(Locked)
  /\ UNCHANGED <<stored, content, identity, strays>>

\* read(key) or write(key, t), clear() or writeAll(..) is called.
Call(t, op, k) ==
  /\ At(t, "idle")
  /\ IF Locked
     THEN /\ task' = [task EXCEPT ![t].op = op, ![t].key = k, ![t].step = "waiting"]
          /\ blocked' = TRUE
          /\ UNCHANGED timer
     ELSE /\ task' = [task EXCEPT ![t] =
                        IF op \in Replacing
                        THEN [op |-> op, key |-> k, step |-> "encrypting",
                              data |-> Instead(t, op)]
                        ELSE [op |-> op, key |-> k, step |-> "decrypting",
                              data |-> content]]
          /\ UpdateTimeout(Locked)
          /\ UNCHANGED blocked
  /\ UNCHANGED <<stored, content, identity, strays>>

\* The unlocked event woke clear or writeAll, which do not look again; without
\* an identity there is nothing to encrypt with.
ResumeReplace(t) ==
  /\ At(t, "released") /\ task[t].op \in Replacing
  /\ task' = IF identity
             THEN [task EXCEPT ![t].step = "encrypting",
                               ![t].data = Instead(t, task[t].op)]
             ELSE [task EXCEPT ![t] = Stands("failed")]
  /\ UpdateTimeout(Locked)
  /\ UNCHANGED <<stored, content, identity, strays, blocked>>

\* It woke read or write; readAll looks at the lock again.
Resume(t) ==
  /\ At(t, "released") /\ task[t].op \notin Replacing
  /\ IF Locked THEN Waits(t, "waiting in readAll") /\ UpdateTimeout(Locked)
               ELSE Decrypt(t) /\ UNCHANGED blocked
  /\ UNCHANGED <<stored, content, identity, strays>>

\* It woke readAll, which does not look again.
ResumeReadAll(t) ==
  /\ At(t, "released in readAll")
  /\ IF Locked THEN Ends(t, "failed") /\ UpdateTimeout(Locked) ELSE Decrypt(t)
  /\ UNCHANGED <<stored, content, identity, strays, blocked>>

GetRead(t) ==
  /\ At(t, "decrypting") /\ task[t].op = "read"
  /\ Ends(t, "done")
  /\ UNCHANGED <<stored, lockVars, blocked>>

\* The new value is set, and encrypted if there is an identity.
Encrypt(t) ==
  /\ At(t, "decrypting") /\ task[t].op = "write"
  /\ IF identity
     THEN task' = [task EXCEPT ![t].step = "encrypting",
                               ![t].data = [@ EXCEPT ![task[t].key] = t]]
     ELSE Ends(t, "failed")
  /\ UNCHANGED <<stored, lockVars, blocked>>

MSave(t) ==   \* mutant: write does not save
  /\ At(t, "encrypting")
  /\ content' = task[t].data
  /\ Ends(t, "done")
  /\ UNCHANGED <<stored, identity, timer, strays, blocked>>

\* The content is replaced, and saved at once unless the config was locked.
Save(t) ==
  /\ At(t, "encrypting")
  /\ content' = task[t].data
  /\ IF identity
     THEN /\ stored' = content'
          /\ Ends(t, "done") /\ UpdateTimeout(FALSE)
          /\ UNCHANGED blocked
     ELSE /\ Waits(t, "waiting in save")
          /\ UNCHANGED <<stored, timer>>
  /\ UNCHANGED <<identity, strays>>

\* save goes on with whatever the content is by now.
ResumeSave(t) ==
  /\ At(t, "released in save")
  /\ UpdateTimeout(Locked)
  /\ IF content = None
     THEN Ends(t, "failed") /\ UNCHANGED stored
     ELSE stored' = content /\ Ends(t, "done")
  /\ UNCHANGED <<content, identity, strays, blocked>>

-----------------------------------------------------------------------------
(* unlock and lock *)

\* When the application calls unlock, which itself asks for nothing: venue.js
\* does when the config is set up or found locked, and waits for the end of it.
MayUnlock == anytime \/ (Locked /\ Unlocking = {})

\* unlock is called: the timer is stopped, also that of a config that is
\* unlocked, and a key made of the password.
Unlock(t, password) ==
  /\ At(t, "idle")
  /\ MayUnlock
  /\ task' = [task EXCEPT ![t].op = password, ![t].step = "deriving"]
  /\ timer' = FALSE
  /\ UNCHANGED <<stored, content, identity, strays, blocked>>

\* Without the settings of a password, a key is made of nothing, and opens
\* nothing: nor does it open what setIdentity encrypted.
Fetch(t) ==
  /\ At(t, "deriving")
  /\ task' = [task EXCEPT ![t].step = "fetching", ![t].data = stored,
                          ![t].op = IF settings = "password" THEN @ ELSE "wrong"]
  /\ UNCHANGED <<stored, lockVars, blocked>>

\* The content is taken over before anyone knows whether the key opens it;
\* there may be none.
Verify(t) ==
  /\ At(t, "fetching")
  /\ content' = task[t].data
  /\ IF content' = None THEN Ends(t, "failed") ELSE Goes(t, "verifying")
  /\ UNCHANGED <<stored, identity, timer, strays, blocked>>

\* The key does not open it.  An identity of before stays, and so does what the
\* content now is; the timer that unlock stopped is not set again.
Reject(t) ==
  /\ At(t, "verifying") /\ task[t].op = "wrong"
  /\ Ends(t, "failed")
  /\ UNCHANGED <<stored, lockVars, blocked>>

MWake(s) ==   \* mutant: save is not woken
  CASE s = "waiting"            -> "released"
    [] s = "waiting in readAll" -> "released in readAll"
    [] OTHER                    -> s

Wake(s) ==
  CASE s = "waiting"            -> "released"
    [] s = "waiting in readAll" -> "released in readAll"
    [] s = "waiting in save"    -> "released in save"
    [] OTHER                    -> s

\* The key opens the content: the unlocked event wakes all who wait.
Accept(t) ==
  /\ At(t, "verifying") /\ task[t].op = "right"
  /\ identity' = TRUE
  /\ timer'  = (Timed \/ timer)
  /\ strays' = IF Timed /\ timer THEN strays + 1 ELSE strays
  /\ task' = [u \in Task |-> IF u = t THEN Stands("done")
                             ELSE [task[u] EXCEPT !.step = Wake(@)]]
  /\ blocked' = (blocked /\ \A u \in Task : task[u].step \notin Waiting)
  /\ UNCHANGED <<stored, content>>

Forget == content' = None /\ identity' = FALSE

Lock ==
  /\ anytime
  /\ Forget
  /\ timer' = FALSE
  /\ UNCHANGED <<stored, strays, blocked, task>>

\* No timer fires between the unlocked event and those it woke.
Awake == \A t \in Task : task[t].step \notin Released

OnTimeout ==
  /\ timer /\ Awake
  /\ Forget
  /\ timer' = FALSE
  /\ UNCHANGED <<stored, strays, blocked, task>>

\* A stray timer fires.  onTimeout takes it for this.timer, which strays in
\* turn.
OnStrayTimeout ==
  /\ strays > 0 /\ Awake
  /\ Forget
  /\ strays' = IF timer THEN strays ELSE strays - 1
  /\ timer' = FALSE
  /\ UNCHANGED <<stored, blocked, task>>

\* Bound: one setPassword or setIdentity at a time.
Setting == {t \in Task : task[t].step \in {"setting", "set"}}

Work ==
  \/ \E t \in Task :
       \/ \E op \in {"read", "write"}, k \in Key : Call(t, op, k)
       \/ \E op \in Replacing : Call(t, op, None)
       \/ Resume(t) \/ ResumeReplace(t) \/ ResumeReadAll(t) \/ GetRead(t)
       \/ Encrypt(t) \/ Save(t) \/ ResumeSave(t)
       \/ \E password \in Password : Unlock(t, password)
       \/ Fetch(t) \/ Verify(t) \/ Reject(t) \/ Accept(t)
  \/ Lock \/ OnTimeout \/ OnStrayTimeout

Next ==
  \/ Work /\ UNCHANGED setupVars
  \/ \E t \in Task : \/ Setting = {} /\ (SetPassword(t) \/ SetIdentity(t))
                     \/ StoreSettings(t) \/ StoreContent(t)

Spec == Init /\ [][Next]_vars

-----------------------------------------------------------------------------
(* Properties *)

\* Somebody is going to lock what has an identity: a timer is armed, or an unlock
\* is under way that will arm one.
WillLock == Timed /\ identity => timer \/ strays > 0 \/ Unlocking # {}

\* The comment on timeoutMs says of every unlocked config: "Timeout since last
\* unlock, after which the config will be locked".  An application that unlocks at
\* any time can make it false: a wrong password given to an unlocked config leaves
\* it unlocked and without a timer.  That is the only way to lose the timer: no
\* read, write, clear, save, set-up, lock or time-out, and no unlock that succeeds,
\* overlapping in any order, leaves an identity that nobody is going to lock, if
\* there was somebody before.
OnlyAFailedUnlockDisarms ==
  [][WillLock /\ ~WillLock' => \E t \in Unlocking : task'[t].step = "failed"]_vars

\* The application has been asked for a password exactly if somebody waits:
\* blocked is set by the first who waits and reset for all of them by the
\* unlocked event, so that neither a waiter nor the event that asks for it is
\* lost.
BlockedIsWaiting ==
  blocked <=> \E t \in Task : task[t].step \in Waiting

\* When every operation is over, the content of an unlocked config is the one
\* that is stored: what is read is what a restart would find.
MemoryIsStored ==
  ~anytime /\ ~Locked /\ (\A t \in Task : task[t].step \in {"idle", "done", "failed"})
    => content = stored

\* An unlock that announces "The secure config has been unlocked" leaves it
\* unlocked.
UnlockUnlocks ==
  [][\A t \in Task : At(t, "verifying") /\ task'[t].step = "done" 
         /\ ~anytime => ~Locked']_vars

=============================================================================

---------------------------- MODULE AppController ---------------------------
(***************************************************************************)
(* One opened collection of the app: AppController with its                *)
(* SyncCoordinator, and the AppRuntime that closes them.                   *)
(*                                                                         *)
(* The controller shows a list it read from the database some time ago.    *)
(* Saves show their result at once and write it afterwards, a finished     *)
(* synchronization replaces the whole list, timers and screens start       *)
(* synchronizations, preferences are written and then taken over, and      *)
(* closing waits for all of it.  One thread runs this, but every await     *)
(* lets the others in: a step below is what happens between two awaits.    *)
(* A row stands for a flat comic; what SyncService.sync does to the        *)
(* database is here only that rows change under it (SyncProtocol has it).  *)
(***************************************************************************)
EXTENDS Naturals, Sequences, FiniteSets, Functions

CONSTANTS Issues,
          Edits,        \* row values the user saves
          Remotes,      \* row values other devices saved
          Gone,         \* the row of a deleted comic, or of none
          Ops,          \* calls of the controller's API that may overlap
          Tasks,        \* calls of _synchronize that might overlap
          MaxEvents     \* bound: operations called, row changes that arrive
                        \* from the server and requests that fail, together

ASSUME ControllerAssumption ==
    /\ Gone \notin Edits \cup Remotes
    /\ Ops \cap Tasks = {}
    /\ MaxEvents \in Nat

VARIABLES rows,      \* the database: the row of every issue
          held,      \* every row the database has held
          queue,     \* who waits for the database, in order of the requests
          comics,    \* the list the screens show: visible issues and rows
          settings,  \* the preferences in memory
          stored,    \* the preferences as saved
          ops,       \* the operations in _activeOperations
          tasks,     \* the calls of _synchronize that have not returned
          syncing,   \* AppController.syncing
          running,   \* SyncCoordinator._running
          timer,     \* the periodic timer is set
          continuation,  \* the continuation timer: "off", or how it will sync
          closing,   \* how far AppRuntime.close has come
          spent      \* how much of the bound is used, and by what

dataVars == <<rows, held>>
syncVars == <<tasks, syncing, running>>
timerVars == <<timer, continuation>>
prefVars == <<settings, stored>>
vars == <<dataVars, queue, comics, prefVars, ops, syncVars, timerVars, closing,
          spent>>

Values == Edits \cup Remotes
Preferences == {"autoSync", "other"}

Quiet == [pc |-> "none"]   \* an operation or a task that is not there
ActiveOps == {o \in Ops : ops[o] # Quiet}
ActiveTasks == {t \in Tasks : tasks[t] # Quiet}

(* _acceptingOperations, _acceptingSync and _acceptingWork are cleared     *)
(* together, when the runtime begins to close.                             *)
Accepting == closing = "open"

Spend(what) ==
    /\ spent["calls"] + spent["pages"] + spent["failures"] < MaxEvents
    /\ spent' = [spent EXCEPT ![what] = @ + 1]

(* collections.load: the rows that are not deleted.                        *)
Visible(r) == Restrict(r, {i \in DOMAIN r : r[i] # Gone})

With(list, changes) ==
    [i \in DOMAIN list \cup DOMAIN changes |->
       IF i \in DOMAIN changes THEN changes[i] ELSE list[i]]

(* _publishOptimistic: the list with some rows saved or deleted.           *)
Shown(list, changes) == Visible(With(list, changes))

Init ==
    /\ rows \in [Issues -> Remotes \cup {Gone}]
    /\ held = {<<i, rows[i]>> : i \in Issues}
    /\ queue = << >>
    /\ comics = Visible(rows)
    /\ settings \in {s \in [Preferences -> BOOLEAN] : s["other"]}
    /\ stored = settings
    /\ ops = [o \in Ops |-> Quiet]
    /\ tasks = [t \in Tasks |-> Quiet]
    /\ syncing = FALSE /\ running = FALSE
    /\ timer = settings["autoSync"]
    /\ continuation = "off"
    /\ closing = "open"
    /\ spent = [calls |-> 0, pages |-> 0, failures |-> 0]

-----------------------------------------------------------------------------
(* Starting a synchronization: a timer, the end of a save, a resumed app   *)
(* or the user calls sync(), which does nothing while one is under way.    *)

(* Mutation of MaySync: only the coordinator looks whether one is running. *)
MaySyncAnyTime(auto, force) == Accepting /\ (auto \/ force)

MaySync(auto, force) ==
    Accepting /\ (auto \/ force) /\ ~syncing /\ ~running

(* SyncCoordinator.synchronize returns null when it has one already.       *)
Started(force) ==
    [pc |-> IF Accepting /\ ~running THEN "service" ELSE "return",
     force |-> force, ok |-> FALSE, more |-> FALSE, list |-> << >>]

Sync(auto, force) ==
    IF MaySync(auto, force) /\ ActiveTasks # Tasks
    THEN LET t == CHOOSE u \in Tasks : u \notin ActiveTasks
         IN /\ tasks' = [tasks EXCEPT ![t] = Started(force)]
            /\ syncing' = TRUE /\ running' = TRUE
    ELSE UNCHANGED syncVars

(* Mutation of Schedule: closing is not looked at.                         *)
ScheduleAlways(enabled) ==
    /\ timer' = enabled
    /\ continuation' = IF enabled THEN continuation ELSE "off"

(* SyncCoordinator.schedule and scheduleContinuation.                      *)
Schedule(enabled) ==
    /\ timer' = (enabled /\ Accepting)
    /\ continuation' = IF enabled THEN continuation ELSE "off"

Continuation(force) ==
    IF Accepting /\ (settings["autoSync"] \/ force)
    THEN IF force THEN "forced" ELSE "auto"
    ELSE "off"

Tick ==
    /\ timer
    /\ Sync(settings["autoSync"], FALSE)
    /\ UNCHANGED <<dataVars, queue, comics, prefVars, ops, timerVars, closing,
                   spent>>

Continue ==
    /\ continuation # "off"
    /\ continuation' = "off"
    /\ Sync(settings["autoSync"], continuation = "forced")
    /\ UNCHANGED <<dataVars, queue, comics, prefVars, ops, timer, closing, spent>>

(* The app is resumed, or the user asks for a synchronization.             *)
CallSync(force) ==
    /\ Accepting
    /\ Sync(settings["autoSync"], force)
    /\ UNCHANGED <<dataVars, queue, comics, prefVars, ops, timerVars, closing,
                   spent>>

-----------------------------------------------------------------------------
(* The course of a synchronization (_executeSynchronization, _synchronize).*)

InService(t) == tasks[t].pc = "service"

(* SyncService.sync applies a page: a row changes under the controller.    *)
Page(t) ==
    /\ InService(t) /\ Spend("pages")
    /\ \E i \in Issues, v \in Remotes \cup {Gone} :
          /\ rows' = [rows EXCEPT ![i] = v]
          /\ held' = held \cup {<<i, v>>}
    /\ UNCHANGED <<queue, comics, prefVars, ops, syncVars, timerVars, closing>>

(* It ends, with everything exchanged, with more to come, or with an error.*)
ServiceFails(t) ==
    /\ InService(t)
    /\ tasks' = [tasks EXCEPT ![t].pc = "release"]
    /\ UNCHANGED <<dataVars, queue, comics, prefVars, ops, syncing, running,
                   timerVars, closing, spent>>

ServiceSucceeds(t, more) ==
    /\ InService(t)
    /\ tasks' = [tasks EXCEPT ![t].pc = "load", ![t].ok = TRUE, ![t].more = more]
    /\ queue' = Append(queue, t)
    /\ UNCHANGED <<dataVars, comics, prefVars, ops, syncing, running, timerVars,
                   closing, spent>>

(* After a success the coordinator loads the list; it still has to read    *)
(* the time of the synchronization, so that the list may grow old.         *)
LoadForSync(t) ==
    /\ tasks[t].pc = "load" /\ queue # << >> /\ Head(queue) = t
    /\ queue' = Tail(queue)
    /\ \/ /\ tasks' = [tasks EXCEPT ![t].pc = "release", ![t].list = Visible(rows)]
          /\ UNCHANGED spent
       \/ /\ tasks' = [tasks EXCEPT ![t].pc = "release", ![t].ok = FALSE]
          /\ Spend("failures")
    /\ UNCHANGED <<dataVars, comics, prefVars, ops, syncing, running, timerVars,
                   closing>>

(* Mutation of Release: the flag is cleared only after a success.          *)
ReleaseAfterSuccess(t) ==
    /\ tasks[t].pc = "release"
    /\ tasks' = [tasks EXCEPT ![t].pc = "return"]
    /\ running' = ~tasks[t].ok
    /\ UNCHANGED <<dataVars, queue, comics, prefVars, ops, syncing, timerVars,
                   closing, spent>>

Release(t) ==
    /\ tasks[t].pc = "release"
    /\ tasks' = [tasks EXCEPT ![t].pc = "return"]
    /\ running' = FALSE
    /\ UNCHANGED <<dataVars, queue, comics, prefVars, ops, syncing, timerVars,
                   closing, spent>>

(* The controller shows the list of a successful synchronization.          *)
Return(t) ==
    /\ tasks[t].pc = "return"
    /\ tasks' = [tasks EXCEPT ![t] = Quiet]
    /\ syncing' = FALSE
    /\ comics' = IF tasks[t].ok THEN tasks[t].list ELSE comics
    /\ continuation' = IF tasks[t].more /\ tasks[t].ok THEN Continuation(tasks[t].force)
               ELSE continuation
    /\ UNCHANGED <<dataVars, queue, prefVars, ops, running, timer, closing, spent>>

TaskStep(t) ==
    \/ Page(t) \/ ServiceFails(t) \/ LoadForSync(t) \/ Release(t) \/ Return(t)
    \/ \E more \in BOOLEAN : ServiceSucceeds(t, more)

-----------------------------------------------------------------------------
(* Operations.  The requests of the database are carried out in the order  *)
(* in which they were made.                                                *)

Begin(o) == Accepting /\ ActiveOps # Ops /\ o = CHOOSE p \in Ops : p \notin ActiveOps

Served(o) == queue # << >> /\ Head(queue) = o /\ queue' = Tail(queue)

(* save, saveAll and remove: shown at once, then written.                  *)
Save(o, changes) ==
    /\ Begin(o) /\ Spend("calls")
    /\ comics' = Shown(comics, changes)
    /\ ops' = [ops EXCEPT ![o] = [pc |-> "write", changes |-> changes, scan |-> FALSE]]
    /\ queue' = Append(queue, o)
    /\ UNCHANGED <<dataVars, prefVars, syncVars, timerVars, closing>>

(* saveScanResults: written, loaded and then shown.                        *)
SaveScan(o, changes) ==
    /\ Begin(o) /\ Spend("calls")
    /\ ops' = [ops EXCEPT ![o] = [pc |-> "write", changes |-> changes, scan |-> TRUE]]
    /\ queue' = Append(queue, o)
    /\ UNCHANGED <<dataVars, comics, prefVars, syncVars, timerVars, closing>>

Reloading(sync) == [pc |-> "reload", sync |-> sync]

Write(o) ==
    /\ ops[o].pc = "write" /\ Served(o)
    /\ rows' = With(rows, ops[o].changes)
    /\ held' = held \cup {<<i, ops[o].changes[i]>> : i \in DOMAIN ops[o].changes}
    /\ ops' = [ops EXCEPT ![o] = [pc |-> "written", scan |-> ops[o].scan]]
    /\ UNCHANGED <<comics, prefVars, syncVars, timerVars, closing, spent>>

(* Mutation of AfterFailure: the failure is only reported.                 *)
NoRollback(scan) == Quiet

(* A save that fails shows the database again; a scan showed nothing yet.  *)
AfterFailure(scan) == IF scan THEN Quiet ELSE Reloading(FALSE)

WriteFails(o) ==
    /\ ops[o].pc = "write" /\ Served(o) /\ Spend("failures")
    /\ ops' = [ops EXCEPT ![o] = AfterFailure(ops[o].scan)]
    /\ UNCHANGED <<dataVars, comics, prefVars, syncVars, timerVars, closing>>

(* Once written, a save is over and asks for a synchronization.            *)
AfterWrite(o) ==
    /\ ops[o].pc = "written"
    /\ IF ops[o].scan
       THEN ops' = [ops EXCEPT ![o] = Reloading(TRUE)] /\ UNCHANGED syncVars
       ELSE ops' = [ops EXCEPT ![o] = Quiet] /\ Sync(settings["autoSync"], FALSE)
    /\ UNCHANGED <<dataVars, queue, comics, prefVars, timerVars, closing, spent>>

Reload(o) ==
    /\ Begin(o) /\ Spend("calls")
    /\ ops' = [ops EXCEPT ![o] = Reloading(FALSE)]
    /\ UNCHANGED <<dataVars, queue, comics, prefVars, syncVars, timerVars, closing>>

RequestLoad(o) ==
    /\ ops[o].pc = "reload"
    /\ ops' = [ops EXCEPT ![o] = [@ EXCEPT !.pc = "load"]]
    /\ queue' = Append(queue, o)
    /\ UNCHANGED <<dataVars, comics, prefVars, syncVars, timerVars, closing, spent>>

Load(o) ==
    /\ ops[o].pc = "load" /\ Served(o)
    /\ \/ /\ ops' = [ops EXCEPT ![o] = [pc |-> "loaded", sync |-> ops[o].sync,
                                         list |-> Visible(rows)]]
          /\ UNCHANGED spent
       \/ /\ ops' = [ops EXCEPT ![o] = Quiet]
          /\ Spend("failures")
    /\ UNCHANGED <<dataVars, comics, prefVars, syncVars, timerVars, closing>>

ShowLoaded(o) ==
    /\ ops[o].pc = "loaded"
    /\ comics' = ops[o].list
    /\ ops' = [ops EXCEPT ![o] = Quiet]
    /\ IF ops[o].sync THEN Sync(settings["autoSync"], FALSE) ELSE UNCHANGED syncVars
    /\ UNCHANGED <<dataVars, queue, prefVars, timerVars, closing, spent>>

(* updatePreferences: all preferences as they were at the call, with one   *)
(* changed, replace those in memory once that one is saved.  Updates of    *)
(* the same preference are saved in order: there is one at a time here.    *)
(* An update that fails, saved or not, changes nothing in memory.          *)
UpdatePreferences(o, p, value) ==
    /\ Begin(o) /\ Spend("calls")
    /\ \A other \in ActiveOps : ops[other].pc \in {"persist", "adopt"} =>
          ops[other].preference # p
    /\ ops' = [ops EXCEPT ![o] = [pc |-> "persist", preference |-> p,
                                  updated |-> [settings EXCEPT ![p] = value]]]
    /\ UNCHANGED <<dataVars, queue, comics, prefVars, syncVars, timerVars, closing>>

Persist(o) ==
    LET p == ops[o].preference
        saved == [stored EXCEPT ![p] = ops[o].updated[p]]
    IN /\ ops[o].pc = "persist"
       /\ \/ stored' = saved /\ ops' = [ops EXCEPT ![o].pc = "adopt"]
          \/ /\ stored' \in {stored, saved}
             /\ ops' = [ops EXCEPT ![o] = Quiet]
       /\ UNCHANGED <<dataVars, queue, comics, settings, syncVars, timerVars,
                      closing, spent>>

Adopt(o) ==
    LET updated == ops[o].updated
        auto == ops[o].preference = "autoSync"
    IN /\ ops[o].pc = "adopt"
       /\ settings' = updated
       /\ ops' = [ops EXCEPT ![o] = Quiet]
       /\ IF auto /\ updated["autoSync"] THEN Sync(TRUE, FALSE) ELSE UNCHANGED syncVars
       /\ IF auto THEN Schedule(updated["autoSync"]) ELSE UNCHANGED timerVars
       /\ UNCHANGED <<dataVars, queue, comics, stored, closing, spent>>

(* resetSyncServerBinding: refused while a synchronization is under way.   *)
Reset(o) ==
    /\ Begin(o) /\ ~syncing /\ ~running /\ Spend("calls")
    /\ ops' = [ops EXCEPT ![o] = [pc |-> "reset"]]
    /\ UNCHANGED <<dataVars, queue, comics, prefVars, syncVars, timerVars, closing>>

ResetDone(o) ==
    /\ ops[o].pc = "reset"
    /\ ops' = [ops EXCEPT ![o] = Quiet]
    /\ UNCHANGED <<dataVars, queue, comics, prefVars, syncVars, timerVars, closing,
                   spent>>

Changes == UNION {[S -> Edits \cup {Gone}] : S \in SUBSET Issues \ {{}}}

Call(o) ==
    \/ \E changes \in Changes : Save(o, changes)
    \/ \E changes \in Changes : Gone \notin Range(changes) /\ SaveScan(o, changes)
    \/ Reload(o) \/ Reset(o)
    \/ \E p \in Preferences, value \in BOOLEAN : UpdatePreferences(o, p, value)

OpStep(o) ==
    \/ Write(o) \/ WriteFails(o) \/ AfterWrite(o) \/ RequestLoad(o) \/ Load(o)
    \/ ShowLoaded(o) \/ Persist(o) \/ Adopt(o) \/ ResetDone(o)

-----------------------------------------------------------------------------
(* AppRuntime.close: AppController.quiesce stops new work and timers, then *)
(* waits for the coordinator, for the controller's synchronization and for *)
(* its operations; then the controller is disposed, the database closed.   *)

BeginClose ==
    /\ closing = "open"
    /\ closing' = "coordinator"
    /\ timer' = FALSE /\ continuation' = "off"
    /\ UNCHANGED <<dataVars, queue, comics, prefVars, ops, syncVars, spent>>

(* What each stage waits for.                                              *)
Drained(stage) ==
    CASE stage = "coordinator" -> ~running
      [] stage = "synchronization" -> ActiveTasks = {}
      [] stage = "operations" -> ActiveOps = {}

Stages == [coordinator |-> "synchronization", synchronization |-> "operations",
           operations |-> "closed"]

CloseStep ==
    /\ closing \in DOMAIN Stages /\ Drained(closing)
    /\ closing' = Stages[closing]
    /\ UNCHANGED <<dataVars, queue, comics, prefVars, ops, syncVars, timerVars, spent>>

Next ==
    \/ \E o \in Ops : Call(o) \/ OpStep(o)
    \/ \E t \in Tasks : TaskStep(t)
    \/ \E force \in BOOLEAN : CallSync(force)
    \/ Tick \/ Continue \/ BeginClose \/ CloseStep

(* Every await ends: requests of the server have time limits, those of the *)
(* database and the preferences are local.  The timer fires again and      *)
(* again, and the server is not out of reach forever.  Users owe nothing.  *)
Fairness ==
    /\ \A o \in Ops : WF_vars(OpStep(o))
    /\ \A t \in Tasks : WF_vars(TaskStep(t)) /\ SF_vars(ServiceSucceeds(t, FALSE))
    /\ WF_vars(Tick) /\ WF_vars(CloseStep)

Spec == Init /\ [][Next]_vars
FairSpec == Spec /\ Fairness

-----------------------------------------------------------------------------
Lists == UNION {[S -> Values] : S \in SUBSET Issues}

TypeOK ==
    /\ rows \in [Issues -> Values \cup {Gone}]
    /\ held \subseteq Issues \X (Values \cup {Gone})
    /\ comics \in Lists
    /\ settings \in [Preferences -> BOOLEAN] /\ stored \in [Preferences -> BOOLEAN]
    /\ timer \in BOOLEAN /\ continuation \in {"off", "auto", "forced"}
    /\ closing \in DOMAIN Stages \cup {"open", "closed"}
    /\ \A n \in DOMAIN queue :
          \/ queue[n] \in Ops /\ ops[queue[n]].pc \in {"write", "load"}
          \/ queue[n] \in Tasks /\ tasks[queue[n]].pc = "load"

(* At most one synchronization is under way, and both flags that guard it  *)
(* and disable the buttons of the screens say so, at every moment between  *)
(* timers, saves, the user and the steps of the coordinator.               *)
OneSynchronization ==
    /\ \A t, u \in ActiveTasks : t = u
    /\ syncing <=> ActiveTasks # {}
    /\ running <=> \E t \in ActiveTasks : tasks[t].pc # "return"

(* When the database is closed and the controller disposed, no operation,  *)
(* no synchronization and no timer is left that could use them.            *)
ClosedIsDrained ==
    closing = "closed" =>
        ActiveOps = {} /\ ActiveTasks = {} /\ ~timer /\ continuation = "off"

AtRest == Accepting /\ ActiveOps = {} /\ ActiveTasks = {}

(* What was shown before it was written and then was not written is gone   *)
(* from the list once everything has settled: the list has nothing that    *)
(* the database never held.  One request may fail; when the load after a   *)
(* failed save fails as well, there is nothing to show instead.            *)
NoPhantoms ==
    AtRest /\ spent["failures"] <= 1 => \A i \in DOMAIN comics : <<i, comics[i]>> \in held

(* What the user saved is in the list once everything has settled.         *)
SavedIsShown ==
    AtRest => \A i \in Issues : rows[i] \in Edits =>
                  i \in DOMAIN comics /\ comics[i] = rows[i]

(* The preferences in effect are the saved ones once all has settled.      *)
PreferencesAgree == AtRest => settings = stored

(* Closing ends, whatever was under way.                                   *)
CloseReturns == closing # "open" ~> closing = "closed"

(* As long as synchronization stays on, the list comes back to what the    *)
(* database holds, whatever it missed.                                     *)
ListCatchesUp ==
    <>[](timer /\ settings["autoSync"]) => []<>(comics = Visible(rows))
=============================================================================

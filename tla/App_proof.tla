-------------------------------- MODULE App_proof ------------------------------
(***************************************************************************)
(* The two state machines of the app and the prototype of its redesign,    *)
(* each by itself.                                                         *)
(*                                                                         *)
(* AppController for any issues, any number of operations and tasks, and   *)
(* any bounds: one synchronization at a time, nothing left when the        *)
(* runtime is closed, and no row in the list that was never saved.         *)
(*                                                                         *)
(* AppRuntimes for any accounts and any number of replacements: nobody is  *)
(* shown the collection of another, and no database stays open.            *)
(*                                                                         *)
(* Prototype for any issues, series, patches and scans: every screen shows *)
(* the shared store, and back leads out.                                   *)
(***************************************************************************)
EXTENDS AppController, AppRuntimes, Prototype, WellFoundedInduction, TLAPS

(* A call of _synchronize that has not returned.                           *)
IsTask(r) ==
    /\ r = [f \in DOMAIN r |-> r[f]] /\ "pc" \in DOMAIN r
    /\ r.pc \in {"service", "load", "release", "return"}

TasksTyped ==
    /\ tasks = [t \in Tasks |-> tasks[t]]
    /\ \A t \in ActiveTasks : IsTask(tasks[t])

(* What the stages of closing have waited for stays so.                    *)
StagesHold ==
    /\ closing \in {"open", "closed"} \cup DOMAIN Stages
    /\ closing # "open" => ~timer /\ continuation = "off"
    /\ closing \in {"synchronization", "operations", "closed"} => ~running
    /\ closing \in {"operations", "closed"} => ActiveTasks = {}
    /\ closing = "closed" => ActiveOps = {}

Inv == timer \in BOOLEAN /\ TasksTyped /\ OneSynchronization /\ StagesHold

-----------------------------------------------------------------------------
(* A step that does not synchronize, or tries to start a synchronization.  *)
LEMMA SyncKeeps ==
    ASSUME TasksTyped, OneSynchronization,
           NEW auto, NEW force, Sync(auto, force) \/ UNCHANGED syncVars
    PROVE  TasksTyped' /\ OneSynchronization'
<1>1. CASE UNCHANGED syncVars
  BY <1>1 DEF syncVars, TasksTyped, OneSynchronization, ActiveTasks
<1>2. CASE MaySync(auto, force) /\ ActiveTasks # Tasks /\ Sync(auto, force)
  <2> DEFINE t == CHOOSE u \in Tasks : u \notin ActiveTasks
  <2>1. t \in Tasks /\ t \notin ActiveTasks
    BY <1>2 DEF ActiveTasks
  <2>2. /\ tasks' = [tasks EXCEPT ![t] = Started(force)]
        /\ syncing' = TRUE /\ running' = TRUE
    BY <1>2 DEF Sync
  <2>3. ActiveTasks = {}
    BY <1>2 DEF MaySync, OneSynchronization
  <2>4. /\ tasks' = [u \in Tasks |-> tasks'[u]]
        /\ tasks'[t] = Started(force)
        /\ \A u \in Tasks : u # t => tasks'[u] = Quiet
    BY <2>1, <2>2, <2>3 DEF TasksTyped, ActiveTasks
  <2>5. Started(force).pc = "service" /\ IsTask(Started(force))
    BY <1>2 DEF Started, IsTask, MaySync
  <2>6. Started(force) # Quiet
    BY <2>5 DEF Quiet
  <2>7. ActiveTasks' = {t}
    BY <2>1, <2>4, <2>6 DEF ActiveTasks
  <2> QED
    BY <2>2, <2>4, <2>5, <2>7 DEF TasksTyped, OneSynchronization
<1>3. CASE ~(MaySync(auto, force) /\ ActiveTasks # Tasks) /\ Sync(auto, force)
  BY <1>1, <1>3 DEF Sync
<1> QED
  BY <1>1, <1>2, <1>3

(* Once closing has begun none starts.                                     *)
LEMMA NoSyncWhenClosing ==
    ASSUME NEW auto, NEW force, Sync(auto, force), closing # "open"
    PROVE  UNCHANGED syncVars
  BY DEF Sync, MaySync, Accepting

(* A step that starts a synchronization at most, and leaves the timers     *)
(* alone, is one that closing has not waited for.                          *)
LEMMA SyncInv ==
    ASSUME Inv, NEW auto, NEW force, Sync(auto, force) \/ UNCHANGED syncVars,
           timer' = timer \/ timer' = FALSE,
           continuation' = continuation \/ continuation' = "off",
           closing' = closing, closing = "closed" => ops' = ops
    PROVE  Inv'
<1>1. TasksTyped' /\ OneSynchronization'
  BY SyncKeeps DEF Inv
<1>2. closing # "open" => UNCHANGED syncVars
  BY NoSyncWhenClosing
<1>3. StagesHold'
  BY <1>2 DEF Inv, StagesHold, syncVars, ActiveTasks, ActiveOps
<1> QED
  BY <1>1, <1>3 DEF Inv

(* The step of a task from one pc to the next, before it returns.          *)
LEMMA TaskInv ==
    ASSUME Inv, NEW t \in Tasks, tasks[t].pc \in {"service", "load", "release"},
           NEW r, IsTask(r), tasks' = [tasks EXCEPT ![t] = r],
           r.pc # "service", syncing' = syncing,
           running' = (r.pc # "return"),
           timer' = timer, continuation' = continuation, closing' = closing,
           ops' = ops
    PROVE  Inv'
<1> USE DEF Inv
<1>1. tasks[t] # Quiet /\ r # Quiet
  BY DEF Quiet, IsTask
<1>2. t \in ActiveTasks
  BY <1>1 DEF ActiveTasks
<1>3. ActiveTasks = {t} /\ running = TRUE /\ syncing = TRUE
  BY <1>2 DEF OneSynchronization
<1>4. /\ tasks' = [u \in Tasks |-> tasks'[u]] /\ tasks'[t] = r
      /\ \A u \in Tasks : u # t => tasks'[u] = tasks[u]
  BY DEF TasksTyped
<1>5. ActiveTasks' = {t}
  BY <1>1, <1>3, <1>4 DEF ActiveTasks
<1>6. TasksTyped' /\ OneSynchronization'
  BY <1>3, <1>4, <1>5 DEF TasksTyped, OneSynchronization
<1>7. StagesHold'
  BY <1>3 DEF StagesHold, ActiveOps
<1> QED
  BY <1>6, <1>7

LEMMA ReturnInv ==
    ASSUME Inv, NEW t \in Tasks, Return(t)
    PROVE  Inv'
<1> USE DEF Inv
<1>1. /\ tasks[t].pc = "return" /\ tasks' = [tasks EXCEPT ![t] = Quiet]
      /\ syncing' = FALSE /\ running' = running
      /\ timer' = timer /\ closing' = closing /\ ops' = ops
      /\ continuation' = continuation \/ continuation' = Continuation(tasks[t].force)
  BY DEF Return
<1>2. t \in ActiveTasks
  BY <1>1 DEF Quiet, ActiveTasks
<1>3. ActiveTasks = {t} /\ running = FALSE
  BY <1>1, <1>2 DEF OneSynchronization
<1>4. /\ tasks' = [u \in Tasks |-> tasks'[u]]
      /\ tasks'[t] = Quiet /\ \A u \in Tasks : u # t => tasks'[u] = tasks[u]
  BY <1>1 DEF TasksTyped
<1>5. ActiveTasks' = {}
  BY <1>3, <1>4 DEF ActiveTasks
<1>6. TasksTyped' /\ OneSynchronization'
  BY <1>1, <1>3, <1>4, <1>5 DEF TasksTyped, OneSynchronization
<1>7. closing # "open" => Continuation(tasks[t].force) = "off"
  BY DEF Continuation, Accepting
<1>8. StagesHold'
  BY <1>1, <1>3, <1>5, <1>7 DEF StagesHold, ActiveOps
<1> QED
  BY <1>1, <1>6, <1>8

LEMMA TaskStepInv ==
    ASSUME Inv, NEW t \in Tasks, TaskStep(t)
    PROVE  Inv'
<1> DEFINE old == tasks[t]
           released == [old EXCEPT !.pc = "release"]
<1>1. old.pc \in {"service", "load", "release"} => IsTask(old)
  BY DEF Inv, TasksTyped, ActiveTasks, Quiet
<1>2. CASE Page(t)
  BY <1>2, SyncInv DEF Page, timerVars
<1>3. CASE ServiceFails(t)
  <2>1. IsTask(released) /\ released.pc = "release"
    BY <1>1, <1>3 DEF ServiceFails, InService, IsTask
  <2>2. /\ tasks' = [tasks EXCEPT ![t] = released] /\ syncing' = syncing
        /\ running' = running /\ timer' = timer
        /\ continuation' = continuation /\ closing' = closing /\ ops' = ops
    BY <1>3 DEF ServiceFails, timerVars
  <2>3. old.pc = "service" /\ running = TRUE
    BY <1>3 DEF ServiceFails, InService, Inv, OneSynchronization, ActiveTasks, Quiet
  <2> QED
    BY <2>1, <2>2, <2>3, TaskInv
<1>4. ASSUME NEW more \in BOOLEAN, ServiceSucceeds(t, more) PROVE Inv'
  <2> DEFINE r == [old EXCEPT !.pc = "load", !.ok = TRUE, !.more = more]
  <2>1. IsTask(r) /\ r.pc = "load"
    BY <1>1, <1>4 DEF ServiceSucceeds, InService, IsTask
  <2>2. /\ tasks' = [tasks EXCEPT ![t] = r] /\ syncing' = syncing
        /\ running' = running /\ timer' = timer
        /\ continuation' = continuation /\ closing' = closing /\ ops' = ops
    BY <1>4 DEF ServiceSucceeds, timerVars
  <2>3. old.pc = "service" /\ running = TRUE
    BY <1>4 DEF ServiceSucceeds, InService, Inv, OneSynchronization, ActiveTasks, Quiet
  <2> QED
    BY <2>1, <2>2, <2>3, TaskInv
<1>5. CASE LoadForSync(t)
  <2> DEFINE good == [old EXCEPT !.pc = "release", !.list = Visible(rows)]
             bad == [old EXCEPT !.pc = "release", !.ok = FALSE]
  <2>1. /\ IsTask(good) /\ good.pc = "release"
        /\ IsTask(bad) /\ bad.pc = "release"
    BY <1>1, <1>5 DEF LoadForSync, IsTask
  <2>2. \/ tasks' = [tasks EXCEPT ![t] = good]
        \/ tasks' = [tasks EXCEPT ![t] = bad]
    BY <1>5, Zenon DEF LoadForSync
  <2>3. /\ syncing' = syncing /\ running' = running /\ timer' = timer
        /\ continuation' = continuation /\ closing' = closing /\ ops' = ops
    BY <1>5 DEF LoadForSync, timerVars
  <2>4. old.pc = "load" /\ running = TRUE
    BY <1>5 DEF LoadForSync, Inv, OneSynchronization, ActiveTasks, Quiet
  <2> QED
    BY <2>1, <2>2, <2>3, <2>4, TaskInv
<1>6. CASE Release(t)
  <2> DEFINE r == [old EXCEPT !.pc = "return"]
  <2>1. IsTask(r) /\ r.pc = "return"
    BY <1>1, <1>6 DEF Release, IsTask
  <2>2. /\ tasks' = [tasks EXCEPT ![t] = r] /\ syncing' = syncing
        /\ running' = FALSE /\ timer' = timer
        /\ continuation' = continuation /\ closing' = closing /\ ops' = ops
        /\ old.pc = "release"
    BY <1>6 DEF Release, timerVars
  <2> QED
    BY <2>1, <2>2, TaskInv
<1> QED
  BY <1>2, <1>3, <1>4, <1>5, <1>6, ReturnInv DEF TaskStep

(* An operation begins only before closing, and none is left when closed.  *)
LEMMA CallInv ==
    ASSUME Inv, NEW o \in Ops, Call(o)
    PROVE  Inv'
<1>1. closing = "open"
  BY DEF Call, Save, SaveScan, Reload, Reset, UpdatePreferences, Begin, Accepting
<1>2. UNCHANGED syncVars /\ UNCHANGED timerVars /\ closing' = closing
  BY DEF Call, Save, SaveScan, Reload, Reset, UpdatePreferences
<1> QED
  BY <1>1, <1>2, SyncInv DEF timerVars

LEMMA OpStepInv ==
    ASSUME Inv, NEW o \in Ops, OpStep(o)
    PROVE  Inv'
<1>1. ops[o].pc # "none"
  BY DEF OpStep, Write, WriteFails, AfterWrite, RequestLoad, Load, ShowLoaded,
         Persist, Adopt, ResetDone
<1>2. closing # "closed"
  BY <1>1 DEF Inv, StagesHold, ActiveOps, Quiet
<1>3. CASE Write(o) \/ WriteFails(o) \/ RequestLoad(o) \/ Load(o) \/ Persist(o)
             \/ ResetDone(o)
  <2>1. UNCHANGED syncVars /\ UNCHANGED timerVars /\ closing' = closing
    BY <1>3 DEF Write, WriteFails, RequestLoad, Load, Persist, ResetDone
  <2> QED
    BY <1>2, <2>1, SyncInv DEF timerVars
<1>4. CASE AfterWrite(o) \/ ShowLoaded(o)
  <2>1. /\ Sync(settings["autoSync"], FALSE) \/ UNCHANGED syncVars
        /\ UNCHANGED timerVars /\ closing' = closing
    BY <1>4 DEF AfterWrite, ShowLoaded
  <2> QED
    BY <1>2, <2>1, SyncInv DEF timerVars
<1>5. CASE Adopt(o)
  <2> DEFINE updated == ops[o].updated
  <2>1. /\ Sync(TRUE, FALSE) \/ UNCHANGED syncVars
        /\ Schedule(updated["autoSync"]) \/ UNCHANGED timerVars
        /\ closing' = closing
    BY <1>5 DEF Adopt
  <2>2. CASE UNCHANGED timerVars
    BY <1>2, <2>1, <2>2, SyncInv DEF timerVars
  <2>3. CASE Schedule(updated["autoSync"])
    <3>1. timer' \in BOOLEAN /\ (closing # "open" => timer' = FALSE)
      BY <2>3 DEF Schedule, Accepting
    <3>2. continuation' = continuation \/ continuation' = "off"
      BY <2>3 DEF Schedule
    <3>3. TasksTyped' /\ OneSynchronization'
      BY <2>1, SyncKeeps DEF Inv
    <3>4. closing # "open" => UNCHANGED syncVars
      BY <2>1, NoSyncWhenClosing
    <3>5. StagesHold'
      BY <1>2, <2>1, <3>1, <3>2, <3>4
      DEF Inv, StagesHold, syncVars, ActiveTasks, ActiveOps
    <3> QED
      BY <3>1, <3>3, <3>5 DEF Inv
  <2> QED
    BY <2>1, <2>2, <2>3
<1> QED
  BY <1>3, <1>4, <1>5 DEF OpStep

LEMMA ClosingInv ==
    ASSUME Inv, BeginClose \/ CloseStep
    PROVE  Inv'
<1>1. UNCHANGED syncVars /\ UNCHANGED ops
  BY DEF BeginClose, CloseStep
<1>2. TasksTyped' /\ OneSynchronization'
  BY <1>1, SyncKeeps DEF Inv
<1>3. CASE BeginClose
  <2>1. timer' = FALSE /\ continuation' = "off" /\ closing' = "coordinator"
    BY <1>3 DEF BeginClose
  <2> QED
    BY <1>2, <2>1 DEF Inv, StagesHold, Stages
<1>4. CASE CloseStep
  <2>1. /\ timer' = timer /\ continuation' = continuation
        /\ closing \in DOMAIN Stages /\ closing' = Stages[closing]
        /\ running' = running /\ tasks' = tasks /\ ops' = ops
    BY <1>4 DEF CloseStep, timerVars, syncVars
  <2>2. DOMAIN Stages = {"coordinator", "synchronization", "operations"}
    BY DEF Stages
  <2>3. CASE closing = "coordinator"
    <3>1. closing' = "synchronization" /\ ~running
      BY <1>4, <2>1, <2>3 DEF CloseStep, Drained, Stages
    <3> QED
      BY <1>2, <2>1, <2>2, <2>3, <3>1 DEF Inv, StagesHold
  <2>4. CASE closing = "synchronization"
    <3>1. closing' = "operations" /\ ActiveTasks = {}
      BY <1>4, <2>1, <2>4 DEF CloseStep, Drained, Stages
    <3> QED
      BY <1>2, <2>1, <2>2, <2>4, <3>1 DEF Inv, StagesHold, ActiveTasks
  <2>5. CASE closing = "operations"
    <3>1. closing' = "closed" /\ ActiveOps = {}
      BY <1>4, <2>1, <2>5 DEF CloseStep, Drained, Stages
    <3> QED
      BY <1>2, <2>1, <2>2, <2>5, <3>1 DEF Inv, StagesHold, ActiveTasks, ActiveOps
  <2> QED
    BY <2>1, <2>2, <2>3, <2>4, <2>5
<1> QED
  BY <1>3, <1>4

LEMMA InitInv == Init => Inv
<1> SUFFICES ASSUME Init PROVE Inv
  OBVIOUS
<1>1. ActiveTasks = {}
  BY DEF Init, ActiveTasks
<1>2. timer \in BOOLEAN
  BY DEF Init, Preferences
<1>3. TasksTyped
  BY <1>1 DEF Init, TasksTyped
<1>4. OneSynchronization /\ StagesHold
  BY <1>1 DEF Init, OneSynchronization, StagesHold
<1> QED
  BY <1>2, <1>3, <1>4 DEF Inv

LEMMA NextInv == Inv /\ [Next]_vars => Inv'
<1> SUFFICES ASSUME Inv, [Next]_vars PROVE Inv'
  OBVIOUS
<1>1. CASE UNCHANGED vars
  BY <1>1, SyncInv DEF vars, syncVars, timerVars
<1>2. CASE Tick
  BY <1>2, SyncInv DEF Tick, timerVars
<1>3. CASE Continue
  BY <1>3, SyncInv DEF Continue
<1>4. ASSUME NEW force \in BOOLEAN, CallSync(force) PROVE Inv'
  BY <1>4, SyncInv DEF CallSync, timerVars
<1> QED
  BY <1>1, <1>2, <1>3, <1>4, CallInv, OpStepInv, TaskStepInv, ClosingInv DEF Next

-----------------------------------------------------------------------------
(* However timers, saves, the user and closing interleave, _synchronize    *)
(* and the coordinator run one synchronization at a time, and syncing and  *)
(* _running are set exactly while it is under way.                         *)
THEOREM OneAtATime == Spec => []OneSynchronization
<1>1. Inv => OneSynchronization
  BY DEF Inv
<1> QED
  BY <1>1, InitInv, NextInv, PTL DEF Spec

(* AppRuntime.close reaches its end, where the database is closed, only    *)
(* when nothing is left that could use it.                                 *)
THEOREM ClosingDrains == Spec => []ClosedIsDrained
<1>1. Inv => ClosedIsDrained
  BY DEF Inv, StagesHold, ClosedIsDrained
<1> QED
  BY <1>1, InitInv, NextInv, PTL DEF Spec

-----------------------------------------------------------------------------
(* Every row of a list is one that the database has held.                  *)
Held(list) == \A i \in DOMAIN list : <<i, list[i]>> \in held

(* A save that shows this row of the list and has still to be carried out. *)
Pending(i) ==
    \E o \in Ops :
        /\ ops[o].pc = "write" /\ ~ops[o].scan
        /\ i \in DOMAIN ops[o].changes /\ ops[o].changes[i] = comics[i]

Explained == \A i \in DOMAIN comics : <<i, comics[i]>> \in held \/ Pending(i)

(* A load on its way to the list, after a failed save for instance.        *)
Restoring == \E o \in Ops : ops[o].pc \in {"reload", "load", "loaded"}

OpsHeld ==
    /\ ops = [o \in Ops |-> ops[o]]
    /\ \A o \in Ops : "pc" \in DOMAIN ops[o]
    /\ \A o \in Ops : ops[o].pc = "loaded" => Held(ops[o].list)

TasksHeld ==
    /\ tasks = [t \in Tasks |-> tasks[t]]
    /\ \A t \in ActiveTasks : "list" \in DOMAIN tasks[t] /\ Held(tasks[t].list)

(* A failure leaves rows unexplained at most until a load is shown; the    *)
(* failure of that load would be the second.                               *)
ListExplained ==
    /\ spent["failures"] = 0 => Explained
    /\ spent["failures"] = 1 => Explained \/ Restoring

ListInv ==
    /\ spent \in [{"calls", "pages", "failures"} -> Nat]
    /\ Held(rows)
    /\ OpsHeld
    /\ TasksHeld
    /\ ListExplained

(* A request that is refused or a step that costs nothing adds no failure. *)
LEMMA Spending ==
    ASSUME ListInv, NEW what \in {"calls", "pages", "failures"}, Spend(what)
    PROVE  /\ spent' \in [{"calls", "pages", "failures"} -> Nat]
           /\ what # "failures" => spent'["failures"] = spent["failures"]
           /\ what = "failures" => spent'["failures"] = spent["failures"] + 1
  BY DEF ListInv, Spend

(* The record of one operation changes.                                    *)
LEMMA OneOperation ==
    ASSUME OpsHeld, NEW o \in Ops, NEW r, ops' = [ops EXCEPT ![o] = r]
    PROVE  /\ ops' = [p \in Ops |-> ops'[p]]
           /\ ops'[o] = r
           /\ \A p \in Ops : p # o => ops'[p] = ops[p]
  BY DEF OpsHeld

LEMMA OpsStayHeld ==
    ASSUME OpsHeld, NEW o \in Ops, NEW r, ops' = [ops EXCEPT ![o] = r],
           held \subseteq held', "pc" \in DOMAIN r,
           r.pc = "loaded" => \A i \in DOMAIN r.list : <<i, r.list[i]>> \in held
    PROVE  OpsHeld'
<1>1. /\ ops' = [p \in Ops |-> ops'[p]]
      /\ ops'[o] = r
      /\ \A p \in Ops : p # o => ops'[p] = ops[p]
  BY OneOperation
<1>2. ASSUME NEW p \in Ops, ops'[p].pc = "loaded", NEW i \in DOMAIN ops'[p].list
      PROVE  <<i, ops'[p].list[i]>> \in held'
  <2>1. CASE p = o
    BY <1>1, <1>2, <2>1
  <2>2. CASE p # o
    BY <1>1, <1>2, <2>2 DEF OpsHeld, Held
  <2> QED
    BY <2>1, <2>2
<1>3. \A p \in Ops : "pc" \in DOMAIN ops'[p]
  BY <1>1 DEF OpsHeld
<1> QED
  BY <1>1, <1>2, <1>3 DEF OpsHeld, Held

(* The list of a synchronization that starts is empty.                     *)
LEMMA TasksStayHeld ==
    ASSUME TasksHeld, held \subseteq held', NEW auto, NEW force,
           Sync(auto, force) \/ UNCHANGED syncVars
    PROVE  TasksHeld'
<1>1. CASE UNCHANGED tasks
  BY <1>1 DEF TasksHeld, ActiveTasks, Held
<1>2. CASE MaySync(auto, force) /\ ActiveTasks # Tasks /\ Sync(auto, force)
  <2> DEFINE t == CHOOSE u \in Tasks : u \notin ActiveTasks
  <2>1. t \in Tasks
    BY <1>2 DEF ActiveTasks
  <2>2. tasks' = [tasks EXCEPT ![t] = Started(force)]
    BY <1>2 DEF Sync
  <2>3. /\ tasks' = [u \in Tasks |-> tasks'[u]]
        /\ tasks'[t] = Started(force)
        /\ \A u \in Tasks : u # t => tasks'[u] = tasks[u]
    BY <2>1, <2>2 DEF TasksHeld
  <2>4. "list" \in DOMAIN Started(force) /\ DOMAIN Started(force).list = {}
    BY DEF Started
  <2>5. ASSUME NEW u \in Tasks, tasks'[u] # Quiet
        PROVE  /\ "list" \in DOMAIN tasks'[u]
               /\ \A i \in DOMAIN tasks'[u].list : <<i, tasks'[u].list[i]>> \in held'
    <3>1. CASE u = t
      BY <2>3, <2>4, <3>1
    <3>2. CASE u # t
      BY <2>3, <2>5, <3>2 DEF TasksHeld, ActiveTasks, Held
    <3> QED
      BY <3>1, <3>2
  <2> QED
    BY <2>3, <2>5 DEF TasksHeld, ActiveTasks, Held
<1>3. CASE ~(MaySync(auto, force) /\ ActiveTasks # Tasks) /\ Sync(auto, force)
  BY <1>1, <1>3 DEF Sync, syncVars
<1> QED
  BY <1>1, <1>2, <1>3 DEF syncVars

LEMMA OneTask ==
    ASSUME TasksHeld, held \subseteq held', NEW t \in Tasks, NEW r,
           tasks' = [tasks EXCEPT ![t] = r],
           r # Quiet => /\ "list" \in DOMAIN r
                        /\ \A i \in DOMAIN r.list : <<i, r.list[i]>> \in held
    PROVE  TasksHeld'
<1>1. /\ tasks' = [u \in Tasks |-> tasks'[u]] /\ tasks'[t] = r
      /\ \A u \in Tasks : u # t => tasks'[u] = tasks[u]
  BY DEF TasksHeld
<1>2. ASSUME NEW u \in Tasks, tasks'[u] # Quiet
      PROVE  /\ "list" \in DOMAIN tasks'[u]
             /\ \A i \in DOMAIN tasks'[u].list : <<i, tasks'[u].list[i]>> \in held'
  <2>1. CASE u = t
    BY <1>1, <1>2, <2>1
  <2>2. CASE u # t
    BY <1>1, <1>2, <2>2 DEF TasksHeld, ActiveTasks, Held
  <2> QED
    BY <2>1, <2>2
<1> QED
  BY <1>1, <1>2 DEF TasksHeld, ActiveTasks, Held

(* The rows that a load finds.                                             *)
LEMMA VisibleHeld ==
    ASSUME Held(rows)
    PROVE  Held(Visible(rows))
  BY DEF Held, Visible, Restrict

(* The list stays explained as long as no save that has still to be        *)
(* carried out is given up.                                                *)
LEMMA StaysExplained ==
    ASSUME Explained, comics' = comics, held \subseteq held',
           \A p \in Ops : ops[p].pc = "write" /\ ~ops[p].scan =>
              \/ ops'[p] = ops[p]
              \/ \A i \in DOMAIN ops[p].changes : <<i, ops[p].changes[i]>> \in held'
    PROVE  Explained'
<1> SUFFICES ASSUME NEW i \in DOMAIN comics, <<i, comics[i]>> \notin held'
             PROVE  \E p \in Ops :
                       /\ ops'[p].pc = "write" /\ ~ops'[p].scan
                       /\ i \in DOMAIN ops'[p].changes
                       /\ ops'[p].changes[i] = comics[i]
  BY DEF Explained, Pending
<1>1. PICK p \in Ops : /\ ops[p].pc = "write" /\ ~ops[p].scan
                       /\ i \in DOMAIN ops[p].changes
                       /\ ops[p].changes[i] = comics[i]
  BY DEF Explained, Pending
<1>2. ops'[p] = ops[p]
  BY <1>1
<1> QED
  BY <1>1, <1>2

(* A list that was loaded explains itself.                                 *)
LEMMA LoadedIsExplained ==
    ASSUME \A i \in DOMAIN comics' : <<i, comics'[i]>> \in held'
    PROVE  Explained'
  BY DEF Explained

(* A step after which the list is as explained as before.                  *)
LEMMA ExplainedStep ==
    ASSUME ListInv, spent'["failures"] = spent["failures"],
           Explained => Explained', Restoring => Restoring' \/ Explained'
    PROVE  ListExplained'
  BY DEF ListInv, ListExplained

(* A step at which no operation moves and the list stays.                  *)
LEMMA ElsewhereExplained ==
    ASSUME ListInv, spent'["failures"] = spent["failures"],
           comics' = comics, ops' = ops, held \subseteq held'
    PROVE  ListExplained'
<1>1. Explained => Explained'
  BY StaysExplained
<1>2. Restoring => Restoring'
  BY DEF Restoring
<1> QED
  BY <1>1, <1>2, ExplainedStep

(* A step of the timers, the user or closing: a synchronization may start. *)
LEMMA ElsewhereList ==
    ASSUME ListInv, spent' = spent, comics' = comics, ops' = ops,
           rows' = rows, held' = held, NEW auto, NEW force,
           Sync(auto, force) \/ UNCHANGED syncVars
    PROVE  ListInv'
<1>1. ListExplained'
  BY ElsewhereExplained
<1>2. TasksHeld'
  BY TasksStayHeld DEF ListInv
<1>3. OpsHeld' /\ Held(rows)'
  BY DEF ListInv, OpsHeld, Held
<1> QED
  BY <1>1, <1>2, <1>3 DEF ListInv

-----------------------------------------------------------------------------
(* A page brings a row that the database holds from then on.               *)
LEMMA PageList ==
    ASSUME ListInv, NEW t \in Tasks, Page(t)
    PROVE  ListInv'
<1>1. PICK i \in Issues, v \in Remotes \cup {Gone} :
         /\ rows' = [rows EXCEPT ![i] = v]
         /\ held' = held \cup {<<i, v>>}
  BY DEF Page
<1>2. /\ comics' = comics /\ ops' = ops /\ UNCHANGED syncVars
      /\ Spend("pages") /\ held \subseteq held'
  BY <1>1 DEF Page
<1>3. /\ spent' \in [{"calls", "pages", "failures"} -> Nat]
      /\ spent'["failures"] = spent["failures"]
  BY <1>2, Spending
<1>4. ASSUME NEW j \in DOMAIN rows' PROVE <<j, rows'[j]>> \in held'
  BY <1>1 DEF ListInv, Held
<1>5. ListExplained'
  BY <1>2, <1>3, ElsewhereExplained
<1>6. TasksHeld'
  BY <1>2, TasksStayHeld DEF ListInv
<1>7. OpsHeld'
  BY <1>2 DEF ListInv, OpsHeld, Held
<1> QED
  BY <1>3, <1>4, <1>5, <1>6, <1>7 DEF ListInv, Held

(* A synchronization goes on without showing anything.                     *)
LEMMA TaskList ==
    ASSUME ListInv, NEW t \in Tasks, NEW r, tasks' = [tasks EXCEPT ![t] = r],
           "list" \in DOMAIN r,
           \A i \in DOMAIN r.list : <<i, r.list[i]>> \in held,
           spent' = spent \/ Spend("failures"),
           comics' = comics, ops' = ops, rows' = rows, held' = held
    PROVE  ListInv'
<1>1. TasksHeld'
  BY OneTask DEF ListInv
<1>2. OpsHeld' /\ Held(rows)'
  BY DEF ListInv, OpsHeld, Held
<1>3. (Explained => Explained') /\ (Restoring => Restoring')
  <2>1. Explained => Explained'
    BY StaysExplained
  <2> QED
    BY <2>1 DEF Restoring
<1>4. CASE spent' = spent
  BY <1>1, <1>2, <1>3, <1>4, ExplainedStep DEF ListInv
<1>5. CASE Spend("failures")
  <2>1. /\ spent' \in [{"calls", "pages", "failures"} -> Nat]
        /\ spent'["failures"] = spent["failures"] + 1
    BY <1>5, Spending
  <2>2. spent["failures"] \in Nat
    BY DEF ListInv
  <2>3. ListExplained'
    BY <1>3, <2>1, <2>2 DEF ListInv, ListExplained
  <2> QED
    BY <1>1, <1>2, <2>1, <2>3 DEF ListInv
<1> QED
  BY <1>4, <1>5

(* The list of a successful synchronization, shown when it returns.        *)
LEMMA ReturnList ==
    ASSUME ListInv, NEW t \in Tasks, Return(t)
    PROVE  ListInv'
<1>1. /\ tasks' = [tasks EXCEPT ![t] = Quiet] /\ tasks[t].pc = "return"
      /\ comics' = IF tasks[t].ok THEN tasks[t].list ELSE comics
      /\ rows' = rows /\ held' = held /\ ops' = ops /\ spent' = spent
  BY DEF Return, dataVars
<1>2. TasksHeld'
  BY <1>1, OneTask DEF ListInv
<1>3. t \in ActiveTasks
  BY <1>1 DEF ActiveTasks, Quiet
<1>4. CASE comics' = comics
  BY <1>1, <1>2, <1>4, ElsewhereExplained DEF ListInv, OpsHeld, Held
<1>5. CASE comics' = tasks[t].list
  <2>1. \A i \in DOMAIN comics' : <<i, comics'[i]>> \in held'
    BY <1>1, <1>3, <1>5 DEF ListInv, TasksHeld, Held
  <2>2. Explained'
    BY <2>1, LoadedIsExplained
  <2>3. ListExplained'
    BY <1>1, <2>2, ExplainedStep
  <2> QED
    BY <1>1, <1>2, <2>3 DEF ListInv, OpsHeld, Held
<1> QED
  BY <1>1, <1>4, <1>5

LEMMA TaskStepList ==
    ASSUME ListInv, NEW t \in Tasks, TaskStep(t)
    PROVE  ListInv'
<1> DEFINE old == tasks[t]
           goes(pc) == [old EXCEPT !.pc = pc]
<1>1. tasks[t].pc # "none" => /\ "list" \in DOMAIN tasks[t]
                              /\ \A i \in DOMAIN tasks[t].list :
                                    <<i, tasks[t].list[i]>> \in held
  BY DEF ListInv, TasksHeld, ActiveTasks, Quiet, Held
<1>2. CASE ServiceFails(t)
  <2>1. /\ tasks' = [tasks EXCEPT ![t] = goes("release")]
        /\ old.pc = "service" /\ spent' = spent /\ comics' = comics
        /\ ops' = ops /\ rows' = rows /\ held' = held
    BY <1>2 DEF ServiceFails, InService, dataVars
  <2>2. /\ "list" \in DOMAIN goes("release")
        /\ goes("release").list = old.list
    BY <1>1, <2>1
  <2> QED
    BY <1>1, <2>1, <2>2, TaskList
<1>3. ASSUME NEW more \in BOOLEAN, ServiceSucceeds(t, more) PROVE ListInv'
  <2> DEFINE r == [old EXCEPT !.pc = "load", !.ok = TRUE, !.more = more]
  <2>1. /\ tasks' = [tasks EXCEPT ![t] = r]
        /\ old.pc = "service" /\ spent' = spent /\ comics' = comics
        /\ ops' = ops /\ rows' = rows /\ held' = held
    BY <1>3 DEF ServiceSucceeds, InService, dataVars
  <2>2. "list" \in DOMAIN r /\ r.list = old.list
    BY <1>1, <2>1
  <2> QED
    BY <1>1, <2>1, <2>2, TaskList
<1>4. CASE LoadForSync(t)
  <2> DEFINE good == [old EXCEPT !.pc = "release", !.list = Visible(rows)]
             bad == [old EXCEPT !.pc = "release", !.ok = FALSE]
  <2>1. /\ tasks' = [tasks EXCEPT ![t] = good] \/ tasks' = [tasks EXCEPT ![t] = bad]
        /\ old.pc = "load" /\ (spent' = spent \/ Spend("failures"))
        /\ comics' = comics /\ ops' = ops /\ rows' = rows /\ held' = held
    BY <1>4, ZenonT(40) DEF LoadForSync, dataVars
  <2>2. /\ "list" \in DOMAIN good /\ good.list = Visible(rows)
        /\ "list" \in DOMAIN bad /\ bad.list = old.list
    BY <1>1, <2>1
  <2>3. \A i \in DOMAIN Visible(rows) : <<i, Visible(rows)[i]>> \in held
    BY VisibleHeld DEF ListInv, Held
  <2> HIDE DEF good, bad
  <2>5. CASE tasks' = [tasks EXCEPT ![t] = good]
    BY <2>1, <2>2, <2>3, <2>5, TaskList
  <2>6. CASE tasks' = [tasks EXCEPT ![t] = bad]
    BY <1>1, <2>1, <2>2, <2>6, TaskList
  <2> QED
    BY <2>1, <2>5, <2>6
<1>5. CASE Release(t)
  <2>1. /\ tasks' = [tasks EXCEPT ![t] = goes("return")]
        /\ old.pc = "release" /\ spent' = spent /\ comics' = comics
        /\ ops' = ops /\ rows' = rows /\ held' = held
    BY <1>5 DEF Release, dataVars
  <2>2. /\ "list" \in DOMAIN goes("return")
        /\ goes("return").list = old.list
    BY <1>1, <2>1
  <2> QED
    BY <1>1, <2>1, <2>2, TaskList
<1> QED
  BY <1>2, <1>3, <1>4, <1>5, PageList, ReturnList DEF TaskStep

-----------------------------------------------------------------------------
(* An operation that is not one of the loads or saves that list and        *)
(* failures are about takes a step; a synchronization may start with it.   *)
LEMMA OpList ==
    ASSUME ListInv, NEW o \in Ops, NEW r, ops' = [ops EXCEPT ![o] = r],
           "pc" \in DOMAIN r,
           r.pc = "loaded" => \A i \in DOMAIN r.list : <<i, r.list[i]>> \in held,
           held \subseteq held', Held(rows)',
           spent' \in [{"calls", "pages", "failures"} -> Nat],
           NEW auto, NEW force, Sync(auto, force) \/ UNCHANGED syncVars,
           ListExplained'
    PROVE  ListInv'
<1>1. OpsHeld'
  BY OpsStayHeld DEF ListInv
<1>2. TasksHeld'
  BY TasksStayHeld DEF ListInv
<1> QED
  BY <1>1, <1>2 DEF ListInv

(* ... where the list stays, no save is given up, and a load goes on.      *)
LEMMA ModestOpList ==
    ASSUME ListInv, NEW o \in Ops, NEW r, ops' = [ops EXCEPT ![o] = r],
           "pc" \in DOMAIN r,
           r.pc = "loaded" => \A i \in DOMAIN r.list : <<i, r.list[i]>> \in held,
           held \subseteq held', Held(rows)', comics' = comics,
           spent' = spent \/ Spend("calls"),
           NEW auto, NEW force, Sync(auto, force) \/ UNCHANGED syncVars,
           ops[o].pc = "write" /\ ~ops[o].scan =>
              \A i \in DOMAIN ops[o].changes : <<i, ops[o].changes[i]>> \in held',
           ops[o].pc \in {"reload", "load", "loaded"} =>
              r.pc \in {"reload", "load", "loaded"}
    PROVE  ListInv'
<1>1. /\ ops'[o] = r
      /\ \A p \in Ops : p # o => ops'[p] = ops[p]
  BY OneOperation DEF ListInv
<1>2. /\ spent' \in [{"calls", "pages", "failures"} -> Nat]
      /\ spent'["failures"] = spent["failures"]
  BY Spending DEF ListInv
<1>3. Explained => Explained'
  BY <1>1, StaysExplained
<1>4. Restoring => Restoring'
  BY <1>1 DEF Restoring
<1>5. ListExplained'
  BY <1>2, <1>3, <1>4, ExplainedStep
<1> QED
  BY <1>2, <1>5, OpList

(* A save explains what it shows; the rest of the list was explained.      *)
LEMMA SaveList ==
    ASSUME ListInv, NEW o \in Ops, NEW changes \in Changes, Save(o, changes)
    PROVE  ListInv'
<1> DEFINE r == [pc |-> "write", changes |-> changes, scan |-> FALSE]
<1>1. /\ comics' = Shown(comics, changes)
      /\ ops' = [ops EXCEPT ![o] = r]
      /\ rows' = rows /\ held' = held /\ UNCHANGED syncVars /\ Spend("calls")
  BY DEF Save, dataVars
<1>2. ops[o] = Quiet
  BY DEF Save, Begin, ActiveOps
<1>3. /\ ops'[o] = r /\ \A p \in Ops : p # o => ops'[p] = ops[p]
  BY <1>1, OneOperation DEF ListInv
<1>4. /\ spent' \in [{"calls", "pages", "failures"} -> Nat]
      /\ spent'["failures"] = spent["failures"]
  BY <1>1, Spending
<1>5. \A i \in DOMAIN comics' :
         \/ i \in DOMAIN changes /\ comics'[i] = changes[i]
         \/ i \in DOMAIN comics /\ comics'[i] = comics[i]
  BY <1>1 DEF Shown, Visible, With, Restrict
<1>6. ASSUME Explained PROVE Explained'
  <2> SUFFICES ASSUME NEW i \in DOMAIN comics', <<i, comics'[i]>> \notin held
               PROVE  \E p \in Ops :
                         /\ ops'[p].pc = "write" /\ ~ops'[p].scan
                         /\ i \in DOMAIN ops'[p].changes
                         /\ ops'[p].changes[i] = comics'[i]
    BY <1>1 DEF Explained, Pending
  <2>1. CASE i \in DOMAIN changes /\ comics'[i] = changes[i]
    BY <1>3, <2>1
  <2>2. CASE i \in DOMAIN comics /\ comics'[i] = comics[i]
    <3>1. PICK p \in Ops : /\ ops[p].pc = "write" /\ ~ops[p].scan
                           /\ i \in DOMAIN ops[p].changes
                           /\ ops[p].changes[i] = comics[i]
      BY <1>6, <2>2 DEF Explained, Pending
    <3>2. ops'[p] = ops[p]
      BY <1>2, <1>3, <3>1 DEF Quiet
    <3> QED
      BY <2>2, <3>1, <3>2
  <2> QED
    BY <1>5, <2>1, <2>2
<1>7. Restoring => Restoring'
  BY <1>2, <1>3 DEF Restoring, Quiet
<1>8. ListExplained'
  BY <1>4, <1>6, <1>7, ExplainedStep
<1>9. Held(rows)'
  BY <1>1 DEF ListInv, Held
<1>10. "pc" \in DOMAIN r /\ r.pc = "write" /\ held \subseteq held'
  BY <1>1
<1> HIDE DEF r
<1> QED
  BY <1>1, <1>4, <1>8, <1>9, <1>10, OpList

LEMMA CallList ==
    ASSUME ListInv, NEW o \in Ops, Call(o)
    PROVE  ListInv'
<1>1. Begin(o) => ops[o].pc = "none"
  BY DEF Begin, ActiveOps, Quiet
<1>2. rows' = rows /\ held' = held => Held(rows)'
  BY DEF ListInv, Held
<1>3. ASSUME NEW changes \in Changes, SaveScan(o, changes) PROVE ListInv'
  <2> DEFINE r == [pc |-> "write", changes |-> changes, scan |-> TRUE]
  <2>1. /\ ops' = [ops EXCEPT ![o] = r] /\ ops[o].pc = "none"
        /\ rows' = rows /\ held' = held /\ comics' = comics
        /\ UNCHANGED syncVars /\ Spend("calls")
    BY <1>1, <1>3 DEF SaveScan, dataVars
  <2>2. "pc" \in DOMAIN r /\ r.pc = "write"
    OBVIOUS
  <2> HIDE DEF r
  <2> QED
    BY <1>2, <2>1, <2>2, ModestOpList
<1>4. CASE Reload(o)
  <2>1. /\ ops' = [ops EXCEPT ![o] = Reloading(FALSE)] /\ ops[o].pc = "none"
        /\ rows' = rows /\ held' = held /\ comics' = comics
        /\ UNCHANGED syncVars /\ Spend("calls")
    BY <1>1, <1>4 DEF Reload, dataVars
  <2>2. "pc" \in DOMAIN Reloading(FALSE) /\ Reloading(FALSE).pc = "reload"
    BY DEF Reloading
  <2> QED
    BY <1>2, <2>1, <2>2, ModestOpList
<1>5. CASE Reset(o)
  <2> DEFINE r == [pc |-> "reset"]
  <2>1. /\ ops' = [ops EXCEPT ![o] = r] /\ ops[o].pc = "none"
        /\ rows' = rows /\ held' = held /\ comics' = comics
        /\ UNCHANGED syncVars /\ Spend("calls")
    BY <1>1, <1>5 DEF Reset, dataVars
  <2>2. "pc" \in DOMAIN r /\ r.pc = "reset"
    OBVIOUS
  <2> HIDE DEF r
  <2> QED
    BY <1>2, <2>1, <2>2, ModestOpList
<1>6. ASSUME NEW p \in Preferences, NEW value \in BOOLEAN,
             UpdatePreferences(o, p, value)
      PROVE  ListInv'
  <2> DEFINE r == [pc |-> "persist", preference |-> p,
                   updated |-> [settings EXCEPT ![p] = value]]
  <2>1. /\ ops' = [ops EXCEPT ![o] = r] /\ ops[o].pc = "none"
        /\ rows' = rows /\ held' = held /\ comics' = comics
        /\ UNCHANGED syncVars /\ Spend("calls")
    BY <1>1, <1>6 DEF UpdatePreferences, dataVars
  <2>2. "pc" \in DOMAIN r /\ r.pc = "persist"
    OBVIOUS
  <2> HIDE DEF r
  <2> QED
    BY <1>2, <2>1, <2>2, ModestOpList
<1> QED
  BY <1>3, <1>4, <1>5, <1>6, SaveList DEF Call

-----------------------------------------------------------------------------
(* What a save showed, the database holds once it is written.              *)
LEMMA WriteList ==
    ASSUME ListInv, NEW o \in Ops, Write(o)
    PROVE  ListInv'
<1> DEFINE r == [pc |-> "written", scan |-> ops[o].scan]
           changes == ops[o].changes
<1>1. /\ ops' = [ops EXCEPT ![o] = r] /\ ops[o].pc = "write"
      /\ rows' = With(rows, changes)
      /\ held' = held \cup {<<i, changes[i]>> : i \in DOMAIN changes}
      /\ comics' = comics /\ UNCHANGED syncVars /\ spent' = spent
  BY DEF Write
<1>2. \A i \in DOMAIN changes : <<i, changes[i]>> \in held'
  BY <1>1
<1>3. ASSUME NEW i \in DOMAIN rows' PROVE <<i, rows'[i]>> \in held'
  <2>1. CASE i \in DOMAIN changes
    BY <1>1, <1>2, <2>1 DEF With
  <2>2. CASE i \notin DOMAIN changes
    <3>1. i \in DOMAIN rows /\ rows'[i] = rows[i]
      BY <1>1, <2>2 DEF With
    <3> QED
      BY <1>1, <3>1 DEF ListInv, Held
  <2> QED
    BY <2>1, <2>2
<1>4. Held(rows)'
  BY <1>3 DEF Held
<1>5. held \subseteq held'
  BY <1>1
<1>6. "pc" \in DOMAIN r /\ r.pc = "written"
  OBVIOUS
<1> HIDE DEF r
<1> QED
  BY <1>1, <1>2, <1>4, <1>5, <1>6, ModestOpList

(* A save that fails loads the list again, a scan had shown nothing.       *)
LEMMA WriteFailsList ==
    ASSUME ListInv, NEW o \in Ops, WriteFails(o)
    PROVE  ListInv'
<1> DEFINE r == AfterFailure(ops[o].scan)
<1>1. /\ ops' = [ops EXCEPT ![o] = r] /\ ops[o].pc = "write"
      /\ rows' = rows /\ held' = held /\ comics' = comics
      /\ UNCHANGED syncVars /\ Spend("failures")
  BY DEF WriteFails, dataVars
<1>2. /\ ops'[o] = r /\ \A p \in Ops : p # o => ops'[p] = ops[p]
  BY <1>1, OneOperation DEF ListInv
<1>3. /\ spent' \in [{"calls", "pages", "failures"} -> Nat]
      /\ spent'["failures"] = spent["failures"] + 1
      /\ spent["failures"] \in Nat
  BY <1>1, Spending DEF ListInv
<1>4. CASE ops[o].scan
  <2>1. "pc" \in DOMAIN r /\ r.pc = "none"
    BY <1>4 DEF AfterFailure, Quiet
  <2>2. Explained => Explained'
    BY <1>1, <1>2, <1>4, StaysExplained
  <2>3. ListExplained'
    BY <1>3, <2>2 DEF ListInv, ListExplained
  <2> QED
    BY <1>1, <1>3, <2>1, <2>3, OpList DEF ListInv, Held
<1>5. CASE ~ops[o].scan
  <2>1. "pc" \in DOMAIN r /\ r.pc = "reload"
    BY <1>5 DEF AfterFailure, Reloading
  <2>2. Restoring'
    BY <1>2, <2>1 DEF Restoring
  <2>3. ListExplained'
    BY <1>3, <2>2 DEF ListExplained
  <2> QED
    BY <1>1, <1>3, <2>1, <2>3, OpList DEF ListInv, Held
<1> QED
  BY <1>4, <1>5

(* A load that fails is the first failure, or there were two.              *)
LEMMA LoadList ==
    ASSUME ListInv, NEW o \in Ops, Load(o)
    PROVE  ListInv'
<1> DEFINE r == [pc |-> "loaded", sync |-> ops[o].sync, list |-> Visible(rows)]
<1>1. /\ ops[o].pc = "load"
      /\ rows' = rows /\ held' = held /\ comics' = comics /\ UNCHANGED syncVars
      /\ \/ ops' = [ops EXCEPT ![o] = r] /\ spent' = spent
         \/ ops' = [ops EXCEPT ![o] = Quiet] /\ Spend("failures")
  BY DEF Load, dataVars
<1>2. Held(rows)' /\ \A i \in DOMAIN Visible(rows) : <<i, Visible(rows)[i]>> \in held
  BY <1>1, VisibleHeld DEF ListInv, Held
<1>3. CASE ops' = [ops EXCEPT ![o] = r] /\ spent' = spent
  <2>1. "pc" \in DOMAIN r /\ r.pc = "loaded" /\ r.list = Visible(rows)
    OBVIOUS
  <2> HIDE DEF r
  <2> QED
    BY <1>1, <1>2, <1>3, <2>1, ModestOpList
<1>4. CASE ops' = [ops EXCEPT ![o] = Quiet] /\ Spend("failures")
  <2>1. /\ spent' \in [{"calls", "pages", "failures"} -> Nat]
        /\ spent'["failures"] = spent["failures"] + 1
        /\ spent["failures"] \in Nat
    BY <1>4, Spending DEF ListInv
  <2>2. /\ ops'[o] = Quiet /\ \A p \in Ops : p # o => ops'[p] = ops[p]
    BY <1>4, OneOperation DEF ListInv
  <2>3. Explained => Explained'
    BY <1>1, <2>2, StaysExplained
  <2>4. ListExplained'
    BY <2>1, <2>3 DEF ListInv, ListExplained
  <2>5. "pc" \in DOMAIN Quiet /\ Quiet.pc = "none"
    BY DEF Quiet
  <2> QED
    BY <1>1, <1>2, <1>4, <2>1, <2>4, <2>5, OpList
<1> QED
  BY <1>1, <1>3, <1>4

LEMMA ShowLoadedList ==
    ASSUME ListInv, NEW o \in Ops, ShowLoaded(o)
    PROVE  ListInv'
<1>1. /\ ops[o].pc = "loaded" /\ comics' = ops[o].list
      /\ ops' = [ops EXCEPT ![o] = Quiet]
      /\ rows' = rows /\ held' = held /\ spent' = spent
      /\ Sync(settings["autoSync"], FALSE) \/ UNCHANGED syncVars
  BY DEF ShowLoaded, dataVars
<1>2. \A i \in DOMAIN comics' : <<i, comics'[i]>> \in held'
  BY <1>1 DEF ListInv, OpsHeld, Held
<1>3. ListExplained'
  BY <1>1, <1>2, LoadedIsExplained, ExplainedStep
<1>4. "pc" \in DOMAIN Quiet /\ Quiet.pc = "none"
  BY DEF Quiet
<1>5. Held(rows)' /\ spent' \in [{"calls", "pages", "failures"} -> Nat]
  BY <1>1 DEF ListInv, Held
<1> QED
  BY <1>1, <1>3, <1>4, <1>5, OpList

LEMMA OpStepList ==
    ASSUME ListInv, NEW o \in Ops, OpStep(o)
    PROVE  ListInv'
<1>1. "pc" \in DOMAIN ops[o]
  BY DEF ListInv, OpsHeld
<1>2. /\ "pc" \in DOMAIN Quiet /\ Quiet.pc = "none"
      /\ \A sync : "pc" \in DOMAIN Reloading(sync) /\ Reloading(sync).pc = "reload"
  BY DEF Quiet, Reloading
<1>3. rows' = rows /\ held' = held => Held(rows)'
  BY DEF ListInv, Held
<1>4. CASE AfterWrite(o)
  <2>1. /\ ops[o].pc = "written"
        /\ rows' = rows /\ held' = held /\ spent' = spent /\ comics' = comics
        /\ Sync(settings["autoSync"], FALSE) \/ UNCHANGED syncVars
        /\ \/ ops' = [ops EXCEPT ![o] = Quiet]
           \/ ops' = [ops EXCEPT ![o] = Reloading(TRUE)]
    BY <1>4 DEF AfterWrite, dataVars
  <2>2. CASE ops' = [ops EXCEPT ![o] = Quiet]
    BY <1>2, <1>3, <2>1, <2>2, ModestOpList
  <2>3. CASE ops' = [ops EXCEPT ![o] = Reloading(TRUE)]
    BY <1>2, <1>3, <2>1, <2>3, ModestOpList
  <2> QED
    BY <2>1, <2>2, <2>3
<1>5. CASE RequestLoad(o)
  <2> DEFINE r == [ops[o] EXCEPT !.pc = "load"]
  <2>1. /\ ops[o].pc = "reload" /\ ops' = [ops EXCEPT ![o] = r]
        /\ rows' = rows /\ held' = held /\ spent' = spent /\ comics' = comics
        /\ UNCHANGED syncVars
    BY <1>5 DEF RequestLoad, dataVars
  <2>2. "pc" \in DOMAIN r /\ r.pc = "load"
    BY <1>1
  <2> QED
    BY <1>3, <2>1, <2>2, ModestOpList
<1>6. CASE Persist(o)
  <2> DEFINE r == [ops[o] EXCEPT !.pc = "adopt"]
  <2>1. /\ ops[o].pc = "persist"
        /\ rows' = rows /\ held' = held /\ spent' = spent /\ comics' = comics
        /\ UNCHANGED syncVars
        /\ ops' = [ops EXCEPT ![o] = r] \/ ops' = [ops EXCEPT ![o] = Quiet]
    BY <1>6 DEF Persist, dataVars
  <2>2. "pc" \in DOMAIN r /\ r.pc = "adopt"
    BY <1>1
  <2>3. CASE ops' = [ops EXCEPT ![o] = r]
    BY <1>3, <2>1, <2>2, <2>3, ModestOpList
  <2>4. CASE ops' = [ops EXCEPT ![o] = Quiet]
    BY <1>2, <1>3, <2>1, <2>4, ModestOpList
  <2> QED
    BY <2>1, <2>3, <2>4
<1>7. CASE Adopt(o)
  <2>1. /\ ops[o].pc = "adopt" /\ ops' = [ops EXCEPT ![o] = Quiet]
        /\ rows' = rows /\ held' = held /\ spent' = spent /\ comics' = comics
        /\ Sync(TRUE, FALSE) \/ UNCHANGED syncVars
    BY <1>7 DEF Adopt, dataVars
  <2> QED
    BY <1>2, <1>3, <2>1, ModestOpList
<1>8. CASE ResetDone(o)
  <2>1. /\ ops[o].pc = "reset" /\ ops' = [ops EXCEPT ![o] = Quiet]
        /\ rows' = rows /\ held' = held /\ spent' = spent /\ comics' = comics
        /\ UNCHANGED syncVars
    BY <1>8 DEF ResetDone, dataVars
  <2> QED
    BY <1>2, <1>3, <2>1, ModestOpList
<1> QED
  BY <1>4, <1>5, <1>6, <1>7, <1>8, WriteList, WriteFailsList, LoadList,
     ShowLoadedList DEF OpStep

LEMMA InitList == Init => ListInv
<1> SUFFICES ASSUME Init PROVE ListInv
  OBVIOUS
<1>1. ActiveTasks = {}
  BY DEF Init, ActiveTasks
<1>2. Held(rows)
  BY DEF Init, Held
<1>3. comics = Visible(rows)
  BY DEF Init
<1>4. Explained
  BY <1>2, <1>3, VisibleHeld DEF Explained, Held
<1>5. OpsHeld
  BY DEF Init, OpsHeld, Quiet
<1>6. TasksHeld
  BY <1>1 DEF Init, TasksHeld
<1>7. spent \in [{"calls", "pages", "failures"} -> Nat]
  BY DEF Init
<1> QED
  BY <1>2, <1>4, <1>5, <1>6, <1>7 DEF ListInv, ListExplained

LEMMA NextList == ListInv /\ [Next]_vars => ListInv'
<1> SUFFICES ASSUME ListInv, [Next]_vars PROVE ListInv'
  OBVIOUS
<1>1. CASE UNCHANGED vars
  BY <1>1, ElsewhereList DEF vars, syncVars, dataVars
<1>2. CASE Tick
  BY <1>2, ElsewhereList DEF Tick, dataVars
<1>3. CASE Continue
  BY <1>3, ElsewhereList DEF Continue, dataVars
<1>4. ASSUME NEW force \in BOOLEAN, CallSync(force) PROVE ListInv'
  BY <1>4, ElsewhereList DEF CallSync, dataVars
<1>5. CASE BeginClose \/ CloseStep
  BY <1>5, ElsewhereList DEF BeginClose, CloseStep, dataVars
<1> QED
  BY <1>1, <1>2, <1>3, <1>4, <1>5, CallList, OpStepList, TaskStepList DEF Next

(* However saves, loads and synchronizations overlap, whichever of the     *)
(* database's requests fails: when everything has settled, the list shows  *)
(* only what the database has held, unless a second request failed too.    *)
THEOREM NothingPhantom == Spec => []NoPhantoms
<1>1. ListInv => NoPhantoms
  <2> SUFFICES ASSUME ListInv, AtRest, spent["failures"] <= 1,
                      NEW i \in DOMAIN comics
               PROVE  <<i, comics[i]>> \in held
    BY DEF NoPhantoms
  <2>1. \A o \in Ops : ops[o].pc = "none"
    BY DEF AtRest, ActiveOps, Quiet
  <2>2. ~Restoring /\ ~Pending(i)
    BY <2>1 DEF Restoring, Pending
  <2>3. spent["failures"] = 0 \/ spent["failures"] = 1
    BY DEF ListInv
  <2> QED
    BY <2>2, <2>3 DEF ListInv, ListExplained, Explained
<1> QED
  BY <1>1, InitList, NextList, PTL DEF Spec

-----------------------------------------------------------------------------
(***************************************************************************)
(* AppRuntimes.                                                            *)
(***************************************************************************)

(* Who the latest replacement is for.                                      *)
Latest == IF generation = 0 THEN Nobody ELSE call[generation].who

(* Only the latest replacement may show its runtime, and it is for whoever *)
(* is present; what opens is what the latest replacement is for.           *)
LatestIsPresent ==
    /\ runtime \in {0, generation}
    /\ \A g \in Calls : g > generation => call[g] = NoCall
    /\ \A g \in Calls : g = generation /\ call[g].pc # "done" => ~failed /\ runtime = 0
    /\ opening # Nobody => opening = Latest /\ ~guest
    /\ guest => Latest = Guest /\ auth = "out"
    /\ auth \in Accounts => Latest = auth

(* A runtime that has a database is shown, in the making, to be discarded  *)
(* or the previous one of a call that closes it; no open database is       *)
(* without a runtime.                                                      *)
Kept(g) ==
    \/ g = runtime
    \/ call[g].pc \in {"initialize", "discard"}
    \/ \E h \in Calls : call[h].pc = "close" /\ call[h].previous = g

DatabasesAreHeld ==
    /\ \A g \in Calls : call[g].pc \in {"close", "create"} \/ g > generation =>
             handle[g] = 0
    /\ \A g \in Calls : handle[g] # 0 => Kept(g)
    /\ \A i \in open : \E g \in Calls : handle[g] = i

RuntimesInv == RuntimesTypeOK /\ LatestIsPresent /\ DatabasesAreHeld

-----------------------------------------------------------------------------
(* A replacement becomes the latest, and only adds its call.               *)
LEMMA ReplaceIsLatest ==
    ASSUME RuntimesTypeOK, LatestIsPresent, NEW who \in Who \cup {Nobody}, Replace(who)
    PROVE  /\ generation' = generation + 1 /\ generation' \in Calls
           /\ call' \in [Calls -> CallRecords]
           /\ Latest' = who /\ runtime' = 0 /\ failed' = FALSE
           /\ call[generation'] = NoCall
           /\ \A g \in Calls : g # generation' => call'[g] = call[g]
           /\ \A g \in Calls : g > generation' => call'[g] = NoCall
           /\ call'[generation'].previous = runtime
           /\ runtime # 0 => call'[generation'].pc = "close"
<1> DEFINE new == [pc |-> IF runtime # 0 THEN "close"
                          ELSE IF who # Nobody THEN "create" ELSE "done",
                   previous |-> runtime, who |-> who]
<1>1. generation' = generation + 1 /\ generation' \in Calls
  BY RuntimesAssumption DEF Replace, RuntimesTypeOK, Calls
<1>2. call' = [call EXCEPT ![generation'] = new]
  BY <1>1 DEF Replace
<1>3. call'[generation'] = new /\ \A g \in Calls : g # generation' => call'[g] = call[g]
  BY <1>1, <1>2 DEF RuntimesTypeOK
<1>4. new \in CallRecords
  BY DEF RuntimesTypeOK, CallRecords
<1>5. call' \in [Calls -> CallRecords]
  BY <1>1, <1>2, <1>4 DEF RuntimesTypeOK
<1>6. generation \in Nat /\ \A g \in Calls : g \in Nat
  BY DEF RuntimesTypeOK, Calls
<1>7. call[generation'] = NoCall
  BY <1>1, <1>6 DEF LatestIsPresent
<1>8. ASSUME NEW g \in Calls, g > generation'
      PROVE  call'[g] = NoCall
  <2>1. g # generation' /\ g > generation
    BY <1>1, <1>6, <1>8
  <2> QED
    BY <1>3, <2>1 DEF LatestIsPresent
<1>9. Latest' = who
  BY <1>1, <1>3, <1>6 DEF Latest
<1> QED
  BY <1>1, <1>3, <1>5, <1>7, <1>8, <1>9 DEF Replace

(* It takes the databases into account: the shown runtime is now previous. *)
LEMMA ReplaceHolds ==
    ASSUME RuntimesInv, NEW who \in Who \cup {Nobody}, Replace(who), UNCHANGED dbVars
    PROVE  DatabasesAreHeld'
<1> USE DEF RuntimesInv
<1>1. generation' = generation + 1 /\ generation' \in Calls
      /\ call[generation'] = NoCall
      /\ (\A g \in Calls : g # generation' => call'[g] = call[g])
      /\ call'[generation'].previous = runtime
      /\ (runtime # 0 => call'[generation'].pc = "close")
  BY ReplaceIsLatest
<1>2. generation \in Nat /\ \A g \in Calls : g \in Nat /\ g # 0
  BY DEF RuntimesTypeOK, Calls
<1>3. call[generation'].pc = "done"
  BY <1>1 DEF NoCall
<1>4. ASSUME NEW g \in Calls, call'[g].pc \in {"close", "create"} \/ g > generation'
      PROVE  handle'[g] = 0
  <2>1. CASE g = generation' \/ g > generation'
    <3>1. generation' = generation + 1 /\ generation \in Nat /\ g \in Nat
      BY <1>1, <1>2
    <3>2. g > generation
      BY <2>1, <3>1
    <3> QED
      BY <3>2 DEF DatabasesAreHeld, dbVars
  <2>2. CASE g # generation' /\ call'[g].pc \in {"close", "create"}
    BY <1>1, <2>2 DEF DatabasesAreHeld, dbVars
  <2> QED
    BY <1>4, <2>1, <2>2
<1>5. ASSUME NEW g \in Calls, handle'[g] # 0
      PROVE  Kept(g)'
  <2>1. Kept(g)
    BY <1>5 DEF DatabasesAreHeld, dbVars
  <2>2. CASE g = runtime
    BY <1>1, <1>2, <2>2 DEF Kept
  <2>3. CASE call[g].pc \in {"initialize", "discard"}
    BY <1>1, <1>3, <2>3 DEF Kept
  <2>4. CASE \E h \in Calls : call[h].pc = "close" /\ call[h].previous = g
    BY <1>1, <1>3, <2>4 DEF Kept
  <2> QED
    BY <2>1, <2>2, <2>3, <2>4 DEF Kept
<1>6. \A i \in open' : \E g \in Calls : handle'[g] = i
  BY DEF DatabasesAreHeld, dbVars
<1> QED
  BY <1>4, <1>5, <1>6 DEF DatabasesAreHeld

(* Nothing about databases and calls changes when no runtime is replaced.  *)
LEMMA KeptIsHeld ==
    ASSUME DatabasesAreHeld, KeepRuntime, UNCHANGED dbVars
    PROVE  DatabasesAreHeld'
  BY DEF DatabasesAreHeld, KeepRuntime, dbVars, Kept

(* A change of the session, whatever reconciliation it leads to.           *)
LEMMA ReconciledInv ==
    ASSUME RuntimesInv, ~guest,
           NEW state \in {"restoring", "out", "submitting"} \cup Accounts,
           Becomes(state)
    PROVE  RuntimesInv'
<1> USE DEF RuntimesInv
<1>1. auth' = state /\ guest' = guest /\ UNCHANGED dbVars
  BY DEF Becomes
<1>2. Nobody \notin Accounts /\ Nobody \notin Who
      /\ \A a \in Accounts : a \notin {"restoring", "out", "submitting"}
  BY RuntimesAssumption DEF Who
<1>3. Owner # Nobody => Owner = Latest
  BY DEF Owner, Latest, LatestIsPresent
<1>4. CASE KeepRuntime /\ UNCHANGED opening
           /\ (state \in Accounts => state \in {Owner, opening})
  <2>1. RuntimesTypeOK'
    BY <1>1, <1>4 DEF RuntimesTypeOK, KeepRuntime, dbVars
  <2>2. Latest' = Latest
    BY <1>4 DEF Latest, KeepRuntime
  <2>3. state \in Accounts => Latest = state
    BY <1>2, <1>3, <1>4 DEF LatestIsPresent
  <2>4. LatestIsPresent'
    BY <1>1, <1>4, <2>2, <2>3 DEF LatestIsPresent, KeepRuntime
  <2> QED
    BY <1>1, <1>4, <2>1, <2>4, KeptIsHeld
<1>5. ASSUME NEW who \in Accounts \cup {Nobody}, Replace(who), opening' = who,
             state \in Accounts => who = state
      PROVE  RuntimesInv'
  <2>1. who \in Who \cup {Nobody}
    BY DEF Who
  <2>2. /\ generation' = generation + 1 /\ generation' \in Calls
        /\ call' \in [Calls -> CallRecords]
        /\ Latest' = who /\ runtime' = 0 /\ failed' = FALSE
        /\ \A g \in Calls : g > generation' => call'[g] = NoCall
    BY <1>5, <2>1, ReplaceIsLatest
  <2>3. RuntimesTypeOK'
    <3>1. generation' \in 0..MaxReplacements /\ 0 \in 0..MaxReplacements
      BY <2>2, RuntimesAssumption DEF Calls
    <3> QED
      BY <1>1, <1>5, <2>2, <3>1 DEF RuntimesTypeOK, dbVars
  <2>4. LatestIsPresent'
    BY <1>1, <1>5, <2>2 DEF LatestIsPresent
  <2>5. DatabasesAreHeld'
    BY <1>1, <1>5, <2>1, ReplaceHolds
  <2> QED
    BY <2>3, <2>4, <2>5
<1>6. CASE state \in Accounts
  <2>1. CASE state \in {Owner, opening}
    BY <1>4, <1>6, <2>1 DEF Becomes, Reconcile
  <2>2. CASE state \notin {Owner, opening}
    BY <1>5, <1>6, <2>2 DEF Becomes, Reconcile
  <2> QED
    BY <2>1, <2>2
<1>7. CASE state \notin Accounts
  <2>1. CASE Owner \in Accounts \/ opening # Nobody
    BY <1>5, <1>7, <2>1 DEF Becomes, Reconcile, Left
  <2>2. CASE ~(Owner \in Accounts \/ opening # Nobody)
    BY <1>4, <1>7, <2>2 DEF Becomes, Reconcile
  <2> QED
    BY <2>1, <2>2
<1> QED
  BY <1>6, <1>7

(* A replacement for a guest who enters, tries again or leaves.            *)
LEMMA GuestInv ==
    ASSUME RuntimesInv, NEW who \in {Guest, Nobody}, Replace(who), opening' = Nobody,
           auth = "out", UNCHANGED <<auth, dbVars>>,
           guest' \in BOOLEAN, guest' => who = Guest
    PROVE  RuntimesInv'
<1> USE DEF RuntimesInv
<1>1. who \in Who \cup {Nobody}
  BY DEF Who
<1>2. /\ generation' = generation + 1 /\ generation' \in Calls
      /\ call' \in [Calls -> CallRecords]
      /\ Latest' = who /\ runtime' = 0 /\ failed' = FALSE
      /\ \A g \in Calls : g > generation' => call'[g] = NoCall
  BY <1>1, ReplaceIsLatest
<1>3. RuntimesTypeOK'
  <2>1. generation' \in 0..MaxReplacements /\ 0 \in 0..MaxReplacements
    BY <1>2, RuntimesAssumption DEF Calls
  <2> QED
    BY <1>2, <2>1 DEF RuntimesTypeOK, dbVars
<1>4. auth' \notin Accounts
  BY RuntimesAssumption
<1>5. LatestIsPresent'
  BY <1>2, <1>4 DEF LatestIsPresent
<1>6. DatabasesAreHeld'
  BY <1>1, ReplaceHolds
<1> QED
  BY <1>3, <1>5, <1>6

-----------------------------------------------------------------------------
(* A step of a call goes on to another pc, and may show its runtime.       *)
LEMMA StepKeepsLatest ==
    ASSUME RuntimesInv, NEW g \in Calls, g <= generation,
           call' \in [Calls -> CallRecords],
           \A h \in Calls : call'[h].who = call[h].who,
           \A h \in Calls : h # g => call'[h] = call[h],
           g # generation => failed' = failed,
           g = generation /\ call'[g].pc # "done" => ~failed' /\ runtime' = 0,
           opening' \in {opening, Nobody},
           auth' = auth, guest' = guest, generation' = generation,
           runtime' = runtime \/ (runtime' = g /\ g = generation)
    PROVE  LatestIsPresent'
<1> USE DEF RuntimesInv
<1>1. generation = 0 \/ generation \in Calls
  BY DEF RuntimesTypeOK, Calls
<1>2. Latest' = Latest
  BY <1>1 DEF Latest
<1>3. \A h \in Calls : h > generation => h # g
  BY DEF RuntimesTypeOK, Calls
<1> QED
  BY <1>2, <1>3 DEF LatestIsPresent

(* A call under way was made.                                              *)
LEMMA UnderWay ==
    ASSUME RuntimesInv, NEW g \in Calls, call[g].pc # "done"
    PROVE  g <= generation
<1>1. g > generation => call[g].pc = "done"
  BY DEF RuntimesInv, LatestIsPresent, NoCall
<1> QED
  BY <1>1 DEF RuntimesInv, RuntimesTypeOK, Calls

(* The handles and calls that a step leaves alone are still kept.          *)
LEMMA StillKept ==
    ASSUME RuntimesInv, NEW g \in Calls, call[g].pc # "close",
           \A h \in Calls : h # g => call'[h] = call[h],
           runtime' = runtime \/ (runtime' = g /\ runtime \in {0, g}),
           NEW h \in Calls, h # g, handle[h] # 0
    PROVE  Kept(h)'
<1>1. Kept(h)
  BY DEF RuntimesInv, DatabasesAreHeld
<1>2. h # 0
  BY DEF RuntimesInv, RuntimesTypeOK, Calls
<1> QED
  BY <1>1, <1>2 DEF Kept

LEMMA PreviousClosedInv ==
    ASSUME RuntimesInv, NEW g \in Calls, PreviousClosed(g) \/ CloseFails(g)
    PROVE  RuntimesInv'
<1> USE DEF RuntimesInv
<1> DEFINE p == call[g].previous
<1>1. /\ g <= generation /\ handle[g] = 0 /\ call[g].pc = "close"
      /\ g = generation => ~failed /\ runtime = 0
  BY UnderWay DEF PreviousClosed, CloseFails, DatabasesAreHeld, LatestIsPresent
<1>2. PICK pc \in {"create", "done"} : call' = [call EXCEPT ![g].pc = pc]
  BY DEF PreviousClosed, CloseFails, Returns
<1>3. /\ opening' \in {opening, Nobody}
      /\ auth' = auth /\ guest' = guest /\ generation' = generation
      /\ runtime' = runtime
      /\ open' = open \ {handle[p]} /\ handle' = [handle EXCEPT ![p] = 0]
  BY DEF PreviousClosed, CloseFails, Returns, CloseDatabase
<1>4. /\ call' \in [Calls -> CallRecords]
      /\ \A h \in Calls : call'[h].who = call[h].who
      /\ \A h \in Calls : h # g => call'[h] = call[h]
  BY <1>2 DEF RuntimesTypeOK, CallRecords
<1>5. /\ failed' \in BOOLEAN /\ (failed' => runtime' = 0)
      /\ g # generation \/ call'[g].pc # "done" => failed' = failed
  <2>1. CASE PreviousClosed(g)
    BY <1>1, <2>1 DEF PreviousClosed, RuntimesTypeOK
  <2>2. CASE CloseFails(g)
    <3>1. call' = [call EXCEPT ![g].pc = "done"]
      BY <2>2 DEF CloseFails, Returns
    <3>2. call'[g].pc = "done"
      BY <3>1, <1>4 DEF RuntimesTypeOK, CallRecords
    <3> QED
      BY <1>1, <2>2, <3>2 DEF CloseFails, Current, RuntimesTypeOK
  <2> QED
    BY <2>1, <2>2
<1>6. LatestIsPresent'
  BY <1>1, <1>3, <1>4, <1>5, StepKeepsLatest
<1>7. \A h \in Calls : handle'[h] = (IF h = p THEN 0 ELSE handle[h])
  BY <1>3 DEF RuntimesTypeOK
<1>8. RuntimesTypeOK'
  <2>1. 0 \in 0..MaxReplacements
    BY RuntimesAssumption
  <2>2. handle' \in [Calls -> 0..MaxReplacements] /\ open' \subseteq Calls
    BY <1>3, <2>1 DEF RuntimesTypeOK
  <2> QED
    BY <1>3, <1>4, <1>5, <2>2 DEF RuntimesTypeOK
<1>9. ASSUME NEW h \in Calls, handle'[h] # 0
      PROVE  Kept(h)'
  <2>1. Kept(h) /\ h # p /\ h # g
    BY <1>1, <1>7, <1>9 DEF DatabasesAreHeld
  <2> QED
    BY <1>3, <1>4, <2>1 DEF Kept
<1>10. ASSUME NEW h \in Calls, call'[h].pc \in {"close", "create"} \/ h > generation'
      PROVE  handle'[h] = 0
  BY <1>1, <1>3, <1>4, <1>7, <1>10 DEF DatabasesAreHeld
<1>11. \A i \in open' : \E h \in Calls : handle'[h] = i
  BY <1>3, <1>7 DEF DatabasesAreHeld
<1> QED
  BY <1>6, <1>8, <1>9, <1>10, <1>11 DEF DatabasesAreHeld

LEMMA CreateInv ==
    ASSUME RuntimesInv, NEW g \in Calls, Create(g)
    PROVE  RuntimesInv'
<1> USE DEF RuntimesInv
<1>1. /\ g <= generation /\ handle[g] = 0 /\ call[g].pc = "create"
      /\ g = generation => ~failed /\ runtime = 0
  BY UnderWay DEF Create, DatabasesAreHeld, LatestIsPresent
<1>2. /\ call' = [call EXCEPT ![g].pc = "initialize"]
      /\ auth' = auth /\ guest' = guest /\ generation' = generation
      /\ opening' = opening /\ runtime' = runtime /\ failed' = failed
  BY DEF Create, appVars
<1>3. PICK i \in Calls : handle' = [handle EXCEPT ![g] = i] /\ open' = open \cup {i}
  <2> DEFINE same == {h \in open : call[h].who = call[g].who}
             i == IF same = {} THEN g ELSE CHOOSE h \in same : TRUE
  <2>1. i \in Calls
    BY DEF RuntimesTypeOK
  <2>2. handle' = [handle EXCEPT ![g] = i]
    BY DEF Create, OpenDatabase
  <2>3. handle'[g] = i
    BY <2>2 DEF RuntimesTypeOK
  <2>4. open' = open \cup {i}
    BY <2>3 DEF Create, OpenDatabase
  <2> QED
    BY <2>1, <2>2, <2>4
<1>4. /\ call' \in [Calls -> CallRecords]
      /\ \A h \in Calls : call'[h].who = call[h].who
      /\ \A h \in Calls : h # g => call'[h] = call[h]
  BY <1>2 DEF RuntimesTypeOK, CallRecords
<1>5. LatestIsPresent'
  BY <1>1, <1>2, <1>4, StepKeepsLatest
<1>6. RuntimesTypeOK'
  <2>1. Calls \subseteq 0..MaxReplacements
    BY DEF Calls
  <2> QED
    BY <1>2, <1>3, <1>4, <2>1 DEF RuntimesTypeOK
<1>7. \A h \in Calls : handle'[h] = (IF h = g THEN i ELSE handle[h])
  BY <1>3 DEF RuntimesTypeOK
<1>8. call'[g].pc = "initialize"
  BY <1>2 DEF RuntimesTypeOK, CallRecords
<1>9. ASSUME NEW h \in Calls, handle'[h] # 0
      PROVE  Kept(h)'
  <2>1. CASE h = g
    BY <1>8, <2>1 DEF Kept
  <2>2. CASE h # g
    BY <1>1, <1>2, <1>4, <1>7, <1>9, <2>2, StillKept
  <2> QED
    BY <2>1, <2>2
<1>10. ASSUME NEW h \in Calls, call'[h].pc \in {"close", "create"} \/ h > generation'
       PROVE  handle'[h] = 0
  <2>1. h # g
    BY <1>1, <1>2, <1>8, <1>10 DEF RuntimesTypeOK, Calls
  <2> QED
    BY <1>2, <1>4, <1>7, <1>10, <2>1 DEF DatabasesAreHeld
<1>11. \A j \in open' : \E h \in Calls : handle'[h] = j
  BY <1>1, <1>3, <1>7 DEF DatabasesAreHeld, RuntimesTypeOK, Calls
<1> QED
  BY <1>5, <1>6, <1>9, <1>10, <1>11 DEF DatabasesAreHeld

(* The steps that leave the databases alone.                               *)
LEMMA NoDatabaseInv ==
    ASSUME RuntimesInv, NEW g \in Calls, CreateFails(g) \/ Created(g)
    PROVE  RuntimesInv'
<1> USE DEF RuntimesInv
<1>1. g <= generation /\ call[g].pc \in {"create", "initialize"}
      /\ (call[g].pc = "create" => handle[g] = 0)
      /\ (g = generation => ~failed /\ runtime = 0)
  BY UnderWay DEF CreateFails, Created, DatabasesAreHeld, LatestIsPresent
<1>2. PICK pc \in {"discard", "done"} :
        /\ call' = [call EXCEPT ![g].pc = pc]
        /\ g = generation => pc = "done"
        /\ call[g].pc = "initialize" /\ pc = "done" => runtime' = g
  BY DEF CreateFails, Created, Returns, Current
<1>3. /\ opening' \in {opening, Nobody}
      /\ auth' = auth /\ guest' = guest /\ generation' = generation
      /\ handle' = handle /\ open' = open
  BY DEF CreateFails, Created, Returns, dbVars
<1>4. /\ call' \in [Calls -> CallRecords]
      /\ \A h \in Calls : call'[h].who = call[h].who
      /\ \A h \in Calls : h # g => call'[h] = call[h]
      /\ call'[g].pc = pc
  BY <1>2 DEF RuntimesTypeOK, CallRecords
<1>5. /\ runtime' = runtime \/ (runtime' = g /\ g = generation)
      /\ g # generation => failed' = failed
      /\ failed' \in BOOLEAN /\ (failed' => runtime' = 0)
  <2>1. CASE CreateFails(g)
    BY <1>1, <2>1 DEF CreateFails, Current, RuntimesTypeOK
  <2>2. CASE Created(g)
    BY <1>1, <2>2 DEF Created, Current, RuntimesTypeOK
  <2> QED
    BY <2>1, <2>2
<1>6. LatestIsPresent'
  BY <1>1, <1>2, <1>3, <1>4, <1>5, StepKeepsLatest
<1>7. RuntimesTypeOK'
  <2>1. runtime' \in 0..MaxReplacements
    BY <1>5 DEF RuntimesTypeOK, Calls
  <2> QED
    BY <1>3, <1>4, <1>5, <2>1 DEF RuntimesTypeOK
<1>8. ASSUME NEW h \in Calls, handle[h] # 0
      PROVE  Kept(h)'
  <2>1. runtime \in {0, g} \/ runtime' = runtime
    BY <1>5 DEF LatestIsPresent
  <2>2. CASE h # g
    BY <1>1, <1>4, <1>5, <1>8, <2>1, <2>2, StillKept
  <2>3. CASE h = g
    BY <1>1, <1>2, <1>4, <1>8, <2>3 DEF Kept
  <2> QED
    BY <2>2, <2>3
<1>9. ASSUME NEW h \in Calls, call'[h].pc \in {"close", "create"} \/ h > generation'
      PROVE  handle'[h] = 0
  <2>1. h # g
    BY <1>1, <1>3, <1>4, <1>9 DEF RuntimesTypeOK, Calls
  <2> QED
    BY <1>3, <1>4, <1>9, <2>1 DEF DatabasesAreHeld
<1> QED
  BY <1>3, <1>6, <1>7, <1>8, <1>9 DEF DatabasesAreHeld

LEMMA DiscardedInv ==
    ASSUME RuntimesInv, NEW g \in Calls, Discarded(g)
    PROVE  RuntimesInv'
<1> USE DEF RuntimesInv
<1>1. g <= generation /\ call[g].pc = "discard"
  BY UnderWay DEF Discarded
<1>2. call' = [call EXCEPT ![g].pc = "done"]
  BY DEF Discarded, Returns
<1>3. /\ opening' \in {opening, Nobody}
      /\ auth' = auth /\ guest' = guest /\ generation' = generation
      /\ runtime' = runtime /\ failed' = failed
      /\ open' = open \ {handle[g]} /\ handle' = [handle EXCEPT ![g] = 0]
  BY DEF Discarded, Returns, CloseDatabase
<1>4. /\ call' \in [Calls -> CallRecords]
      /\ \A h \in Calls : call'[h].who = call[h].who
      /\ \A h \in Calls : h # g => call'[h] = call[h]
      /\ call'[g].pc = "done"
  BY <1>2 DEF RuntimesTypeOK, CallRecords
<1>5. LatestIsPresent'
  BY <1>1, <1>3, <1>4, StepKeepsLatest
<1>6. \A h \in Calls : handle'[h] = (IF h = g THEN 0 ELSE handle[h])
  BY <1>3 DEF RuntimesTypeOK
<1>7. RuntimesTypeOK'
  <2>1. 0 \in 0..MaxReplacements
    BY RuntimesAssumption
  <2>2. handle' \in [Calls -> 0..MaxReplacements] /\ open' \subseteq Calls
    BY <1>3, <2>1 DEF RuntimesTypeOK
  <2> QED
    BY <1>3, <1>4, <2>2 DEF RuntimesTypeOK
<1>8. ASSUME NEW h \in Calls, handle'[h] # 0
      PROVE  Kept(h)'
  <2>1. h # g /\ handle[h] # 0
    BY <1>6, <1>8
  <2> QED
    BY <1>1, <1>3, <1>4, <2>1, StillKept
<1>9. ASSUME NEW h \in Calls, call'[h].pc \in {"close", "create"} \/ h > generation'
      PROVE  handle'[h] = 0
  BY <1>3, <1>4, <1>6, <1>9 DEF DatabasesAreHeld
<1>10. \A i \in open' : \E h \in Calls : handle'[h] = i
  BY <1>3, <1>6 DEF DatabasesAreHeld
<1> QED
  BY <1>5, <1>7, <1>8, <1>9, <1>10 DEF DatabasesAreHeld

-----------------------------------------------------------------------------
LEMMA RuntimesInitially == InitRuntimes => RuntimesInv
<1> SUFFICES ASSUME InitRuntimes PROVE RuntimesInv
  OBVIOUS
<1>1. NoCall \in CallRecords /\ 0 \in 0..MaxReplacements
  BY RuntimesAssumption DEF NoCall, CallRecords
<1>2. RuntimesTypeOK
  BY <1>1 DEF InitRuntimes, RuntimesTypeOK
<1>3. LatestIsPresent
  BY RuntimesAssumption DEF InitRuntimes, LatestIsPresent, NoCall
<1>4. DatabasesAreHeld
  BY DEF InitRuntimes, DatabasesAreHeld
<1> QED
  BY <1>2, <1>3, <1>4 DEF RuntimesInv

(* The session speaks only to somebody who is no guest, except to a guest  *)
(* who is there already, whom it does not concern.                         *)
LEMMA RuntimesInductive == RuntimesInv /\ [NextRuntimes]_runtimesVars => RuntimesInv'
<1> SUFFICES ASSUME RuntimesInv, [NextRuntimes]_runtimesVars PROVE RuntimesInv'
  OBVIOUS
<1>1. guest => auth = "out"
  BY DEF RuntimesInv, LatestIsPresent
<1>2. \A a \in Accounts : a \notin {"restoring", "out", "submitting"}
  BY RuntimesAssumption
<1>3. CASE Restored
  BY <1>1, <1>3, ReconciledInv DEF Restored
<1>4. CASE Submit
  BY <1>4, ReconciledInv DEF Submit, LoginGate
<1>5. CASE Submitted
  BY <1>1, <1>5, ReconciledInv DEF Submitted
<1>6. CASE SignOut
  BY <1>1, <1>2, <1>6, ReconciledInv DEF SignOut
<1>7. CASE Notify
  BY <1>1, <1>2, <1>7, ReconciledInv DEF Notify
<1>8. CASE ContinueAsGuest
  BY <1>8, GuestInv DEF ContinueAsGuest, LoginGate
<1>9. CASE LeaveGuest
  <2>1. opening = Nobody
    BY <1>9 DEF LeaveGuest, RuntimesInv, LatestIsPresent
  <2> QED
    BY <1>1, <1>9, <2>1, GuestInv DEF LeaveGuest
<1>10. CASE Retry
  <2>1. CASE guest
    <3>1. opening = Nobody
      BY <2>1 DEF RuntimesInv, LatestIsPresent
    <3> QED
      BY <1>1, <1>10, <2>1, <3>1, GuestInv DEF Retry
  <2>2. CASE ~guest
    <3>1. auth \in {"restoring", "out", "submitting"} \cup Accounts
      BY DEF RuntimesInv, RuntimesTypeOK
    <3>2. Becomes(auth)
      BY <1>10, <2>2 DEF Retry, Becomes
    <3> QED
      BY <2>2, <3>1, <3>2, ReconciledInv
  <2> QED
    BY <2>1, <2>2
<1>11. CASE ExitAgain
  BY <1>11, ReconciledInv DEF ExitAgain
<1>12. ASSUME NEW g \in Calls, CallStep(g) PROVE RuntimesInv'
  BY <1>12, PreviousClosedInv, CreateInv, NoDatabaseInv, DiscardedInv DEF CallStep
<1>13. CASE UNCHANGED runtimesVars
  BY <1>13 DEF runtimesVars, appVars, dbVars, RuntimesInv, RuntimesTypeOK,
                LatestIsPresent, Latest,
               DatabasesAreHeld, Kept
<1> QED
  BY <1>3, <1>4, <1>5, <1>6, <1>7, <1>8, <1>9, <1>10, <1>11, <1>12, <1>13 DEF NextRuntimes

LEMMA RuntimesInvariance == RuntimesSpec => []RuntimesInv
  BY RuntimesInitially, RuntimesInductive, PTL DEF RuntimesSpec

(* Types, of every variable.                                               *)
THEOREM RuntimesTyped == RuntimesSpec => []RuntimesTypeOK
<1>1. RuntimesInv => RuntimesTypeOK
  BY DEF RuntimesInv
<1> QED
  BY RuntimesInvariance, <1>1, PTL

(* No interleaving of logouts, logins, guests and slow openings shows the  *)
(* collection of an account or of the guest to another.                    *)
THEOREM CollectionsArePrivate == RuntimesSpec => []OthersAreNotShown
<1>1. RuntimesInv => OthersAreNotShown
  <2> SUFFICES ASSUME RuntimesInv, runtime # 0
               PROVE  /\ guest => Owner = Guest
                      /\ auth \in Accounts /\ ~guest => Owner = auth
    BY DEF OthersAreNotShown
  <2>1. Owner = Latest
    BY DEF RuntimesInv, LatestIsPresent, Owner, Latest
  <2> QED
    BY <2>1 DEF RuntimesInv, LatestIsPresent
<1> QED
  BY RuntimesInvariance, <1>1, PTL

(* Once all replacements have returned, no database is open but that of    *)
(* the shown collection.                                                   *)
THEOREM DatabasesAreClosed == RuntimesSpec => []NothingLeftOpen
<1>1. RuntimesInv => NothingLeftOpen
  <2> SUFFICES ASSUME RuntimesInv, Running = {}, NEW i \in open
               PROVE  \E g \in Calls \cap {runtime} : handle[g] = i
    BY DEF NothingLeftOpen
  <2>1. PICK g \in Calls : handle[g] = i
    BY DEF RuntimesInv, DatabasesAreHeld
  <2>2. i # 0
    BY DEF RuntimesInv, RuntimesTypeOK, Calls
  <2>3. g = runtime
    BY <2>1, <2>2 DEF RuntimesInv, DatabasesAreHeld, Kept, Running
  <2> QED
    BY <2>1, <2>3
<1> QED
  BY RuntimesInvariance, <1>1, PTL

-----------------------------------------------------------------------------
(* The prototype.  Spreading is associative: what a screen has of an issue *)
(* takes a patch as the issue itself does.                                 *)
LEMMA SpreadFields ==
    ASSUME NEW a, NEW b
    PROVE  /\ DOMAIN Spread(a, b) = DOMAIN a \cup DOMAIN b
           /\ \A x \in DOMAIN a \cup DOMAIN b :
                 Spread(a, b)[x] = IF x \in DOMAIN b THEN b[x] ELSE a[x]
BY DEF Spread

LEMMA SpreadAssociates ==
    ASSUME NEW a, NEW b, NEW c
    PROVE  Spread(Spread(a, b), c) = Spread(a, Spread(b, c))
<1> DEFINE D == DOMAIN a \cup DOMAIN b \cup DOMAIN c
           f == [x \in D |-> IF x \in DOMAIN c THEN c[x]
                             ELSE IF x \in DOMAIN b THEN b[x] ELSE a[x]]
<1>1. Spread(Spread(a, b), c) = f
  <2>1. Spread(Spread(a, b), c) =
            [x \in DOMAIN Spread(a, b) \cup DOMAIN c |->
                IF x \in DOMAIN c THEN c[x] ELSE Spread(a, b)[x]]
    BY DEF Spread
  <2> QED
    BY <2>1, SpreadFields
<1>2. Spread(a, Spread(b, c)) = f
  <2>1. Spread(a, Spread(b, c)) =
            [x \in DOMAIN a \cup DOMAIN Spread(b, c) |->
                IF x \in DOMAIN Spread(b, c) THEN Spread(b, c)[x] ELSE a[x]]
    BY DEF Spread
  <2>2. DOMAIN Spread(b, c) = DOMAIN b \cup DOMAIN c
    BY SpreadFields
  <2>3. \A x \in DOMAIN b \cup DOMAIN c :
            Spread(b, c)[x] = IF x \in DOMAIN c THEN c[x] ELSE b[x]
    BY SpreadFields
  <2>4. Spread(a, Spread(b, c)) =
            [x \in D |-> IF x \in DOMAIN b \cup DOMAIN c THEN Spread(b, c)[x] ELSE a[x]]
    BY <2>1, <2>2
  <2>5. \A x \in D : (IF x \in DOMAIN b \cup DOMAIN c THEN Spread(b, c)[x] ELSE a[x]) = f[x]
    BY <2>3
  <2> QED
    BY <2>4, <2>5
<1> QED
  BY <1>1, <1>2

(* Spreading b over something that has it already changes nothing.         *)
LEMMA SpreadTwice ==
    ASSUME NEW a, NEW b
    PROVE  Spread(Spread(a, b), b) = Spread(a, b)
<1>1. Spread(b, b) = [x \in DOMAIN b |-> b[x]]
  BY DEF Spread
<1>2. Spread(a, Spread(b, b)) = Spread(a, b)
  BY <1>1 DEF Spread
<1> QED
  BY <1>2, SpreadAssociates

-----------------------------------------------------------------------------
(* An issue as some screen has it, which shows as the store has it.        *)
Fits(it, o) ==
    /\ it.number \in Numbers
    /\ GetIssue(it, o) = GetIssue(Base[it.number], o)

(* Overrides that are patches of issues.                                   *)
AreOverrides(o) == DOMAIN o = Numbers /\ \A i \in Numbers : DOMAIN o[i] \subseteq Fields

(* o with patches applied to some issues.                                  *)
Patched(o, p) ==
    /\ AreOverrides(p)
    /\ \A i \in Numbers : \/ p[i] = o[i]
                          \/ \E q : DOMAIN q \subseteq Fields /\ p[i] = Spread(o[i], q)

LEMMA BaseNumber ==
    ASSUME NEW i \in Numbers
    PROVE  Base[i].number = i /\ "number" \in DOMAIN Base[i]
BY StoreAssumption DEF IssueRecords

LEMMA BaseFits ==
    ASSUME NEW o, NEW i \in Numbers
    PROVE  Fits(Base[i], o)
BY BaseNumber DEF Fits

LEMMA CurrentFits ==
    ASSUME NEW o, AreOverrides(o), NEW i \in Numbers
    PROVE  Fits(CurrentIssue(i, o), o) /\ CurrentIssue(i, o).number = i
<1>1. "number" \notin DOMAIN o[i]
  BY DEF AreOverrides, Fields
<1>2. CurrentIssue(i, o) = Spread(Base[i], o[i])
  BY BaseNumber DEF CurrentIssue, GetIssue
<1>3. CurrentIssue(i, o).number = i
  <2>1. CurrentIssue(i, o)["number"] = Base[i]["number"]
    BY <1>1, <1>2, BaseNumber DEF Spread
  <2> QED
    BY <2>1, BaseNumber
<1>4. GetIssue(CurrentIssue(i, o), o) = Spread(Spread(Base[i], o[i]), o[i])
  BY <1>2, <1>3 DEF GetIssue
<1> QED
  BY <1>2, <1>3, <1>4, BaseNumber, SpreadTwice DEF Fits, GetIssue

LEMMA PatchedFits ==
    ASSUME NEW o, NEW p, Patched(o, p), NEW it, Fits(it, o)
    PROVE  Fits(it, p)
<1> DEFINE i == it.number
<1>1. i \in Numbers /\ Spread(it, o[i]) = Spread(Base[i], o[i]) /\ Base[i].number = i
  BY BaseNumber DEF Fits, GetIssue
<1>2. CASE p[i] = o[i]
  BY <1>1, <1>2 DEF Fits, GetIssue
<1>3. ASSUME NEW q, p[i] = Spread(o[i], q)
      PROVE  Fits(it, p)
  <2>1. /\ Spread(it, p[i]) = Spread(Spread(it, o[i]), q)
        /\ Spread(Base[i], p[i]) = Spread(Spread(Base[i], o[i]), q)
    BY <1>3, SpreadAssociates
  <2> QED
    BY <1>1, <2>1 DEF Fits, GetIssue
<1> QED
  BY <1>1, <1>2, <1>3 DEF Patched


-----------------------------------------------------------------------------
(* The routes there are, when the overrides are o.                         *)
Opener(r) == r \in {R("home"), R("search")} \cup HubRoutes \cup EditionRoutes

OpensIssue(r, o) ==
    /\ r = [name |-> "issue", issue |-> r.issue, from |-> r.from]
    /\ Fits(r.issue, o) /\ Opener(r.from)

OpensEditor(r, o) ==
    /\ r = [name |-> "edit", issue |-> r.issue, from |-> r.from]
    /\ Fits(r.issue, o) /\ OpensIssue(r.from, o)

OpensReview(r) ==
    /\ r = [name |-> "review", scanned |-> r.scanned]
    /\ r.scanned \in Seq(Numbers) /\ r.scanned # << >>

PlainRoutes == {R(name) : name \in PlainScreens}
SeriesRoutes == [name: {"series"}, series: Series]

IsRoute(r, o) ==
    \/ r \in PlainRoutes \cup HubRoutes \cup SeriesRoutes \cup EditionRoutes
    \/ OpensIssue(r, o) \/ OpensEditor(r, o) \/ OpensReview(r)

(* The local state of the screens that scan and review.                    *)
Scanning ==
    /\ form = [list |-> form.list, mode |-> form.mode]
    /\ form.list \in Seq(Numbers) /\ form.list # << >>

Reviewing ==
    /\ form = [idx |-> form.idx, done |-> form.done, grades |-> form.grades]
    /\ form.idx \in DOMAIN route.scanned
    /\ \A i \in form.done : i \in Numbers /\ CurrentIssue(i, ov).owned

Routed ==
    /\ AreOverrides(ov) /\ IsRoute(route, ov)
    /\ IsAt("scan") => Scanning
    /\ IsAt("review") => Reviewing

LEMMA RouteNames ==
    ASSUME NEW r, NEW o, IsRoute(r, o)
    PROVE  /\ r.name \in PlainScreens \cup HubScreens
                          \cup {"hub", "series", "issues", "issue", "edit", "review"}
           /\ r.name = "issue" => OpensIssue(r, o)
           /\ r.name = "edit" => OpensEditor(r, o)
           /\ r.name = "review" => OpensReview(r)
           /\ r.name = "series" => r \in SeriesRoutes
           /\ r.name = "issues" => r \in EditionRoutes
           /\ r.name \in ListScreens \cup {"stats", "export"} => r \in HubRoutes
<1>1. CASE r \in PlainRoutes
  BY <1>1 DEF PlainRoutes, R, PlainScreens, ListScreens
<1>2. CASE r \in HubRoutes
  BY <1>2 DEF HubRoutes, HubScreens, ListScreens
<1>3. CASE r \in SeriesRoutes \cup EditionRoutes
  BY <1>3 DEF SeriesRoutes, EditionRoutes, ListScreens
<1>4. CASE OpensIssue(r, o)
  <2>1. r.name = "issue"
    BY <1>4 DEF OpensIssue
  <2> QED
    BY <1>4, <2>1 DEF ListScreens
<1>5. CASE OpensEditor(r, o)
  <2>1. r.name = "edit"
    BY <1>5 DEF OpensEditor
  <2> QED
    BY <1>5, <2>1 DEF ListScreens
<1>6. CASE OpensReview(r)
  <2>1. r.name = "review"
    BY <1>6 DEF OpensReview
  <2> QED
    BY <1>6, <2>1 DEF ListScreens
<1> QED
  BY <1>1, <1>2, <1>3, <1>4, <1>5, <1>6 DEF IsRoute

LEMMA PlainIsRoute ==
    ASSUME NEW name \in PlainScreens, NEW o
    PROVE  IsRoute(R(name), o) /\ R(name).name = name /\ "from" \notin DOMAIN R(name)
BY DEF IsRoute, PlainRoutes, R

LEMMA HubIsRoute ==
    ASSUME NEW name \in HubScreens \cup {"hub"},
           NEW from \in {"home", "polica", "hub"}, NEW o
    PROVE  /\ RFrom(name, R(from)) \in HubRoutes /\ IsRoute(RFrom(name, R(from)), o)
           /\ RFrom(name, R(from)).name = name
BY DEF IsRoute, HubRoutes, RFrom

(* Going back from any screen leads to one, and to the scanner only from   *)
(* what it opened.                                                         *)
LEMMA BackIsRoute ==
    ASSUME NEW r, NEW o, IsRoute(r, o)
    PROVE  /\ IsRoute(Back(r), o) /\ Back(r).name # "review"
           /\ Back(r).name = "scan" => r.name \in {"review", "photo"}
<1>1. ASSUME NEW name \in PlainScreens, NEW b, b = R(name)
      PROVE  IsRoute(b, o) /\ b.name = name /\ b.name # "review"
  BY <1>1, PlainIsRoute DEF PlainScreens
<1>2. CASE r \in PlainRoutes
  <2>1. PICK name \in PlainScreens : r = R(name)
    BY <1>2 DEF PlainRoutes
  <2>2. r.name = name /\ "from" \notin DOMAIN r
    BY <2>1, PlainIsRoute
  <2>3. CASE name = "trade"
    <3>1. Back(r) = RFrom("dupli", R("polica"))
      BY <2>2, <2>3 DEF Back, TradedFrom
    <3> QED
      BY <3>1, HubIsRoute DEF HubScreens, ListScreens
  <2>4. CASE name # "trade"
    <3>1. \E back \in PlainScreens :
            /\ Back(r) = R(back)
            /\ back = "scan" => name \in {"review", "photo"}
      BY ZenonT(40), <2>2, <2>4 DEF Back, FromOr, PlainScreens
    <3> QED
      BY <1>1, <2>2, <3>1
  <2> QED
    BY <2>3, <2>4
<1>3. CASE r \in HubRoutes
  <2>1. r.from \in {R("home"), R("polica"), R("hub")} /\ "from" \in DOMAIN r
    BY <1>3 DEF HubRoutes
  <2>2. r.name \in HubScreens \cup {"hub"}
    BY <1>3 DEF HubRoutes
  <2>3. Back(r) \in {R("home"), R("polica"), R("hub")}
    BY <2>1, <2>2 DEF Back, FromOr, HubScreens, ListScreens
  <2> QED
    BY <1>1, <2>3 DEF PlainScreens
<1>4. CASE r \in SeriesRoutes
  <2>1. Back(r) = R("polica")
    BY <1>4 DEF SeriesRoutes, Back
  <2> QED
    BY <1>1, <2>1 DEF PlainScreens
<1>5. CASE r \in EditionRoutes
  <2>1. Back(r) = [name |-> "series", series |-> r.series] /\ r.series \in Series
    BY <1>5 DEF EditionRoutes, Back
  <2> QED
    BY <2>1 DEF IsRoute, SeriesRoutes
<1>6. ASSUME NEW f, Opener(f)
      PROVE  IsRoute(f, o) /\ f.name \notin {"scan", "review"}
  <2>1. CASE f \in {R("home"), R("search")}
    BY <1>1, <2>1 DEF PlainScreens
  <2>2. CASE f \in HubRoutes
    BY <2>2 DEF IsRoute, HubRoutes, HubScreens, ListScreens
  <2>3. CASE f \in EditionRoutes
    BY <2>3 DEF IsRoute, EditionRoutes
  <2> QED
    BY <1>6, <2>1, <2>2, <2>3 DEF Opener
<1>7. CASE OpensIssue(r, o)
  <2>1. r.name = "issue" /\ "from" \in DOMAIN r /\ Opener(r.from)
    BY <1>7 DEF OpensIssue
  <2>2. Back(r) = r.from
    BY <2>1 DEF Back, FromOr
  <2> QED
    BY <1>6, <2>1, <2>2
<1>8. CASE OpensEditor(r, o)
  <2>1. r.name = "edit" /\ "from" \in DOMAIN r /\ OpensIssue(r.from, o)
    BY <1>8 DEF OpensEditor
  <2>2. Back(r) = r.from
    BY <2>1 DEF Back, FromOr
  <2>3. r.from.name = "issue"
    BY <2>1 DEF OpensIssue
  <2> QED
    BY <2>1, <2>2, <2>3 DEF IsRoute
<1>9. CASE OpensReview(r)
  <2>1. r.name = "review"
    BY <1>9 DEF OpensReview
  <2>2. Back(r) = R("scan")
    BY <2>1 DEF Back
  <2> QED
    BY <1>1, <2>1, <2>2 DEF PlainScreens
<1> QED
  BY <1>2, <1>3, <1>4, <1>5, <1>7, <1>8, <1>9 DEF IsRoute

LEMMA RoutesStay ==
    ASSUME NEW o, NEW p, Patched(o, p), NEW r, IsRoute(r, o)
    PROVE  IsRoute(r, p)
<1>1. ASSUME NEW q, OpensIssue(q, o) PROVE OpensIssue(q, p)
  BY <1>1, PatchedFits DEF OpensIssue
<1>2. ASSUME OpensEditor(r, o) PROVE OpensEditor(r, p)
  BY <1>1, <1>2, PatchedFits DEF OpensEditor
<1> QED
  BY <1>1, <1>2 DEF IsRoute

-----------------------------------------------------------------------------
(* The first unread issue is one.                                          *)
LEMMA UnreadHasFirst ==
    ASSUME UnreadAtStart # {}
    PROVE  Min(UnreadAtStart) \in Numbers
<1>1. UnreadAtStart \subseteq Nat /\ UnreadAtStart \subseteq Numbers
  BY DEF UnreadAtStart, Numbers
<1>2. PICK i \in UnreadAtStart : \A j \in UnreadAtStart : ~(<<j, i>> \in OpToRel(<, Nat))
  BY <1>1, NatLessThanWellFounded, WFMin
<1>3. \A j \in UnreadAtStart : ~(j < i)
  BY <1>1, <1>2 DEF OpToRel
<1>4. \A j \in UnreadAtStart : i <= j
  BY <1>1, <1>3
<1> QED
  BY <1>1, <1>4 DEF Min

-----------------------------------------------------------------------------
(* What the handlers are made of.                                          *)
LEMMA GoKeeps ==
    ASSUME Routed, NEW r, Go(r), IsRoute(r, ov),
           r.name \in {"scan", "review"} => r.name # route.name
    PROVE  Routed'
<1>1. route' = r /\ ov' = ov /\ (r.name # route.name => form' = Mounted(r))
  BY DEF Go
<1>2. ASSUME IsAt("scan")' PROVE Scanning'
  <2>1. form' = [list |-> <<Head(Pool)>>, mode |-> "barkod"]
    BY <1>1, <1>2 DEF IsAt, Mounted
  <2>2. <<Head(Pool)>> \in Seq(Numbers) /\ <<Head(Pool)>> # << >>
    BY PrototypeAssumption
  <2> QED
    BY <2>1, <2>2 DEF Scanning
<1>3. ASSUME IsAt("review")' PROVE Reviewing'
  <2>1. form' = [idx |-> 1, done |-> {}, grades |-> [k \in DOMAIN r.scanned |-> VF]]
    BY <1>1, <1>3 DEF IsAt, Mounted
  <2>2. OpensReview(r)
    BY <1>1, <1>3, RouteNames DEF IsAt
  <2>3. 1 \in DOMAIN r.scanned
    BY <2>2 DEF OpensReview
  <2> QED
    BY <1>1, <2>1, <2>3 DEF Reviewing
<1> QED
  BY <1>1, <1>2, <1>3 DEF Routed

LEMMA GoToKeeps ==
    ASSUME Routed, NEW names, GoTo(names), names \subseteq PlainScreens,
           "scan" \in names => ~IsAt("scan")
    PROVE  Routed'
<1>1. PICK name \in names : Go(R(name))
  BY DEF GoTo
<1>2. IsRoute(R(name), ov) /\ R(name).name = name /\ name # "review"
  BY PlainIsRoute DEF PlainScreens
<1> QED
  BY <1>1, <1>2, GoKeeps DEF IsAt

LEMMA GoBackKeeps ==
    ASSUME Routed, GoBack
    PROVE  Routed'
<1>1. /\ IsRoute(Back(route), ov) /\ Back(route).name # "review"
      /\ Back(route).name = "scan" => route.name \in {"review", "photo"}
  BY BackIsRoute DEF Routed
<1> QED
  BY <1>1, GoKeeps DEF GoBack

LEMMA HubGoKeeps ==
    ASSUME Routed, NEW name \in HubScreens \cup {"hub"},
           NEW from \in {"home", "polica", "hub"}, Go(RFrom(name, R(from)))
    PROVE  Routed'
<1>1. name \notin {"scan", "review"}
  BY DEF HubScreens, ListScreens
<1> QED
  BY <1>1, HubIsRoute, GoKeeps

LEMMA OpenIssueKeeps ==
    ASSUME Routed, NEW it, NEW from, OpenIssue(it, from), Fits(it, ov), Opener(from)
    PROVE  Routed'
<1> DEFINE r == [name |-> "issue", issue |-> it, from |-> from]
<1>1. OpensIssue(r, ov) /\ r.name = "issue"
  BY DEF OpensIssue
<1>2. IsRoute(r, ov)
  BY <1>1 DEF IsRoute
<1> QED
  BY <1>1, <1>2, GoKeeps DEF OpenIssue

LEMMA OpenSeriesKeeps ==
    ASSUME Routed, OpenSeries
    PROVE  Routed'
<1>1. PICK s \in Series : Go([name |-> "series", series |-> s])
  BY DEF OpenSeries
<1> DEFINE r == [name |-> "series", series |-> s]
<1>2. IsRoute(r, ov) /\ r.name = "series"
  BY DEF IsRoute, SeriesRoutes
<1> QED
  BY <1>1, <1>2, GoKeeps

LEMMA SetFormKeeps ==
    ASSUME Routed, NEW f, SetForm(f), ~IsAt("scan"), ~IsAt("review")
    PROVE  Routed'
BY DEF Routed, SetForm, IsAt

LEMMA PatchKeeps ==
    ASSUME Routed, NEW i \in Numbers, NEW p, DOMAIN p \subseteq Fields, Patch(i, p),
           ~IsAt("review")
    PROVE  Routed'
<1>1. /\ ov' = [ov EXCEPT ![i] = Spread(ov[i], p)] /\ route' = route /\ form' = form
  BY DEF Patch, WithPatch
<1>2. Patched(ov, ov')
  <2>1. DOMAIN ov = Numbers /\ \A j \in Numbers : DOMAIN ov[j] \subseteq Fields
    BY DEF Routed, AreOverrides
  <2>2. \A j \in Numbers : ov'[j] = IF j = i THEN Spread(ov[i], p) ELSE ov[j]
    BY <1>1, <2>1
  <2>3. DOMAIN Spread(ov[i], p) \subseteq Fields
    <3>1. DOMAIN Spread(ov[i], p) = DOMAIN ov[i] \cup DOMAIN p
      BY SpreadFields
    <3> QED
      BY <2>1, <3>1
  <2>4. DOMAIN ov' = Numbers
    BY <1>1, <2>1
  <2> QED
    BY <2>1, <2>2, <2>3, <2>4 DEF Patched, AreOverrides
<1>3. IsRoute(route, ov')
  BY <1>2, RoutesStay DEF Routed
<1> QED
  BY <1>1, <1>2, <1>3 DEF Routed, Patched, IsAt, Scanning

-----------------------------------------------------------------------------
(* The screens.  Those that only lead elsewhere, ...                       *)
LEMMA WayInKeeps ==
    ASSUME Routed, Welcome \/ ModePick \/ Login \/ Register \/ Empty \/ Import \/ Conflict
    PROVE  Routed'
<1>1. ASSUME Import PROVE Routed'
  <2>1. IsAt("import") /\ ~IsAt("scan") /\ ~IsAt("review")
    BY <1>1 DEF Import, IsAt
  <2> QED
    BY <1>1, <2>1, GoBackKeeps, GoToKeeps, SetFormKeeps DEF Import, PlainScreens
<1>2. ASSUME Welcome \/ ModePick \/ Login \/ Register \/ Empty \/ Conflict PROVE Routed'
  BY <1>2, GoBackKeeps, GoToKeeps
     DEF Welcome, ModePick, Login, Register, Empty, Conflict, PlainScreens
<1> QED
  BY <1>1, <1>2

LEMMA TabsKeep ==
    ASSUME Routed, NavBar \/ Shelf \/ Hub \/ Settings \/ Stats \/ Export
    PROVE  Routed'
<1>1. ASSUME NavBar PROVE Routed'
  BY <1>1, GoToKeeps DEF NavBar, PlainScreens
<1>2. ASSUME Shelf PROVE Routed'
  <2>1. CASE OpenSeries
    BY <2>1, OpenSeriesKeeps
  <2>2. CASE \E id \in HubScreens \cup {"hub"} : Go(RFrom(id, R("polica")))
    BY <2>2, HubGoKeeps
  <2> QED
    BY <1>2, <2>1, <2>2 DEF Shelf
<1>3. ASSUME Hub PROVE Routed'
  <2>1. CASE GoBack
    BY <2>1, GoBackKeeps
  <2>2. CASE \E id \in HubScreens : Go(RFrom(id, R("hub")))
    BY <2>2, HubGoKeeps
  <2> QED
    BY <1>3, <2>1, <2>2 DEF Hub
<1>4. ASSUME Settings PROVE Routed'
  <2>1. IsAt("settings") /\ ~IsAt("scan") /\ ~IsAt("review")
    BY <1>4 DEF Settings, IsAt
  <2> QED
    BY <1>4, <2>1, GoToKeeps, SetFormKeeps DEF Settings, PlainScreens
<1>5. ASSUME Stats \/ Export PROVE Routed'
  BY <1>5, GoBackKeeps DEF Stats, Export
<1> QED
  BY <1>1, <1>2, <1>3, <1>4, <1>5

LEMMA AddingKeeps ==
    ASSUME Routed, AddSheet \/ Confirm \/ Photo \/ Manual \/ Batch \/ Trade \/ Releasing
    PROVE  Routed'
<1>1. ASSUME AddSheet PROVE Routed'
  <2>1. ~IsAt("scan")
    BY <1>1 DEF AddSheet, IsAt
  <2> QED
    BY <1>1, <2>1, GoBackKeeps, GoToKeeps DEF AddSheet, PlainScreens
<1>2. ASSUME Confirm \/ Photo \/ Manual \/ Trade PROVE Routed'
  BY <1>2, GoBackKeeps, GoToKeeps DEF Confirm, Photo, Manual, Trade, PlainScreens
<1>3. ASSUME Batch PROVE Routed'
  <2>1. IsAt("batch") /\ ~IsAt("scan") /\ ~IsAt("review")
    BY <1>3 DEF Batch, IsAt
  <2> QED
    BY <1>3, <2>1, GoBackKeeps, GoToKeeps, SetFormKeeps DEF Batch, PlainScreens
<1>4. ASSUME Releasing PROVE Routed'
  <2>1. IsAt("releases") /\ ~IsAt("scan") /\ ~IsAt("review")
    BY <1>4 DEF Releasing, IsAt
  <2> QED
    BY <1>4, <2>1, GoBackKeeps, SetFormKeeps DEF Releasing
<1> QED
  BY <1>1, <1>2, <1>3, <1>4

(* ... those that open an issue, ...                                       *)
LEMMA OpeningKeeps ==
    ASSUME Routed, Home \/ SeriesScreen \/ Compact \/ Search
    PROVE  Routed'
<1>1. ASSUME Home PROVE Routed'
  <2>1. CASE GoTo({"releases"})
    BY <2>1, GoToKeeps DEF PlainScreens
  <2>2. CASE UnreadAtStart # {} /\ OpenIssue(Base[Min(UnreadAtStart)], R("home"))
    <3>1. Min(UnreadAtStart) \in Numbers
      BY <2>2, UnreadHasFirst
    <3> QED
      BY <2>2, <3>1, BaseFits, OpenIssueKeeps DEF Opener
  <2>3. CASE Go(RFrom("trazim", R("home")))
    BY <2>3, HubGoKeeps DEF HubScreens, ListScreens
  <2> QED
    BY <1>1, <2>1, <2>2, <2>3, OpenSeriesKeeps DEF Home
<1>2. ASSUME SeriesScreen PROVE Routed'
  <2>1. ASSUME NEW e \in Editions[route.series],
               Go([name |-> "issues", series |-> route.series, tab |-> e])
        PROVE  Routed'
    <3> DEFINE r == [name |-> "issues", series |-> route.series, tab |-> e]
    <3>1. route \in SeriesRoutes
      BY <1>2, RouteNames DEF SeriesScreen, IsAt, Routed
    <3>2. r \in EditionRoutes /\ r.name = "issues"
      BY <3>1 DEF SeriesRoutes, EditionRoutes
    <3> QED
      BY <2>1, <3>2, GoKeeps DEF IsRoute
  <2> QED
    BY <1>2, <2>1, GoBackKeeps DEF SeriesScreen
<1>3. ASSUME Compact PROVE Routed'
  <2>1. ~IsAt("scan") /\ ~IsAt("review") /\ Opener(route)
    BY <1>3, RouteNames DEF Compact, IsAt, Routed, Opener
  <2>2. ASSUME NEW i \in Numbers, OpenIssue(CurrentIssue(i, ov), route) PROVE Routed'
    BY <2>1, <2>2, CurrentFits, OpenIssueKeeps DEF Routed
  <2> QED
    BY <1>3, <2>1, <2>2, GoBackKeeps, SetFormKeeps DEF Compact
<1>4. ASSUME Search PROVE Routed'
  <2>1. ASSUME NEW i \in Numbers, OpenIssue(Base[i], R("search")) PROVE Routed'
    BY <2>1, BaseFits, OpenIssueKeeps DEF Opener
  <2> QED
    BY <1>4, <2>1, OpenSeriesKeeps DEF Search
<1> QED
  BY <1>1, <1>2, <1>3, <1>4

LEMMA ListKeeps ==
    ASSUME Routed, NEW name \in ListScreens, NEW ticked, DOMAIN ticked \subseteq Fields,
           ListScreen(name, ticked)
    PROVE  Routed'
<1>1. ~IsAt("scan") /\ ~IsAt("review") /\ Opener(route)
  BY RouteNames DEF ListScreen, ListScreens, IsAt, Routed, Opener
<1>2. ASSUME NEW i \in ListOf(name) PROVE i \in Numbers
  BY <1>2 DEF ListOf, ListScreens
<1>3. ASSUME NEW i \in ListOf(name), OpenIssue(CurrentIssue(i, ov), route) PROVE Routed'
  BY <1>1, <1>2, <1>3, CurrentFits, OpenIssueKeeps DEF Routed
<1>4. ASSUME NEW i \in ListOf(name), Patch(i, ticked) PROVE Routed'
  BY <1>1, <1>2, <1>4, PatchKeeps
<1> QED
  BY <1>3, <1>4, GoBackKeeps DEF ListScreen

LEMMA ListsKeep ==
    ASSUME Routed, Unread \/ Trazim \/ Dupli \/ Posudeno
    PROVE  Routed'
<1>1. /\ DOMAIN [read |-> TRUE] \subseteq Fields /\ DOMAIN [owned |-> TRUE] \subseteq Fields
      /\ DOMAIN [dupli |-> FALSE] \subseteq Fields
      /\ DOMAIN [loaned |-> NotLent] \subseteq Fields
  BY DEF Fields
<1>2. {"unread", "trazim", "dupli", "posudeno"} = ListScreens
  BY DEF ListScreens
<1>3. ASSUME GoTo({"trade"}) PROVE Routed'
  BY <1>3, GoToKeeps DEF PlainScreens
<1> QED
  BY <1>1, <1>2, <1>3, ListKeeps DEF Unread, Trazim, Dupli, Posudeno

(* ... those that show one, ...                                            *)
LEMMA IssueKeeps ==
    ASSUME Routed, Issue
    PROVE  Routed'
<1> DEFINE it == GetIssue(route.issue, ov)
<1>1. ~IsAt("scan") /\ ~IsAt("review") /\ OpensIssue(route, ov)
  BY RouteNames DEF Issue, IsAt, Routed
<1>2. it.number \in Numbers
  BY <1>1, CurrentFits DEF OpensIssue, Fits, Routed, CurrentIssue
<1>3. ASSUME NEW near \in Neighbours(it), Go([route EXCEPT !.issue = near]) PROVE Routed'
  <2> DEFINE r == [route EXCEPT !.issue = near]
  <2>1. Fits(near, ov)
    BY BaseFits DEF Neighbours
  <2>2. OpensIssue(r, ov) /\ r.name = "issue"
    BY <1>1, <2>1 DEF OpensIssue
  <2> QED
    BY <1>3, <2>2, GoKeeps DEF IsRoute
<1>4. ASSUME Patch(it.number, [read |-> ~it.read]) \/ Patch(it.number, [owned |-> ~it.owned])
      PROVE  Routed'
  <2>1. /\ DOMAIN [read |-> ~it.read] \subseteq Fields
        /\ DOMAIN [owned |-> ~it.owned] \subseteq Fields
    BY DEF Fields
  <2> QED
    BY <1>1, <1>2, <1>4, <2>1, PatchKeeps
<1>5. ASSUME Go([name |-> "edit", issue |-> route.issue, from |-> route]) PROVE Routed'
  <2> DEFINE r == [name |-> "edit", issue |-> route.issue, from |-> route]
  <2>1. OpensEditor(r, ov) /\ r.name = "edit"
    BY <1>1 DEF OpensEditor, OpensIssue
  <2> QED
    BY <1>5, <2>1, GoKeeps DEF IsRoute
<1> QED
  BY <1>3, <1>4, <1>5, GoBackKeeps DEF Issue

(* Patching one issue patches the store.                                   *)
LEMMA WithPatchPatches ==
    ASSUME AreOverrides(ov), NEW i \in Numbers, NEW p, DOMAIN p \subseteq Fields
    PROVE  Patched(ov, WithPatch(ov, i, p))
<1> DEFINE o == WithPatch(ov, i, p)
<1>1. DOMAIN ov = Numbers /\ \A j \in Numbers : DOMAIN ov[j] \subseteq Fields
  BY DEF AreOverrides
<1>2. /\ DOMAIN o = Numbers
      /\ \A j \in Numbers : o[j] = IF j = i THEN Spread(ov[i], p) ELSE ov[j]
  BY <1>1 DEF WithPatch
<1>3. DOMAIN Spread(ov[i], p) = DOMAIN ov[i] \cup DOMAIN p
  BY SpreadFields
<1>4. Patched(ov, o)
  <2> HIDE DEF o
  <2> QED
    BY <1>1, <1>2, <1>3 DEF Patched, AreOverrides
<1> QED
  BY <1>4

LEMMA EditKeeps ==
    ASSUME Routed, Edit
    PROVE  Routed'
<1> DEFINE it == GetIssue(route.issue, ov)
           p == EditPatch(form, it)
<1>1. ~IsAt("scan") /\ ~IsAt("review") /\ OpensEditor(route, ov)
  BY RouteNames DEF Edit, IsAt, Routed
<1>2. it.number \in Numbers
  BY <1>1, CurrentFits DEF OpensEditor, Fits, Routed, CurrentIssue
<1>3. ASSUME ov' = WithPatch(ov, it.number, p), route' = Back(route), form' = NoForm
      PROVE  Routed'
  <2>1. DOMAIN p \subseteq Fields
    BY DEF EditPatch, Fields
  <2>2. Patched(ov, ov')
    BY <1>2, <1>3, <2>1, WithPatchPatches DEF Routed
  <2>3. route' = route.from /\ OpensIssue(route.from, ov)
    BY <1>1, <1>3 DEF OpensEditor, Back, FromOr
  <2>4. IsRoute(route', ov') /\ route'.name = "issue"
    BY <2>2, <2>3, RoutesStay DEF IsRoute, OpensIssue
  <2> QED
    BY <2>2, <2>4 DEF Routed, Patched, IsAt
<1> QED
  BY <1>1, <1>3, GoBackKeeps, SetFormKeeps DEF Edit

(* ... and those that scan.                                                *)
LEMMA FastScanKeeps ==
    ASSUME Routed, FastScan
    PROVE  Routed'
<1>1. IsAt("scan") /\ ~IsAt("review") /\ Scanning
  BY DEF FastScan, IsAt, Routed
<1>2. ASSUME NEW f, SetForm(f), f = [list |-> f.list, mode |-> f.mode],
             f.list \in Seq(Numbers), f.list # << >>
      PROVE  Routed'
  BY <1>1, <1>2 DEF SetForm, Routed, IsAt, Scanning
<1>3. ASSUME NEW x, x \in Numbers, SetForm([form EXCEPT !.list = Append(@, x)])
      PROVE  Routed'
  <2> DEFINE f == [form EXCEPT !.list = Append(@, x)]
  <2>1. f = [list |-> f.list, mode |-> f.mode] /\ f.list = Append(form.list, x)
    <3>1. \A y : [form EXCEPT !.list = y] = [list |-> y, mode |-> form.mode]
      BY <1>1 DEF Scanning
    <3>2. f = [list |-> Append(form.list, x), mode |-> form.mode]
      BY <3>1
    <3> QED
      BY <3>2
  <2>2. Append(form.list, x) \in Seq(Numbers) /\ Append(form.list, x) # << >>
    BY <1>1, <1>3 DEF Scanning
  <2> QED
    BY <1>2, <1>3, <2>1, <2>2
<1>4. ASSUME NEW mode, SetForm([form EXCEPT !.mode = mode]) PROVE Routed'
  <2> DEFINE f == [form EXCEPT !.mode = mode]
  <2>1. f = [list |-> f.list, mode |-> f.mode] /\ f.list = form.list
    BY <1>1 DEF Scanning
  <2> QED
    BY <1>1, <1>2, <1>4, <2>1 DEF Scanning
<1>5. ASSUME Go([name |-> "review", scanned |-> form.list]) PROVE Routed'
  <2> DEFINE r == [name |-> "review", scanned |-> form.list]
  <2>1. OpensReview(r) /\ r.name = "review"
    BY <1>1 DEF OpensReview, Scanning
  <2> QED
    BY <1>1, <1>5, <2>1, GoKeeps DEF IsRoute, IsAt
<1>6. Pool[(Len(form.list) % Len(Pool)) + 1] \in Numbers
  <2>1. Len(form.list) \in Nat /\ Len(Pool) \in Nat \ {0}
        /\ DOMAIN Pool = 1..Len(Pool) /\ \A k \in DOMAIN Pool : Pool[k] \in Numbers
    BY <1>1, PrototypeAssumption DEF Scanning
  <2>2. \A m \in Nat, n \in Nat \ {0} : (m % n) + 1 \in 1..n
    OBVIOUS
  <2>3. (Len(form.list) % Len(Pool)) + 1 \in 1..Len(Pool)
    BY <2>1, <2>2
  <2> QED
    BY <2>1, <2>3
<1> QED
  BY <1>3, <1>4, <1>5, <1>6, GoBackKeeps, GoToKeeps DEF FastScan, PlainScreens

(* Saving places of the review patches the store, owns what is at them and *)
(* disowns nothing.                                                        *)
LEMMA SavedPatches ==
    ASSUME AreOverrides(ov), NEW list, NEW grades, NEW places,
           NEW p, p = Saved(list, grades, places)
    PROVE  /\ Patched(ov, p)
           /\ \A i \in Numbers : CurrentIssue(i, ov).owned => CurrentIssue(i, p).owned
           /\ \A k \in places : list[k] \in Numbers => CurrentIssue(list[k], p).owned
<1> DEFINE of(i) == {k \in places : list[k] = i}
           q(i) == [owned |-> TRUE, condition |-> grades[Max(of(i))]]
<1>1. DOMAIN ov = Numbers /\ \A j \in Numbers : DOMAIN ov[j] \subseteq Fields
  BY DEF AreOverrides
<1>2. /\ DOMAIN p = Numbers
      /\ \A i \in Numbers : p[i] = IF of(i) = {} THEN ov[i] ELSE Spread(ov[i], q(i))
  BY DEF Saved
<1>3. \A i : DOMAIN q(i) = {"owned", "condition"} /\ q(i)["owned"] = TRUE
  OBVIOUS
<1> HIDE DEF of, q
<1>4. ASSUME NEW i
      PROVE  /\ DOMAIN Spread(ov[i], q(i)) = DOMAIN ov[i] \cup {"owned", "condition"}
             /\ Spread(ov[i], q(i))["owned"] = TRUE
  <2>1. /\ DOMAIN Spread(ov[i], q(i)) = DOMAIN ov[i] \cup DOMAIN q(i)
        /\ \A x \in DOMAIN ov[i] \cup DOMAIN q(i) :
              Spread(ov[i], q(i))[x] = IF x \in DOMAIN q(i) THEN q(i)[x] ELSE ov[i][x]
    BY SpreadFields
  <2> QED
    BY <1>3, <2>1
<1>5. Patched(ov, p)
  <2>1. \A i \in Numbers : DOMAIN p[i] \subseteq Fields
    BY <1>1, <1>2, <1>4 DEF Fields
  <2>2. \A i \in Numbers : DOMAIN q(i) \subseteq Fields
    BY <1>3 DEF Fields
  <2> QED
    BY <1>2, <2>1, <2>2 DEF Patched, AreOverrides
<1>6. ASSUME NEW i \in Numbers, of(i) # {} PROVE CurrentIssue(i, p).owned
  <2>1. CurrentIssue(i, p) = Spread(Base[i], p[i])
    BY BaseNumber DEF CurrentIssue, GetIssue
  <2>2. "owned" \in DOMAIN p[i] /\ p[i]["owned"] = TRUE
    BY <1>2, <1>4, <1>6
  <2>3. Spread(Base[i], p[i])["owned"] = TRUE
    BY <2>2, SpreadFields
  <2> QED
    BY <2>1, <2>3
<1>7. ASSUME NEW i \in Numbers, of(i) = {}, CurrentIssue(i, ov).owned
      PROVE  CurrentIssue(i, p).owned
  BY <1>2, <1>7, BaseNumber DEF CurrentIssue, GetIssue
<1>8. ASSUME NEW k \in places PROVE of(list[k]) # {}
  BY DEF of
<1> QED
  BY <1>5, <1>6, <1>7, <1>8

LEMMA ReviewKeeps ==
    ASSUME Routed, Review
    PROVE  Routed'
<1> DEFINE list == route.scanned
           idx == form.idx
<1>1. IsAt("review") /\ ~IsAt("scan") /\ Reviewing /\ OpensReview(route)
  BY RouteNames DEF Review, IsAt, Routed
<1>2. ASSUME NEW f, SetForm(f), f = [idx |-> f.idx, done |-> f.done, grades |-> f.grades],
             f.idx \in DOMAIN list, f.done = form.done
      PROVE  Routed'
  BY <1>1, <1>2 DEF SetForm, Routed, IsAt, Reviewing
<1>3. ASSUME NEW g, SetForm([form EXCEPT !.grades[idx] = g]) PROVE Routed'
  BY <1>1, <1>2, <1>3 DEF Reviewing
<1>4. ASSUME NEW k \in DOMAIN list, SetForm([form EXCEPT !.idx = k]) PROVE Routed'
  BY <1>1, <1>2, <1>4 DEF Reviewing
<1>5. ASSUME NEW places, ov' = Saved(list, form.grades, places)
      PROVE  /\ Patched(ov, ov')
             /\ \A i \in Numbers : CurrentIssue(i, ov).owned => CurrentIssue(i, ov').owned
             /\ \A k \in places : list[k] \in Numbers => CurrentIssue(list[k], ov').owned
  BY <1>5, SavedPatches DEF Routed
<1>6. ASSUME idx < Len(list), ov' = Saved(list, form.grades, {idx}),
             form' = [form EXCEPT !.done = @ \cup {list[idx]}, !.idx = idx + 1],
             route' = route
      PROVE  Routed'
  <2>1. /\ list[idx] \in Numbers /\ idx + 1 \in DOMAIN list
    BY <1>1, <1>6 DEF Reviewing, OpensReview
  <2>2. /\ form' = [idx |-> form'.idx, done |-> form'.done, grades |-> form'.grades]
        /\ form'.idx = idx + 1 /\ form'.done = form.done \cup {list[idx]}
    BY <1>1, <1>6 DEF Reviewing
  <2>3. \A i \in form'.done : i \in Numbers /\ CurrentIssue(i, ov').owned
    BY <1>1, <1>5, <1>6, <2>1, <2>2 DEF Reviewing
  <2>4. IsRoute(route', ov') /\ AreOverrides(ov')
    BY <1>5, <1>6, RoutesStay DEF Routed, Patched
  <2>5. Reviewing'
    BY <1>6, <2>1, <2>2, <2>3 DEF Reviewing
  <2> QED
    BY <1>1, <1>6, <2>4, <2>5 DEF Routed, IsAt
<1>7. ASSUME NEW places, ov' = Saved(list, form.grades, places), route' = R("polica")
      PROVE  Routed'
  <2>1. AreOverrides(ov')
    BY <1>5, <1>7 DEF Patched
  <2>2. IsRoute(route', ov') /\ route'.name = "polica"
    BY <1>7, PlainIsRoute DEF PlainScreens
  <2> QED
    BY <2>1, <2>2 DEF Routed, IsAt
<1> QED
  BY <1>3, <1>4, <1>6, <1>7, GoBackKeeps DEF Review

-----------------------------------------------------------------------------
(* The enterprise half never leaves its routes.                            *)
LEMMA BackIsERoute ==
    ASSUME NEW r \in E!ERoutes, r.name \notin ELandings
    PROVE  E!EBack(r) \in E!ERoutes
<1>1. CASE r.name = "primjerak"
  <2>1. r.from \in [name: {"pozicija"}, pos: Positions]
    BY <1>1 DEF E!ERoutes, E!At
  <2> QED
    BY <1>1, <2>1 DEF E!ERoutes, E!EBack
<1>2. CASE r.name # "primjerak"
  <2>1. E!EBack(r) \in {E!At("pregled"), E!At("inventar"), E!At("posudbe"), E!At("clanovi")}
    BY <1>2 DEF E!ERoutes, E!EBack, E!At, ELandings
  <2> QED
    BY <2>1 DEF E!ERoutes
<1> QED
  BY <1>1, <1>2

LEMMA EnterpriseKeeps ==
    ASSUME eroute \in E!ERoutes, E!ENext
    PROVE  eroute' \in E!ERoutes
<1>1. ASSUME NEW r \in E!ERoutes, E!GoE(r) PROVE eroute' \in E!ERoutes
  BY <1>1 DEF E!GoE
<1>2. ASSUME NEW f, E!SetForm(f) PROVE eroute' \in E!ERoutes
  BY <1>2 DEF E!SetForm
<1>3. ASSUME E!GoE(E!EBack(eroute)), eroute.name \notin ELandings
      PROVE  eroute' \in E!ERoutes
  BY <1>1, <1>3, BackIsERoute
<1>4. \A name \in {"aktivacija", "pregled", "inventar", "posudbe", "clanovi", "noviclan",
                  "rezervacije", "novaposudba", "prijem", "postavke"} :
          E!At(name) \in E!ERoutes
  BY DEF E!ERoutes
<1>5. CASE E!ENavBar
  BY <1>1, <1>4, <1>5 DEF E!ENavBar
<1>6. CASE E!Activate \/ E!PositionSheet \/ E!SettingsE
  BY <1>1, <1>2, <1>4, <1>6 DEF E!Activate, E!PositionSheet, E!SettingsE
<1>7. CASE E!Dash
  BY <1>1, <1>4, <1>7 DEF E!Dash
<1>8. CASE E!Locations
  <2>1. \A p \in Positions : [name |-> "pozicija", pos |-> p] \in E!ERoutes
    BY DEF E!ERoutes
  <2> QED
    BY <1>1, <1>3, <1>8, <2>1 DEF E!Locations, E!On, ELandings
<1>9. CASE E!Position
  <2>1. eroute \in [name: {"pozicija"}, pos: Positions]
    BY <1>9 DEF E!Position, E!On, E!ERoutes, E!At
  <2>2. \A x \in Items : [name |-> "primjerak", item |-> x, from |-> eroute] \in E!ERoutes
    BY <2>1 DEF E!ERoutes
  <2> QED
    BY <1>1, <1>3, <1>9, <2>2 DEF E!Position, E!On, ELandings
<1>10. CASE E!Item
  BY <1>1, <1>2, <1>3, <1>4, <1>10 DEF E!Item, E!On, ELandings
<1>11. CASE E!Receiving
  BY <1>2, <1>3, <1>11 DEF E!Receiving, E!On, ELandings
<1>12. CASE E!LoansOfMembers
  BY <1>1, <1>2, <1>3, <1>4, <1>12 DEF E!LoansOfMembers, E!On, ELandings
<1>13. CASE E!MemberList
  <2>1. \A m \in Members : [name |-> "clan", member |-> m] \in E!ERoutes
    BY DEF E!ERoutes
  <2> QED
    BY <1>1, <1>3, <1>4, <1>13, <2>1 DEF E!MemberList, E!On, ELandings
<1>14. CASE E!NewMember \/ E!Member
  BY <1>1, <1>3, <1>4, <1>14 DEF E!NewMember, E!Member, E!On, ELandings
<1>15. CASE E!NewLoanOfMember
  BY <1>2, <1>3, <1>15 DEF E!NewLoanOfMember, E!On, ELandings
<1>16. CASE E!Reservations
  BY <1>2, <1>3, <1>16 DEF E!Reservations, E!On, ELandings
<1> QED
  BY <1>5, <1>6, <1>7, <1>8, <1>9, <1>10, <1>11, <1>12, <1>13, <1>14, <1>15, <1>16
     DEF E!ENext

-----------------------------------------------------------------------------
(* Going back: at a landing it stays, and a tab is at most four away.      *)
LEMMA OutStays ==
    ASSUME NEW r, r.name \in Landings
    PROVE  Out(r) = r
BY DEF Out

LEMMA OutOfRecord ==
    ASSUME NEW r, r.name \in {"issue", "edit", "review", "series"}
    PROVE  /\ r.name \in {"issue", "edit"} /\ "from" \in DOMAIN r => Out(r) = r.from
           /\ r.name = "review" => Out(r) = R("scan")
           /\ r.name = "series" => Out(r) = R("polica")
<1>1. r.name \notin Landings
  BY DEF Landings
<1>2. Out(r) = Back(r)
  BY <1>1 DEF Out
<1>3. r.name \in {"issue", "edit"} /\ "from" \in DOMAIN r => Back(r) = r.from
  BY DEF Back, FromOr
<1>4. (r.name = "review" => Back(r) = R("scan")) /\ (r.name = "series" => Back(r) = R("polica"))
  BY DEF Back
<1> QED
  BY <1>2, <1>3, <1>4

(* A screen of the hub leads back to where it was opened from.             *)
LEMMA ListLeadsBack ==
    ASSUME NEW r, r.name \in HubScreens, "from" \in DOMAIN r
    PROVE  Out(r) = r.from
<1>1. r.name \in {"stats", "releases", "export", "unread", "trazim", "dupli", "posudeno"}
  BY DEF HubScreens, ListScreens
<1>2. Out(r) = Back(r)
  BY <1>1 DEF Out, Landings
<1>3. Back(r) = r.from
  BY <1>1 DEF Back, FromOr, ListScreens
<1> QED
  BY <1>2, <1>3

LEMMA PlainLeadsOut ==
    ASSUME NEW name \in PlainScreens
    PROVE  Out(Out(Out(R(name)))).name \in Landings
<1> DEFINE One == {"mode", "import", "hub", "releases", "add", "scan", "confirm", "conflict",
                   "enterprise"}
           Two == {"login", "batch", "manual", "photo"}
           Lands == {R(n) : n \in Landings}
<1>1. \A n \in PlainScreens : R(n).name = n /\ "from" \notin DOMAIN R(n)
  BY PlainIsRoute
<1>2. \A r \in Lands : Out(r) = r /\ r.name \in Landings
  BY DEF R, Out
<1>3. ASSUME NEW n \in One PROVE Out(R(n)) \in Lands
  <2>1. n \in PlainScreens /\ n \notin Landings
    BY DEF PlainScreens, Landings
  <2>2. Out(R(n)) = Back(R(n)) /\ R(n).name = n /\ "from" \notin DOMAIN R(n)
    BY <1>1, <2>1 DEF Out
  <2>3. Back(R(n)) \in {R("welcome"), R("empty"), R("polica"), R("home"), R("search"),
                        R("settings")}
    BY <2>2 DEF Back, FromOr
  <2> QED
    BY <2>2, <2>3 DEF Landings
<1>4. ASSUME NEW n \in Two PROVE Out(R(n)) \in {R("mode"), R("add"), R("scan")}
  <2>1. n \in PlainScreens /\ n \notin Landings
    BY DEF PlainScreens, Landings
  <2>2. Out(R(n)) = Back(R(n)) /\ R(n).name = n
    BY <1>1, <2>1 DEF Out
  <2> QED
    BY <2>2 DEF Back
<1>5. Out(R("register")) = R("login")
  BY DEF R, Out, Back, Landings
<1>6. Out(Out(R("trade"))) = R("polica")
  <2>1. Out(R("trade")) = RFrom("dupli", R("polica"))
    BY <1>1 DEF Out, Back, TradedFrom, Landings, PlainScreens
  <2>2. Out(RFrom("dupli", R("polica"))) = R("polica")
    <3>1. /\ RFrom("dupli", R("polica")).name = "dupli"
          /\ "from" \in DOMAIN RFrom("dupli", R("polica"))
          /\ RFrom("dupli", R("polica")).from = R("polica")
      BY DEF RFrom
    <3> QED
      BY <3>1, ListLeadsBack DEF HubScreens, ListScreens
  <2> QED
    BY <2>1, <2>2
<1>7. R("polica") \in Lands
  BY DEF Landings
<1>8. name \in Landings \cup One \cup Two \cup {"register", "trade"}
  BY DEF PlainScreens, Landings
<1>9. {"mode", "add", "scan"} \subseteq One /\ "login" \in Two
  OBVIOUS
<1>10. name \in Landings => R(name) \in Lands
  OBVIOUS
<1> HIDE DEF One, Two, Lands
<1> QED
  BY <1>2, <1>3, <1>4, <1>5, <1>6, <1>7, <1>8, <1>9, <1>10

LEMMA HubLeadsOut ==
    ASSUME NEW r \in HubRoutes
    PROVE  Out(Out(r)).name \in Landings
<1>1. r.name \in HubScreens \cup {"hub"} /\ "from" \in DOMAIN r
      /\ r.from \in {R("home"), R("polica"), R("hub")}
  BY DEF HubRoutes
<1>2. Out(r) \in {R("home"), R("polica"), R("hub")}
  <2>1. CASE r.name = "hub"
    BY <2>1 DEF Out, Back, Landings
  <2>2. CASE r.name \in HubScreens
    BY <1>1, <2>2, ListLeadsBack
  <2> QED
    BY <1>1, <2>1, <2>2
<1>3. /\ Out(R("home")) = R("home") /\ Out(R("polica")) = R("polica")
      /\ Out(R("hub")) = R("polica")
  BY DEF Out, Back, R, Landings
<1>4. R("home").name \in Landings /\ R("polica").name \in Landings
  BY DEF R, Landings
<1> QED
  BY <1>2, <1>3, <1>4

LEMMA OpenerLeadsOut ==
    ASSUME NEW r, Opener(r)
    PROVE  Out(Out(r)).name \in Landings
<1>1. CASE r \in {R("home"), R("search")}
  BY <1>1, OutStays DEF R, Landings
<1>2. CASE r \in EditionRoutes
  <2>1. Out(r) = [name |-> "series", series |-> r.series]
    BY <1>2 DEF EditionRoutes, Out, Back, Landings
  <2>2. Out([name |-> "series", series |-> r.series]) = R("polica")
    BY DEF Out, Back, Landings
  <2> QED
    BY <2>1, <2>2 DEF R, Landings
<1> QED
  BY <1>1, <1>2, HubLeadsOut DEF Opener

LEMMA AllLeadOut ==
    ASSUME NEW r, NEW o, IsRoute(r, o)
    PROVE  Out(Out(Out(Out(r)))).name \in Landings
<1>1. ASSUME NEW f, OpensIssue(f, o) PROVE Out(Out(Out(f))).name \in Landings
  <2>1. f.name = "issue" /\ "from" \in DOMAIN f /\ Opener(f.from)
    BY <1>1 DEF OpensIssue
  <2>2. Out(f) = f.from
    BY <2>1, OutOfRecord
  <2> QED
    BY <2>1, <2>2, OpenerLeadsOut
<1>2. CASE r \in PlainRoutes
  BY <1>2, PlainLeadsOut, OutStays DEF PlainRoutes
<1>3. CASE r \in HubRoutes \cup EditionRoutes
  BY <1>3, HubLeadsOut, OpenerLeadsOut, OutStays DEF Opener
<1>4. CASE r \in SeriesRoutes
  <2>1. Out(r) = R("polica")
    BY <1>4, OutOfRecord DEF SeriesRoutes
  <2>2. R("polica").name \in Landings
    BY DEF R, Landings
  <2> QED
    BY <2>1, <2>2, OutStays
<1>5. CASE OpensIssue(r, o)
  BY <1>1, <1>5, OutStays
<1>6. CASE OpensEditor(r, o)
  <2>1. r.name = "edit" /\ "from" \in DOMAIN r /\ OpensIssue(r.from, o)
    BY <1>6 DEF OpensEditor
  <2>2. Out(r) = r.from
    BY <2>1, OutOfRecord
  <2> QED
    BY <1>1, <2>1, <2>2
<1>7. CASE OpensReview(r)
  <2>1. r.name = "review"
    BY <1>7 DEF OpensReview
  <2>2. Out(r) = R("scan")
    BY <2>1, OutOfRecord
  <2> QED
    BY <2>2, PlainLeadsOut DEF PlainScreens
<1> QED
  BY <1>2, <1>3, <1>4, <1>5, <1>6, <1>7 DEF IsRoute

LEMMA EnterpriseLeadsOut ==
    ASSUME NEW r \in E!ERoutes
    PROVE  EOut(EOut(EOut(EOut(r)))).name \in ELandings
<1>1. ASSUME NEW q, q.name \in ELandings PROVE EOut(q) = q
  BY <1>1 DEF EOut
<1>2. E!At("pregled").name \in ELandings
  BY DEF E!At, ELandings
<1>3. /\ EOut(E!At("inventar")) = E!At("pregled") /\ EOut(E!At("posudbe")) = E!At("pregled")
      /\ EOut(E!At("clanovi")) = E!At("posudbe")
  BY DEF EOut, E!EBack, E!At, ELandings
<1>4. ASSUME NEW q, q.name = "pozicija" PROVE EOut(q) = E!At("inventar")
  BY <1>4 DEF EOut, E!EBack, ELandings
<1>5. CASE r.name = "primjerak"
  <2>1. r.from.name = "pozicija"
    BY <1>5 DEF E!ERoutes, E!At
  <2>2. EOut(r) = r.from
    BY <1>5 DEF EOut, E!EBack, ELandings
  <2> QED
    BY <1>1, <1>2, <1>3, <1>4, <2>1, <2>2
<1>6. CASE r.name # "primjerak"
  <2>1. \/ r.name \in ELandings
        \/ EOut(r) \in {E!At("pregled"), E!At("inventar"), E!At("posudbe"), E!At("clanovi")}
    BY <1>6 DEF E!ERoutes, EOut, E!EBack, E!At, ELandings
  <2> QED
    BY <1>1, <1>2, <1>3, <2>1
<1> QED
  BY <1>5, <1>6

-----------------------------------------------------------------------------
(* Only the enterprise screen changes the enterprise half.                 *)
LEMMA OnlyEnterprise ==
    ASSUME NextPrototype, ~Enterprise
    PROVE  eroute' = eroute
<1>1. ASSUME NEW r, Go(r) PROVE eroute' = eroute
  BY <1>1 DEF Go, evars
<1>2. ASSUME NEW f, SetForm(f) PROVE eroute' = eroute
  BY <1>2 DEF SetForm, evars
<1>3. ASSUME NEW i, NEW q, Patch(i, q) PROVE eroute' = eroute
  BY <1>3 DEF Patch, evars
<1>4. ASSUME NEW names, GoTo(names) PROVE eroute' = eroute
  BY <1>1, <1>4 DEF GoTo
<1>5. ASSUME GoBack \/ OpenSeries PROVE eroute' = eroute
  BY <1>1, <1>5 DEF GoBack, OpenSeries
<1>6. ASSUME NEW it, NEW from, OpenIssue(it, from) PROVE eroute' = eroute
  BY <1>1, <1>6 DEF OpenIssue
<1>7. ASSUME NEW name, NEW ticked, ListScreen(name, ticked) PROVE eroute' = eroute
  BY <1>3, <1>5, <1>6, <1>7 DEF ListScreen
<1>8. CASE Welcome \/ ModePick \/ Login \/ Register \/ Empty \/ Import \/ Conflict
  BY <1>2, <1>4, <1>5, <1>8 DEF Welcome, ModePick, Login, Register, Empty, Import, Conflict
<1>9. CASE NavBar \/ Shelf \/ Hub \/ Settings \/ Stats \/ Export
  BY <1>1, <1>2, <1>4, <1>5, <1>9 DEF NavBar, Shelf, Hub, Settings, Stats, Export
<1>10. CASE Home \/ SeriesScreen \/ Compact \/ Search \/ Releasing
  BY <1>1, <1>2, <1>4, <1>5, <1>6, <1>10 DEF Home, SeriesScreen, Compact, Search, Releasing
<1>11. CASE Unread \/ Trazim \/ Dupli \/ Posudeno \/ Trade
  BY <1>4, <1>5, <1>7, <1>11 DEF Unread, Trazim, Dupli, Posudeno, Trade
<1>12. CASE Issue
  BY <1>1, <1>3, <1>5, <1>12 DEF Issue
<1>13. CASE Edit
  BY <1>2, <1>5, <1>13 DEF Edit, evars
<1>14. CASE AddSheet \/ FastScan \/ Confirm \/ Photo \/ Manual \/ Batch
  BY <1>1, <1>2, <1>4, <1>5, <1>14 DEF AddSheet, FastScan, Confirm, Photo, Manual, Batch
<1>15. CASE Review
  BY <1>2, <1>5, <1>15 DEF Review, evars
<1> QED
  BY <1>8, <1>9, <1>10, <1>11, <1>12, <1>13, <1>14, <1>15 DEF NextPrototype

(* The whole.                                                              *)
Prototyped == Routed /\ eroute \in E!ERoutes

LEMMA PrototypedInitially == InitPrototype => Prototyped
<1> SUFFICES ASSUME InitPrototype PROVE Prototyped
  OBVIOUS
<1>1. route = R("welcome") /\ ov = [i \in Numbers |-> << >>] /\ eroute = E!At("aktivacija")
  BY DEF InitPrototype, E!EInit
<1>2. IsRoute(route, ov) /\ route.name = "welcome"
  BY <1>1, PlainIsRoute DEF PlainScreens
<1>3. AreOverrides(ov)
  BY <1>1 DEF AreOverrides
<1>4. eroute \in E!ERoutes
  BY <1>1 DEF E!ERoutes
<1> QED
  BY <1>2, <1>3, <1>4 DEF Prototyped, Routed, IsAt

LEMMA PrototypedStays == Prototyped /\ [NextPrototype]_prototypeVars => Prototyped'
<1> SUFFICES ASSUME Prototyped, [NextPrototype]_prototypeVars PROVE Prototyped'
  OBVIOUS
<1>1. CASE UNCHANGED prototypeVars
  BY <1>1 DEF Prototyped, Routed, prototypeVars, evars, IsAt, Scanning, Reviewing
<1>2. CASE Enterprise
  <2>1. route' = route /\ ov' = ov /\ form' = form
    BY <1>2 DEF Enterprise
  <2>2. Routed'
    BY <2>1 DEF Prototyped, Routed, IsAt, Scanning, Reviewing
  <2> QED
    BY <1>2, <2>2, EnterpriseKeeps DEF Enterprise, Prototyped
<1>3. ASSUME NextPrototype, ~Enterprise PROVE Routed'
  BY <1>3, WayInKeeps, TabsKeep, AddingKeeps, OpeningKeeps, ListsKeep, IssueKeeps, EditKeeps,
     FastScanKeeps, ReviewKeeps DEF NextPrototype, Prototyped
<1>4. ASSUME NextPrototype, ~Enterprise PROVE eroute' = eroute
  BY <1>4, OnlyEnterprise
<1> QED
  BY <1>1, <1>2, <1>3, <1>4 DEF Prototyped

LEMMA PrototypeHolds == PrototypeSpec => []Prototyped
BY PrototypedInitially, PrototypedStays, PTL DEF PrototypeSpec

(* Whatever was patched since a screen opened, the issue that a screen     *)
(* shows is the store's, and so is the one it returns to.                  *)
THEOREM IssuesAreCurrent == PrototypeSpec => []ShownIssueIsCurrent
<1>1. Prototyped => ShownIssueIsCurrent
  <2>1. ASSUME NEW it, Fits(it, ov) PROVE Agrees(it)
    BY <2>1, BaseNumber DEF Fits, Agrees, CurrentIssue
  <2>2. ASSUME Prototyped, IsAt("issue") PROVE Agrees(route.issue)
    BY <2>1, <2>2, RouteNames DEF Prototyped, Routed, IsAt, OpensIssue
  <2>3. ASSUME Prototyped, IsAt("edit") PROVE Agrees(route.issue) /\ Agrees(route.from.issue)
    BY <2>1, <2>3, RouteNames DEF Prototyped, Routed, IsAt, OpensIssue, OpensEditor
  <2> QED
    BY <2>2, <2>3 DEF ShownIssueIsCurrent
<1> QED
  BY <1>1, PrototypeHolds, PTL

(* Everything the review shows as done is in the collection.               *)
THEOREM ReviewedAreOwned == PrototypeSpec => []DoneIsOwned
<1>1. Prototyped => DoneIsOwned
  BY DEF Prototyped, Routed, Reviewing, DoneIsOwned
<1> QED
  BY <1>1, PrototypeHolds, PTL

(* From every screen four steps back lead to a tab or a first screen.      *)
THEOREM NobodyIsLost == PrototypeSpec => []BackLeadsOut
<1>1. Prototyped => BackLeadsOut
  BY AllLeadOut, EnterpriseLeadsOut DEF Prototyped, Routed, BackLeadsOut
<1> QED
  BY <1>1, PrototypeHolds, PTL

=============================================================================

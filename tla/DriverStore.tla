----------------------------- MODULE DriverStore ----------------------------
(***************************************************************************)
(* Installing and removing the driver from the GUI: DevicesViewModel on    *)
(* the UI thread, the tasks its commands start, OwbDriverStore over        *)
(* pnputil, PnpDriverActivator over newdev, and the list that Refresh      *)
(* builds and MainWindow rebuilds 800 ms after a WM_DEVICECHANGE.          *)
(*                                                                         *)
(* Every call of pnputil or newdev is a step: nothing keeps two tasks, or  *)
(* a task and a Refresh, from running theirs in between.  One audio device *)
(* is paired.  pnputil, PnP and the user are external; the driver store    *)
(* holds packages under published names (oemNN.inf), and the device is     *)
(* bound to one of them or to the driver of Windows.  A call of pnputil    *)
(* that fails throws, when it cannot be started, or ends with an exit code *)
(* that only Add and Delete look at.                                       *)
(***************************************************************************)
EXTENDS Naturals, FiniteSets

CONSTANTS
  Names,        \* published names
  Tasks,        \* tasks the thread pool may run for the commands
  WINDOWS,      \* the driver of Windows
  MaxChanges,   \* bound: times the device leaves or comes back, and scans
  MaxFailures   \* bound: calls of pnputil that fail or cannot start

ASSUME ConstantAssumption ==
  /\ WINDOWS \notin Names /\ "none" \notin Tasks
  /\ IsFiniteSet(Names) /\ MaxChanges \in Nat /\ MaxFailures \in Nat

VARIABLES
  store,        \* packages of owb_a2dp.inf in the driver store
  bound,        \* the driver of the audio device
  connected,    \* it is connected
  devchange,    \* a WM_DEVICECHANGE is in the queue of the window
  _refreshDebounce,  \* the timer runs
  hooked,       \* there is a window, and WndProc hears its messages
  SelectedDevice, StatusMessage,
  shown,        \* the device in the list: "absent", "no_profile", "owb", "other"
  scanned,      \* history: no call of pnputil failed in the last Refresh
  missed,       \* history: the device has changed since, and no window heard it
  ui,           \* label of the UI thread
  by,           \* the task whose ShowAfterRefresh it runs, or "none"
  devices,      \* local of Refresh: the driver /enum-devices reported
  task,         \* the tasks
  clean,        \* no other task has changed the store since this one began
  changes, failures

pnp == <<store, bound, connected>>
window == <<devchange, _refreshDebounce, hooked>>
list == <<SelectedDevice, StatusMessage, shown>>
history == <<scanned, missed>>
uiThread == <<ui, by, devices>>
bounds == <<changes, failures>>
vars == <<pnp, window, list, history, uiThread, task, clean, bounds>>

Results == {"registered", "register_failed", "restored", "nothing",
            "remove_failed", "error"}
Messages == {"scanning", "no_devices", "scanned", "no_inf", "installing",
             "restoring"} \cup Results
Labels == {"free", "add", "activate", "enum", "delete", "show", "done"}
Idle == [pc |-> "free", names |-> {}, failed |-> FALSE, message |-> "error"]

TypeOK ==
  /\ store \subseteq Names /\ bound \in store \cup {WINDOWS}
  /\ connected \in BOOLEAN /\ devchange \in BOOLEAN
  /\ _refreshDebounce \in BOOLEAN /\ hooked \in BOOLEAN
  /\ SelectedDevice \in BOOLEAN /\ scanned \in BOOLEAN /\ missed \in BOOLEAN
  /\ StatusMessage \in Messages
  /\ shown \in {"absent", "no_profile", "owb", "other"}
  /\ SelectedDevice => shown # "absent"
  /\ ui \in {"idle", "refresh", "drivers", "window"} /\ by \in Tasks \cup {"none"}
  /\ devices \in Names \cup {WINDOWS, "none"}
  /\ task \in [Tasks -> [pc : Labels, names : SUBSET Names,
                         failed : BOOLEAN, message : Results]]
  /\ clean \in [Tasks -> BOOLEAN]
  /\ changes \in 0..MaxChanges /\ failures \in 0..MaxFailures

\* ShowMainWindow builds the view model, whose constructor refreshes, before it
\* builds the window.
Init ==
  /\ store \in SUBSET Names /\ bound \in store \cup {WINDOWS}
  /\ connected \in BOOLEAN
  /\ devchange = FALSE /\ _refreshDebounce = FALSE /\ hooked = FALSE
  /\ SelectedDevice = FALSE /\ StatusMessage = "scanning" /\ shown = "absent"
  /\ scanned = TRUE /\ missed = FALSE
  /\ ui = "refresh" /\ by = "none" /\ devices = "none"
  /\ task = [t \in Tasks |-> Idle] /\ clean = [t \in Tasks |-> TRUE]
  /\ changes = 0 /\ failures = 0

-----------------------------------------------------------------------------
(* The system (external).                                                  *)

\* A package or a driver changes hands: PnP broadcasts what it does to devices.
Rebind(d) == /\ bound' = d
             /\ devchange' = (devchange \/ d # bound)

\* Task t changes the store to s; the others' view of it is out of date.
StoreBecomes(t, s) ==
  /\ store' = s
  /\ clean' = [u \in Tasks |-> IF u = t \/ s = store THEN clean[u] ELSE FALSE]

Fails == failures < MaxFailures /\ failures' = failures + 1
Works == UNCHANGED failures

\* The headphones leave, or come back and Windows ranks the drivers anew.  The
\* broadcast goes to the windows there are.
Plug ==
  /\ changes < MaxChanges /\ changes' = changes + 1
  /\ connected' = ~connected
  /\ devchange' = hooked /\ missed' = (missed \/ ~hooked)
  /\ bound' \in IF connected THEN {bound} ELSE store \cup {WINDOWS}
  /\ UNCHANGED <<store, _refreshDebounce, hooked, list, scanned, uiThread, task, clean,
                 failures>>

-----------------------------------------------------------------------------
(* MainWindow and Refresh, on the UI thread.                               *)

\* Mutant: the timer that already runs is stopped and not started again.
WndProc_StopsTimer ==
  /\ ui = "idle" /\ devchange
  /\ devchange' = FALSE /\ _refreshDebounce' = ~_refreshDebounce
  /\ UNCHANGED <<pnp, hooked, list, history, uiThread, task, clean, bounds>>

WndProc ==
  /\ ui = "idle" /\ devchange
  /\ devchange' = FALSE /\ _refreshDebounce' = TRUE
  /\ UNCHANGED <<pnp, hooked, list, history, uiThread, task, clean, bounds>>

Tick ==
  /\ ui = "idle" /\ _refreshDebounce
  /\ _refreshDebounce' = FALSE
  /\ ui' = "refresh"
  /\ UNCHANGED <<pnp, devchange, hooked, list, history, by, devices, task, clean, bounds>>

\* Devices.Clear(), then QueryA2dpDevices' first pnputil, /enum-devices.  If it
\* fails the map is empty: either there is no output to parse, or the handler in
\* QueryA2dpDevices swallows the exception.
Refresh ==
  /\ ui = "refresh" /\ ui' = "drivers"
  /\ SelectedDevice' = FALSE /\ shown' = "absent"
  /\ \/ devices' = bound /\ Works /\ scanned' = TRUE
     \/ devices' = "none" /\ Fails /\ scanned' = FALSE
  /\ missed' = FALSE
  /\ UNCHANGED <<pnp, window, StatusMessage, by, task, clean, changes>>

\* A2dpDriverMap.Build: is the driver the device had one of the packages the
\* store has now?
Build(published) ==
  IF devices = "none" THEN "no_profile"
  ELSE IF devices \in published THEN "owb" ELSE "other"

\* The second pnputil, /enum-drivers, the list of connected devices and the
\* message; then, in ShowAfterRefresh, the result of the task.  An /enum-drivers
\* that ends with an error names no package, one that cannot be started throws.
RefreshEnds ==
  /\ ui = "drivers" /\ ui' = IF hooked THEN "idle" ELSE "window"
  /\ \E a2dp \in {Build(store), Build({}), "no_profile"} :
       /\ IF a2dp = Build(store) THEN Works ELSE Fails
       /\ shown' = IF connected THEN a2dp ELSE "absent"
       /\ scanned' = (scanned /\ a2dp = Build(store))
  /\ StatusMessage' = IF by # "none" THEN task[by].message
                      ELSE IF connected THEN "scanned" ELSE "no_devices"
  /\ by' = "none" /\ devices' = "none"
  /\ UNCHANGED <<pnp, window, SelectedDevice, missed, task, clean, changes>>

\* The view model is built: MainWindow is shown, and adds its hook.
ShowMainWindow ==
  /\ ui = "window" /\ ui' = "idle"
  /\ hooked' = TRUE
  /\ UNCHANGED <<pnp, devchange, _refreshDebounce, list, history, by, devices, task, clean,
                 bounds>>

\* The user asks for a new scan.
RefreshCommand ==
  /\ ui = "idle" /\ changes < MaxChanges
  /\ changes' = changes + 1
  /\ ui' = "refresh"
  /\ UNCHANGED <<pnp, window, list, history, by, devices, task, clean, failures>>

\* The user picks the device.
Select ==
  /\ ui = "idle" /\ shown # "absent" /\ ~SelectedDevice
  /\ SelectedDevice' = TRUE
  /\ UNCHANGED <<pnp, window, StatusMessage, shown, history, uiThread, task, clean, bounds>>

\* A command starts a task on the pool.
Run(pc, message) ==
  /\ ui = "idle" /\ SelectedDevice
  /\ \E t \in Tasks :
       /\ task[t].pc = "free"
       /\ task' = [task EXCEPT ![t].pc = pc]
       /\ clean' = [clean EXCEPT ![t] = TRUE]
  /\ StatusMessage' = message
  /\ UNCHANGED <<pnp, window, SelectedDevice, shown, history, uiThread, bounds>>

\* InstallDriver: with test signing on and the INF there.
InstallDriver == Run("add", "installing")

\* InstallDriver without the INF, or EnableTestSigning refused.
InstallDriver_Refused ==
  /\ ui = "idle" /\ SelectedDevice
  /\ StatusMessage' \in {"no_inf", "error"}
  /\ UNCHANGED <<pnp, window, SelectedDevice, shown, history, uiThread, task, clean, bounds>>

ResetDriver == Run("enum", "restoring")

\* Dispatcher.Invoke in ShowAfterRefresh: the UI thread takes the task's turn.
ShowAfterRefresh(t) ==
  /\ task[t].pc = "show" /\ ui = "idle"
  /\ ui' = "refresh" /\ by' = t
  /\ task' = [task EXCEPT ![t].pc = "done"]
  /\ UNCHANGED <<pnp, window, list, history, devices, clean, bounds>>

-----------------------------------------------------------------------------
(* InstallAndActivate and RemoveOwbDriver, on the pool.                    *)

PoolFrame ==
  UNCHANGED <<connected, _refreshDebounce, hooked, list, history, uiThread, changes>>

Show(t, message) ==
  task' = [task EXCEPT ![t].pc = "show", ![t].message = message, ![t].names = {}]

\* pnputil.exe cannot be started: the exception reaches the task's handler.
PnputilThrows(t) ==
  /\ task[t].pc \in {"add", "enum", "delete"}
  /\ Fails /\ Show(t, "error")
  /\ UNCHANGED <<store, bound, devchange, clean>> /\ PoolFrame

\* OwbDriverStore.Add: under a new name or the one it has; /install may bind
\* the device.  IsDriverRegistered looks at the code and the words of pnputil,
\* and its verdict is reported whatever the activation does.
Add(t) ==
  /\ task[t].pc = "add"
  /\ \/ \E n \in Names : /\ StoreBecomes(t, store \cup {n})
                         /\ \E d \in {bound, n} : Rebind(d)
                         /\ Works
                         /\ task' = [task EXCEPT ![t].pc = "activate",
                                                 ![t].message = "registered"]
     \/ /\ Fails
        /\ task' = [task EXCEPT ![t].pc = "activate", ![t].message = "register_failed"]
        /\ UNCHANGED <<store, bound, devchange, clean>>
  /\ PoolFrame

\* PnpDriverActivator.ForceOnA2dpSinks, whose result is only logged.
ForceOnA2dpSinks(t) ==
  /\ task[t].pc = "activate"
  /\ Show(t, task[t].message)
  /\ \E d \in store \cup {bound} : Rebind(d)
  /\ Works /\ UNCHANGED <<store, clean>> /\ PoolFrame

\* Mutant: any package that could be deleted counts as a success.
DescribeResetResult_Any(failed, some) == IF some THEN "restored" ELSE "nothing"

DescribeResetResult(failed, some) ==
  IF ~some THEN "nothing" ELSE IF failed THEN "remove_failed" ELSE "restored"

\* OwbDriverStore.Remove: FindPublishedNames.  Nobody looks at the exit code of
\* /enum-drivers, and one that fails names no package.
FindPublishedNames(t) ==
  /\ task[t].pc = "enum"
  /\ \E names \in {store, {}} :
       /\ IF names = store THEN Works ELSE Fails
       /\ IF names = {} THEN Show(t, DescribeResetResult(FALSE, FALSE))
          ELSE task' = [task EXCEPT ![t].pc = "delete", ![t].names = names]
  /\ UNCHANGED <<store, bound, devchange, clean>> /\ PoolFrame

\* A delete of n returned; after the last one the outcome is shown.
Deleted(t, n, failed) ==
  LET left == task[t].names \ {n}
      any == task[t].failed \/ failed
  IN  IF left = {} THEN Show(t, DescribeResetResult(any, TRUE))
      ELSE task' = [task EXCEPT ![t].names = left, ![t].failed = any]

\* Mutant: without /uninstall the device keeps the package that is deleted.
Delete_KeepsDriver(t) ==
  /\ task[t].pc = "delete"
  /\ \E n \in task[t].names :
       /\ n \in store /\ Works /\ StoreBecomes(t, store \ {n})
       /\ UNCHANGED <<bound, devchange>> /\ Deleted(t, n, FALSE)
  /\ PoolFrame

\* pnputil /delete-driver n /uninstall /force: the device falls back to another
\* driver.  A name that is gone, or any other failure, is an error code.
Delete(t) ==
  /\ task[t].pc = "delete"
  /\ \E n \in task[t].names :
       \/ /\ n \in store /\ Works
          /\ StoreBecomes(t, store \ {n})
          /\ \E d \in IF bound = n THEN (store \ {n}) \cup {WINDOWS} ELSE {bound} : Rebind(d)
          /\ Deleted(t, n, FALSE)
       \/ /\ IF n \in store THEN Fails ELSE Works
          /\ Deleted(t, n, TRUE)
          /\ UNCHANGED <<store, bound, devchange, clean>>
  /\ PoolFrame

Pool(t) ==
  \/ Add(t) \/ ForceOnA2dpSinks(t) \/ FindPublishedNames(t) \/ Delete(t)
  \/ PnputilThrows(t)

Ui == WndProc \/ Tick \/ Refresh \/ RefreshEnds \/ ShowMainWindow

User == Select \/ RefreshCommand \/ InstallDriver \/ InstallDriver_Refused \/ ResetDriver

Next ==
  \/ Plug \/ Ui \/ User
  \/ \E t \in Tasks : Pool(t) \/ ShowAfterRefresh(t)

Spec == Init /\ [][Next]_vars

\* The dispatcher empties its queue and the pool runs what it was given.
FairSpec ==
  /\ Spec
  /\ WF_vars(WndProc) /\ WF_vars(Tick)
  /\ WF_vars(Refresh \/ RefreshEnds \/ ShowMainWindow)
  /\ \A t \in Tasks : WF_vars(Pool(t)) /\ SF_vars(ShowAfterRefresh(t))

-----------------------------------------------------------------------------
\* What a task reports is so, unless another task has changed the store in the
\* meantime: "restored" means that every package of owb_a2dp.inf is gone, the
\* ones it could not name included, and "registered" that there is one.
\* (DevicesViewModel.cs:355-359, 437-445, OwbDriverStore.cs:14-22)
ResultsTrue ==
  \A t \in Tasks : task[t].pc \in {"show", "done"} /\ clean[t] =>
    /\ task[t].message = "restored" => store = {}
    /\ task[t].message = "registered" => store # {}

\* What the list should say of the device.
Truth ==
  IF ~connected THEN "absent" ELSE IF bound \in store THEN "owb" ELSE "other"

\* The list does not stay wrong: whatever tasks and plug events did between the
\* two pnputil calls of a Refresh, in the end the device is listed with the
\* driver it has.  Only a pnputil that failed in the last Refresh, or a change
\* that came before there was a window, may leave it otherwise
\* (DevicesViewModel.cs:448-460, MainWindow.xaml.cs:28-45).
ListSettles == <>[](scanned /\ ~missed => shown = Truth)
=============================================================================

-------------------------- MODULE DriverStoreProofs -------------------------
(***************************************************************************)
(* What the tasks of DevicesViewModel report about the driver store, for   *)
(* any number of tasks, packages, plug events and failures of pnputil.     *)
(***************************************************************************)
EXTENDS DriverStore, TLAPS

TaskType == [pc : Labels, names : SUBSET Names, failed : BOOLEAN, message : Results]

\* While Refresh waits for pnputil no device is selected.
ListInv == ui = "drivers" => SelectedDevice = FALSE

\* What a task of state k that has not been disturbed may rely on when the
\* store is s.  A removal that has met no failure has named every package that
\* is left, an activation follows a verdict of IsDriverRegistered, and a result
\* that is shown is so.
Undisturbed(k, s) ==
  /\ k.pc \in {"activate", "show", "done"} /\ k.message = "registered" => s # {}
  /\ k.pc = "delete" /\ k.failed = FALSE => s \subseteq k.names
  /\ k.pc \in {"show", "done"} /\ k.message = "restored" => s = {}

TaskInv ==
  \A t \in Tasks :
    /\ task[t].pc = "activate" => task[t].message \in {"registered", "register_failed"}
    /\ clean[t] = TRUE => Undisturbed(task[t], store)

StoreInv == TypeOK /\ ListInv /\ TaskInv

-----------------------------------------------------------------------------
\* The type invariant in the parts different provers handle.
PnpType == store \subseteq Names /\ bound \in store \cup {WINDOWS}

FlagType ==
  /\ connected \in BOOLEAN /\ devchange \in BOOLEAN
  /\ _refreshDebounce \in BOOLEAN /\ hooked \in BOOLEAN
  /\ SelectedDevice \in BOOLEAN /\ scanned \in BOOLEAN /\ missed \in BOOLEAN

ListType ==
  /\ StatusMessage \in Messages
  /\ shown \in {"absent", "no_profile", "owb", "other"}

SelectType == SelectedDevice => shown # "absent"

UiType ==
  /\ ui \in {"idle", "refresh", "drivers", "window"} /\ by \in Tasks \cup {"none"}
  /\ devices \in Names \cup {WINDOWS, "none"}

PoolType == task \in [Tasks -> TaskType] /\ clean \in [Tasks -> BOOLEAN]

NumberType == changes \in 0..MaxChanges /\ failures \in 0..MaxFailures

ScreenInv == FlagType /\ ListType /\ SelectType /\ UiType /\ ListInv

\* The parts together are the invariant, in a state and in the next.
LEMMA StoreParts ==
  /\ StoreInv <=> PnpType /\ ScreenInv /\ PoolType /\ NumberType /\ TaskInv
  /\ StoreInv' <=> PnpType' /\ ScreenInv' /\ PoolType' /\ NumberType' /\ TaskInv'
BY DEF StoreInv, TypeOK, PnpType, FlagType, ListType, SelectType, UiType, PoolType,
       NumberType, ScreenInv, TaskType

\* No task has begun.
LEMMA InitStoreInv == Init => StoreInv
<1> SUFFICES ASSUME Init PROVE StoreInv
  OBVIOUS
<1>1. PnpType
  BY DEF Init, PnpType
<1>2. FlagType /\ SelectType /\ ListInv
  BY DEF Init, FlagType, SelectType, ListInv
<1>3. ListType /\ UiType
  BY DEF Init, ListType, UiType, Messages
<1>4. Idle \in TaskType
  BY DEF Idle, TaskType, Labels, Results
<1>5. PoolType
  BY <1>4 DEF Init, PoolType
<1>6. NumberType
  BY ConstantAssumption DEF Init, NumberType
<1>7. TaskInv
  <2>1. \A t \in Tasks : task[t] = Idle
    BY DEF Init
  <2>2. QED
    BY <2>1 DEF TaskInv, Idle, Undisturbed
<1>8. QED
  BY <1>1, <1>2, <1>3, <1>5, <1>6, <1>7, StoreParts DEF ScreenInv

-----------------------------------------------------------------------------
(* Steps of one task.                                                      *)

\* The state of task t becomes k and no other task moves.
Moves(t, k) ==
  /\ k \in TaskType
  /\ task' = [task EXCEPT ![t] = k]

\* Task t's new state satisfies its part of TaskInv in a store s.
Holds(t, k, s) ==
  /\ k.pc = "activate" => k.message \in {"registered", "register_failed"}
  /\ clean[t] = TRUE => Undisturbed(k, s)

\* A step of one task that leaves the store alone, or tells the others.
LEMMA TaskMoves ==
  ASSUME PoolType, TaskInv, NEW t \in Tasks, NEW k, NEW s,
         Moves(t, k), Holds(t, k, s), store' = s,
         \/ s = store /\ clean' = clean
         \/ clean' = [u \in Tasks |-> IF u = t \/ s = store THEN clean[u] ELSE FALSE]
  PROVE  PoolType' /\ TaskInv'
<1>1. task' \in [Tasks -> TaskType] /\ task'[t] = k
      /\ \A u \in Tasks : u # t => task'[u] = task[u]
  BY DEF PoolType, Moves
<1>2. clean' \in [Tasks -> BOOLEAN] /\ clean'[t] = clean[t]
  BY DEF PoolType
<1>3. \A u \in Tasks : u # t => clean'[u] = FALSE \/ (s = store /\ clean'[u] = clean[u])
  <2>1. CASE s = store /\ clean' = clean
    BY <2>1
  <2>2. CASE clean' = [u \in Tasks |-> IF u = t \/ s = store THEN clean[u] ELSE FALSE]
    <3> SUFFICES ASSUME NEW u \in Tasks, u # t
                 PROVE  clean'[u] = FALSE \/ (s = store /\ clean'[u] = clean[u])
      OBVIOUS
    <3>2. CASE s = store
      BY <2>2, <3>2
    <3>3. CASE s # store
      <4>1. clean'[u] = FALSE
        BY <2>2, <3>3
      <4>2. QED
        BY <4>1
    <3>4. QED
      BY <3>2, <3>3
  <2>3. QED
    BY <2>1, <2>2
<1>4. SUFFICES ASSUME NEW u \in Tasks
               PROVE  /\ task'[u].pc = "activate" =>
                           task'[u].message \in {"registered", "register_failed"}
                      /\ clean'[u] = TRUE => Undisturbed(task'[u], s)
  BY <1>1, <1>2, <1>4 DEF PoolType, TaskInv, Undisturbed
<1>5. CASE u = t
  BY <1>1, <1>2, <1>5 DEF Holds
<1>6. CASE u # t
  <2>1. task'[u] = task[u] /\ (clean'[u] = FALSE \/ (s = store /\ clean'[u] = clean[u]))
    BY <1>1, <1>3, <1>6
  <2>2. QED
    BY <2>1 DEF TaskInv
<1>7. QED
  BY <1>5, <1>6

\* What Show makes of the task.
Shown(t, message) ==
  [task[t] EXCEPT !.pc = "show", !.message = message, !.names = {}]

\* Show is a move of its task.
LEMMA ShowMoves ==
  ASSUME PoolType, NEW t \in Tasks, NEW message \in Results, Show(t, message)
  PROVE  /\ Moves(t, Shown(t, message))
         /\ Shown(t, message).pc = "show" /\ Shown(t, message).message = message
<1>1. task[t] \in TaskType
  BY DEF PoolType
<1>2. /\ Shown(t, message) \in TaskType
      /\ Shown(t, message).pc = "show" /\ Shown(t, message).message = message
  BY <1>1 DEF Shown, TaskType, Labels
<1>3. task' = [task EXCEPT ![t] = Shown(t, message)]
  BY DEF Show, Shown, PoolType
<1>4. QED
  BY <1>2, <1>3 DEF Moves

\* A result is a result.
LEMMA ResetResult ==
  ASSUME NEW failed \in BOOLEAN, NEW some \in BOOLEAN
  PROVE  /\ DescribeResetResult(failed, some) \in Results \ {"registered"}
         /\ DescribeResetResult(failed, some) = "restored" => failed = FALSE
BY DEF DescribeResetResult, Results

\* Failures are counted up to their bound.
LEMMA Counted ==
  ASSUME NumberType, Fails \/ Works, UNCHANGED changes PROVE NumberType'
<1>1. CASE Works
  BY <1>1 DEF Works, NumberType
<1>2. CASE Fails
  BY <1>2, ConstantAssumption DEF Fails, NumberType
<1>3. QED
  BY <1>1, <1>2

\* The pool touches nothing of the window but the queue of messages.
LEMMA PoolScreen ==
  ASSUME ScreenInv, PoolFrame, devchange' \in BOOLEAN PROVE ScreenInv'
<1>1. UNCHANGED <<connected, _refreshDebounce, hooked, SelectedDevice, StatusMessage, shown,
                  scanned, missed, ui, by, devices>>
  BY DEF PoolFrame, list, history, uiThread
<1>2. FlagType' /\ SelectType'
  BY <1>1 DEF ScreenInv, FlagType, SelectType
<1>3. ListType' /\ UiType' /\ ListInv'
  BY <1>1 DEF ScreenInv, ListType, UiType, ListInv
<1>4. QED
  BY <1>2, <1>3 DEF ScreenInv

\* Rebinding leaves a message in the queue or does not.
LEMMA RebindType ==
  ASSUME ScreenInv, NEW d, Rebind(d) PROVE bound' = d /\ devchange' \in BOOLEAN
BY DEF Rebind, ScreenInv, FlagType

\* PnputilThrows: the task ends with an error.
LEMMA ThrowStep ==
  ASSUME StoreInv, NEW t \in Tasks, PnputilThrows(t) PROVE StoreInv'
<1> USE StoreParts
<1>1. UNCHANGED <<store, bound, devchange, clean>> /\ PoolFrame /\ Fails
  BY DEF PnputilThrows
<1>2. /\ Moves(t, Shown(t, "error"))
      /\ Shown(t, "error").pc = "show" /\ Shown(t, "error").message = "error"
  BY ShowMoves DEF PnputilThrows, Results
<1>3. Holds(t, Shown(t, "error"), store)
  BY <1>2 DEF Holds, Undisturbed
<1>4. PoolType' /\ TaskInv'
  BY <1>1, <1>2, <1>3, TaskMoves
<1>5. PnpType'
  BY <1>1 DEF PnpType
<1>6. ScreenInv'
  BY <1>1, PoolScreen DEF ScreenInv, FlagType
<1>7. NumberType'
  BY <1>1, Counted DEF PoolFrame
<1>8. QED
  BY <1>4, <1>5, <1>6, <1>7

\* OwbDriverStore.Add: a package that is registered is in the store.
LEMMA AddStep ==
  ASSUME StoreInv, NEW t \in Tasks, Add(t) PROVE StoreInv'
<1> USE StoreParts
<1> DEFINE K(m) == [task[t] EXCEPT !.pc = "activate", !.message = m]
<1>1. task[t] \in TaskType
  BY DEF PoolType
<1>2. ASSUME NEW m \in {"registered", "register_failed"},
             task' = [task EXCEPT ![t].pc = "activate", ![t].message = m]
      PROVE  Moves(t, K(m)) /\ K(m).pc = "activate" /\ K(m).message = m
  <2>1. K(m) \in TaskType /\ K(m).pc = "activate" /\ K(m).message = m
    BY <1>1 DEF TaskType, Labels, Results
  <2>2. task' = [task EXCEPT ![t] = K(m)]
    BY <1>2 DEF PoolType
  <2>3. QED
    BY <2>1, <2>2 DEF Moves
<1> HIDE DEF K
<1>3. ASSUME NEW n \in Names, StoreBecomes(t, store \cup {n}),
             NEW d \in {bound, n}, Rebind(d), Works, PoolFrame,
             task' = [task EXCEPT ![t].pc = "activate", ![t].message = "registered"]
      PROVE  StoreInv'
  <2>1. /\ Moves(t, K("registered"))
        /\ K("registered").pc = "activate" /\ K("registered").message = "registered"
    BY <1>2, <1>3
  <2>2. Holds(t, K("registered"), store \cup {n})
    BY <2>1 DEF Holds, Undisturbed
  <2>3. PoolType' /\ TaskInv'
    BY <1>3, <2>1, <2>2, TaskMoves DEF StoreBecomes
  <2>4. PnpType'
    BY <1>3, RebindType DEF PnpType, StoreBecomes
  <2>5. ScreenInv'
    BY <1>3, RebindType, PoolScreen
  <2>6. NumberType'
    BY <1>3, Counted DEF PoolFrame
  <2>7. QED
    BY <2>3, <2>4, <2>5, <2>6
<1>4. ASSUME Fails, PoolFrame, UNCHANGED <<store, bound, devchange, clean>>,
             task' = [task EXCEPT ![t].pc = "activate", ![t].message = "register_failed"]
      PROVE  StoreInv'
  <2>1. /\ Moves(t, K("register_failed"))
        /\ K("register_failed").pc = "activate" /\ K("register_failed").message = "register_failed"
    BY <1>2, <1>4
  <2>2. Holds(t, K("register_failed"), store)
    BY <2>1 DEF Holds, Undisturbed
  <2>3. PoolType' /\ TaskInv'
    BY <1>4, <2>1, <2>2, TaskMoves
  <2>4. PnpType'
    BY <1>4 DEF PnpType
  <2>5. ScreenInv'
    BY <1>4, PoolScreen DEF ScreenInv, FlagType
  <2>6. NumberType'
    BY <1>4, Counted DEF PoolFrame
  <2>7. QED
    BY <2>3, <2>4, <2>5, <2>6
<1>5. QED
  BY <1>3, <1>4 DEF Add

\* PnpDriverActivator.ForceOnA2dpSinks: the verdict of Add is shown, and the
\* store has not changed since, unless another task changed it.
LEMMA ForceStep ==
  ASSUME StoreInv, NEW t \in Tasks, ForceOnA2dpSinks(t) PROVE StoreInv'
<1> USE StoreParts
<1>1. UNCHANGED <<store, clean>> /\ PoolFrame /\ Works /\ task[t].pc = "activate"
  BY DEF ForceOnA2dpSinks
<1>2. PICK d \in store \cup {bound} : Rebind(d)
  BY DEF ForceOnA2dpSinks
<1>3. task[t].message \in {"registered", "register_failed"}
      /\ (clean[t] = TRUE => Undisturbed(task[t], store))
  BY <1>1 DEF TaskInv
<1> DEFINE m == task[t].message
<1>4. /\ Moves(t, Shown(t, m)) /\ Shown(t, m).pc = "show" /\ Shown(t, m).message = m
  BY <1>3, ShowMoves DEF ForceOnA2dpSinks, Results
<1>5. Holds(t, Shown(t, m), store)
  BY <1>1, <1>3, <1>4 DEF Holds, Undisturbed
<1>6. PoolType' /\ TaskInv'
  BY <1>1, <1>4, <1>5, TaskMoves
<1>7. PnpType'
  BY <1>1, <1>2, RebindType DEF PnpType
<1>8. ScreenInv'
  BY <1>1, <1>2, RebindType, PoolScreen
<1>9. NumberType'
  BY <1>1, Counted DEF PoolFrame
<1>10. QED
  BY <1>6, <1>7, <1>8, <1>9

\* OwbDriverStore.FindPublishedNames: the names are those of the whole store, or
\* there are none.
LEMMA FindStep ==
  ASSUME StoreInv, NEW t \in Tasks, FindPublishedNames(t) PROVE StoreInv'
<1> USE StoreParts
<1>1. UNCHANGED <<store, bound, devchange, clean>> /\ PoolFrame
  BY DEF FindPublishedNames
<1>2. PICK names \in {store, {}} :
        /\ IF names = store THEN Works ELSE Fails
        /\ IF names = {} THEN Show(t, DescribeResetResult(FALSE, FALSE))
           ELSE task' = [task EXCEPT ![t].pc = "delete", ![t].names = names]
  BY DEF FindPublishedNames
<1>3. PoolType' /\ TaskInv'
  <2>1. CASE names = {}
    <3> DEFINE m == DescribeResetResult(FALSE, FALSE)
    <3>1. m = "nothing" /\ m \in Results
      BY DEF DescribeResetResult, Results
    <3>2. Moves(t, Shown(t, m)) /\ Shown(t, m).pc = "show" /\ Shown(t, m).message = m
      BY <1>2, <2>1, <3>1, ShowMoves
    <3>3. Holds(t, Shown(t, m), store)
      BY <3>1, <3>2 DEF Holds, Undisturbed
    <3>4. QED
      BY <1>1, <3>2, <3>3, TaskMoves
  <2>2. CASE names # {}
    <3> DEFINE k == [task[t] EXCEPT !.pc = "delete", !.names = store]
    <3>1. task[t] \in TaskType
      BY DEF PoolType
    <3>2. k \in TaskType /\ k.pc = "delete" /\ k.names = store
      BY <3>1 DEF TaskType, Labels, PnpType
    <3>3. task' = [task EXCEPT ![t] = k]
      BY <1>2, <2>2 DEF PoolType
    <3> HIDE DEF k
    <3>4. Moves(t, k)
      BY <3>2, <3>3 DEF Moves
    <3>5. Holds(t, k, store)
      BY <3>2 DEF Holds, Undisturbed
    <3>6. QED
      BY <1>1, <3>4, <3>5, TaskMoves
  <2>3. QED
    BY <2>1, <2>2
<1>4. PnpType'
  BY <1>1 DEF PnpType
<1>5. ScreenInv'
  BY <1>1, PoolScreen DEF ScreenInv, FlagType
<1>6. NumberType'
  BY <1>1, <1>2, Counted DEF PoolFrame
<1>7. QED
  BY <1>3, <1>4, <1>5, <1>6

\* One delete of a name of the task's list returned, and the store is s: the
\* task goes on with what is left, or tells.
LEMMA DeletedMoves ==
  ASSUME PoolType, TaskInv, NEW t \in Tasks, NEW n \in task[t].names, NEW s,
         NEW failed \in BOOLEAN, task[t].pc = "delete", Deleted(t, n, failed),
         failed = FALSE => s = store \ {n}
  PROVE  \E k : Moves(t, k) /\ Holds(t, k, s)
<1> DEFINE left == task[t].names \ {n}
           any == task[t].failed \/ failed
<1>1. task[t] \in TaskType
  BY DEF PoolType
<1>2. any \in BOOLEAN
  OBVIOUS
<1>3. any = FALSE => failed = FALSE /\ task[t].failed = FALSE
  BY <1>1 DEF TaskType
<1>4. any = FALSE /\ clean[t] = TRUE => s \subseteq left
  BY <1>3 DEF TaskInv, Undisturbed
<1>5. CASE left = {}
  <2> DEFINE m == DescribeResetResult(any, TRUE)
  <2>1. m \in Results /\ m # "registered" /\ (m = "restored" => any = FALSE)
    BY <1>2, ResetResult
  <2>2. Show(t, m)
    BY <1>5 DEF Deleted
  <2> HIDE DEF m
  <2>3. Moves(t, Shown(t, m)) /\ Shown(t, m).pc = "show" /\ Shown(t, m).message = m
    BY <2>1, <2>2, ShowMoves
  <2>4. m = "restored" /\ clean[t] = TRUE => s = {}
    BY <1>4, <1>5, <2>1
  <2>5. Holds(t, Shown(t, m), s)
    BY <2>1, <2>3, <2>4 DEF Holds, Undisturbed
  <2>6. QED
    BY <2>3, <2>5
<1>6. CASE left # {}
  <2> DEFINE k == [task[t] EXCEPT !.names = left, !.failed = any]
  <2>1. k \in TaskType /\ k.pc = "delete" /\ k.names = left /\ k.failed = any
    BY <1>1, <1>2 DEF TaskType
  <2>2. task' = [task EXCEPT ![t] = k]
    BY <1>6 DEF Deleted, PoolType
  <2> HIDE DEF k
  <2>3. Moves(t, k)
    BY <2>1, <2>2 DEF Moves
  <2>4. Holds(t, k, s)
    BY <1>4, <2>1 DEF Holds, Undisturbed
  <2>5. QED
    BY <2>3, <2>4
<1>7. QED
  BY <1>5, <1>6

\* OwbDriverStore.Remove: pnputil /delete-driver.
LEMMA DeleteStep ==
  ASSUME StoreInv, NEW t \in Tasks, Delete(t) PROVE StoreInv'
<1> USE StoreParts
<1>1. PICK n \in task[t].names :
       \/ /\ n \in store /\ Works
          /\ StoreBecomes(t, store \ {n})
          /\ \E d \in IF bound = n THEN (store \ {n}) \cup {WINDOWS} ELSE {bound} : Rebind(d)
          /\ Deleted(t, n, FALSE)
       \/ /\ IF n \in store THEN Fails ELSE Works
          /\ Deleted(t, n, TRUE)
          /\ UNCHANGED <<store, bound, devchange, clean>>
  BY DEF Delete
<1>2. task[t].pc = "delete" /\ PoolFrame
  BY DEF Delete
<1>3. NumberType'
  BY <1>1, <1>2, Counted DEF PoolFrame
<1>4. CASE /\ StoreBecomes(t, store \ {n})
           /\ \E d \in IF bound = n THEN (store \ {n}) \cup {WINDOWS} ELSE {bound} : Rebind(d)
           /\ Deleted(t, n, FALSE)
  <2>1. PICK d \in IF bound = n THEN (store \ {n}) \cup {WINDOWS} ELSE {bound} : Rebind(d)
    BY <1>4
  <2>2. PICK k : Moves(t, k) /\ Holds(t, k, store \ {n})
    BY <1>2, <1>4, DeletedMoves
  <2>3. PoolType' /\ TaskInv'
    BY <1>4, <2>2, TaskMoves DEF StoreBecomes
  <2>4. PnpType'
    BY <1>4, <2>1, RebindType DEF PnpType, StoreBecomes
  <2>5. ScreenInv'
    BY <1>2, <2>1, RebindType, PoolScreen
  <2>6. QED
    BY <1>3, <2>3, <2>4, <2>5
<1>5. CASE Deleted(t, n, TRUE) /\ UNCHANGED <<store, bound, devchange, clean>>
  <2>1. PICK k : Moves(t, k) /\ Holds(t, k, store)
    BY <1>2, <1>5, DeletedMoves
  <2>2. PoolType' /\ TaskInv'
    BY <1>5, <2>1, TaskMoves
  <2>3. PnpType'
    BY <1>5 DEF PnpType
  <2>4. ScreenInv'
    BY <1>2, <1>5, PoolScreen DEF ScreenInv, FlagType
  <2>5. QED
    BY <1>3, <2>2, <2>3, <2>4
<1>6. QED
  BY <1>1, <1>4, <1>5

-----------------------------------------------------------------------------
(* Steps of the UI thread and of the user.                                 *)

\* ShowAfterRefresh: the UI thread takes the task's turn.
LEMMA ShowStep ==
  ASSUME StoreInv, NEW t \in Tasks, ShowAfterRefresh(t) PROVE StoreInv'
<1> USE StoreParts
<1>0. /\ UNCHANGED <<store, bound, connected, devchange, _refreshDebounce, hooked,
                     SelectedDevice, StatusMessage, shown, scanned, missed, devices, clean,
                     changes, failures>>
      /\ ui' = "refresh" /\ by' = t /\ task[t].pc = "show"
      /\ task' = [task EXCEPT ![t].pc = "done"]
  BY DEF ShowAfterRefresh, pnp, window, list, history, bounds
<1> DEFINE k == [task[t] EXCEPT !.pc = "done"]
<1>1. task[t] \in TaskType
  BY DEF PoolType
<1>2. k \in TaskType /\ k.pc = "done" /\ k.message = task[t].message
  BY <1>1 DEF TaskType, Labels
<1>3. task' = [task EXCEPT ![t] = k]
  BY <1>0 DEF PoolType
<1> HIDE DEF k
<1>4. Moves(t, k)
  BY <1>2, <1>3 DEF Moves
<1>5. clean[t] = TRUE => Undisturbed(task[t], store)
  BY DEF TaskInv
<1>6. Holds(t, k, store)
  BY <1>0, <1>2, <1>5 DEF Holds, Undisturbed
<1>7. PoolType' /\ TaskInv'
  BY <1>0, <1>4, <1>6, TaskMoves
<1>8. FlagType' /\ SelectType' /\ ListInv'
  BY <1>0 DEF ScreenInv, FlagType, SelectType, ListInv
<1>9. ListType' /\ UiType'
  BY <1>0 DEF ScreenInv, ListType, UiType
<1>10. PnpType' /\ NumberType'
  BY <1>0 DEF PnpType, NumberType
<1>11. QED
  BY <1>7, <1>8, <1>9, <1>10 DEF ScreenInv

\* A command starts a task that has done nothing.
LEMMA RunStep ==
  ASSUME StoreInv, NEW pc \in {"add", "enum"}, NEW message \in Messages, Run(pc, message)
  PROVE  StoreInv'
<1> USE StoreParts
<1>0. /\ UNCHANGED <<store, bound, connected, devchange, _refreshDebounce, hooked,
                     SelectedDevice, shown, scanned, missed, ui, by, devices, changes,
                     failures>>
      /\ ui = "idle" /\ StatusMessage' = message
  BY DEF Run, pnp, window, history, uiThread, bounds
<1>1. PICK t \in Tasks : /\ task' = [task EXCEPT ![t].pc = pc]
                         /\ clean' = [clean EXCEPT ![t] = TRUE]
  BY DEF Run
<1> DEFINE k == [task[t] EXCEPT !.pc = pc]
<1>2. task[t] \in TaskType
  BY DEF PoolType
<1>3. k \in TaskType /\ k.pc = pc
  BY <1>2 DEF TaskType, Labels
<1>4. task' = [task EXCEPT ![t] = k]
  BY <1>1 DEF PoolType
<1> HIDE DEF k
<1>5. PoolType'
  BY <1>1, <1>3, <1>4 DEF PoolType
<1>6. TaskInv'
  <2> SUFFICES ASSUME NEW u \in Tasks
               PROVE  /\ task'[u].pc = "activate" =>
                           task'[u].message \in {"registered", "register_failed"}
                      /\ clean'[u] = TRUE => Undisturbed(task'[u], store)
    BY <1>0 DEF TaskInv, Undisturbed
  <2>1. CASE u = t
    BY <1>3, <1>4, <2>1 DEF PoolType, Undisturbed
  <2>2. CASE u # t
    <3>1. task'[u] = task[u] /\ clean'[u] = clean[u]
      BY <1>1, <1>4, <2>2 DEF PoolType
    <3>2. QED
      BY <3>1 DEF TaskInv
  <2>3. QED
    BY <2>1, <2>2
<1>7. FlagType' /\ SelectType' /\ ListInv'
  BY <1>0 DEF ScreenInv, FlagType, SelectType, ListInv
<1>8. ListType' /\ UiType'
  BY <1>0 DEF ScreenInv, ListType, UiType
<1>9. PnpType' /\ NumberType'
  BY <1>0 DEF PnpType, NumberType
<1>10. QED
  BY <1>5, <1>6, <1>7, <1>8, <1>9 DEF ScreenInv

\* Tasks that do not move keep what they rely on while the store stays.
LEMMA TasksRest ==
  ASSUME PoolType, TaskInv, UNCHANGED <<store, task, clean>> PROVE PoolType' /\ TaskInv'
BY DEF PoolType, TaskInv, Undisturbed

\* Devices come and go, and the window's messages, timer, list and commands.
LEMMA WindowStep ==
  ASSUME StoreInv,
         \/ Plug \/ Ui \/ Select \/ RefreshCommand \/ InstallDriver_Refused
  PROVE  StoreInv'
<1> USE StoreParts
<1>0. UNCHANGED <<store, task, clean>>
  BY DEF Plug, Ui, WndProc, Tick, Refresh, RefreshEnds, ShowMainWindow, Select,
         RefreshCommand, InstallDriver_Refused, pnp
<1>1. PoolType' /\ TaskInv'
  BY <1>0, TasksRest
<1>2. CASE Plug
  <2>1. UNCHANGED <<_refreshDebounce, hooked, SelectedDevice, StatusMessage, shown, scanned,
                    ui, by, devices, failures>>
    BY <1>2 DEF Plug, list, uiThread
  <2>2. FlagType' /\ SelectType'
    BY <1>2, <2>1 DEF Plug, ScreenInv, FlagType, SelectType
  <2>3. ListType' /\ UiType' /\ ListInv'
    BY <2>1 DEF ScreenInv, ListType, UiType, ListInv
  <2>4. PnpType'
    <3>1. bound' \in store \cup {WINDOWS}
      BY <1>2 DEF Plug, PnpType
    <3>2. QED
      BY <1>0, <3>1 DEF PnpType
  <2>5. NumberType'
    BY <1>2, <2>1, ConstantAssumption DEF Plug, NumberType
  <2>6. QED
    BY <1>1, <2>2, <2>3, <2>4, <2>5 DEF ScreenInv
<1>3. CASE WndProc \/ Tick \/ ShowMainWindow \/ Select \/ RefreshCommand
           \/ InstallDriver_Refused
  <2> USE DEF WndProc, Tick, ShowMainWindow, Select, RefreshCommand, InstallDriver_Refused,
              pnp, window, list, history, uiThread, bounds
  <2>1. UNCHANGED <<bound, connected, shown, scanned, missed, by, devices, failures>>
    BY <1>3
  <2>2. PnpType'
    BY <1>0, <2>1 DEF PnpType
  <2>3. FlagType'
    BY <1>3, <2>1 DEF ScreenInv, FlagType
  <2>4. SelectType' /\ ListInv'
    BY <1>3, <2>1 DEF ScreenInv, SelectType, ListInv
  <2>5. ListType' /\ UiType'
    BY <1>3, <2>1 DEF ScreenInv, ListType, UiType, Messages, Results
  <2>6. NumberType'
    <3>1. CASE RefreshCommand
      BY <2>1, <3>1, ConstantAssumption DEF NumberType
    <3>2. CASE WndProc \/ Tick \/ ShowMainWindow \/ Select \/ InstallDriver_Refused
      <4>1. changes' = changes
        BY <3>2
      <4>2. QED
        BY <2>1, <4>1 DEF NumberType
    <3>3. QED
      BY <1>3, <3>1, <3>2
  <2>7. QED
    BY <1>1, <2>2, <2>3, <2>4, <2>5, <2>6 DEF ScreenInv
<1>4. CASE Refresh
  <2>1. /\ UNCHANGED <<bound, connected, devchange, _refreshDebounce, hooked, StatusMessage,
                       by, changes>>
        /\ ui' = "drivers" /\ SelectedDevice' = FALSE /\ shown' = "absent"
        /\ devices' \in {bound, "none"} /\ scanned' \in BOOLEAN /\ missed' = FALSE
    BY <1>4 DEF Refresh, pnp, window
  <2>2. PnpType'
    BY <1>0, <2>1 DEF PnpType
  <2>3. FlagType' /\ SelectType' /\ ListInv'
    BY <2>1 DEF ScreenInv, FlagType, SelectType, ListInv
  <2>4. ListType' /\ UiType'
    BY <2>1 DEF ScreenInv, ListType, UiType, PnpType
  <2>5. NumberType'
    BY <1>4, <2>1, Counted DEF Refresh
  <2>6. QED
    BY <1>1, <2>2, <2>3, <2>4, <2>5 DEF ScreenInv
<1>5. CASE RefreshEnds
  <2>1. /\ UNCHANGED <<bound, connected, devchange, _refreshDebounce, hooked, SelectedDevice,
                       missed, changes>>
        /\ ui = "drivers" /\ ui' \in {"idle", "window"} /\ by' = "none" /\ devices' = "none"
        /\ scanned' \in BOOLEAN
    BY <1>5 DEF RefreshEnds, pnp, window
  <2>2. PnpType'
    BY <1>0, <2>1 DEF PnpType
  <2>3. FlagType' /\ SelectType' /\ ListInv'
    BY <2>1 DEF ScreenInv, FlagType, SelectType, ListInv
  <2>4. ListType'
    <3>1. shown' \in {"absent", "no_profile", "owb", "other"}
      BY <1>5 DEF RefreshEnds, Build
    <3>2. \A t \in Tasks : task[t].message \in Results
      BY DEF PoolType, TaskType
    <3>3. StatusMessage' \in Messages
      BY <1>5, <3>2 DEF RefreshEnds, Messages, ScreenInv, UiType
    <3>4. QED
      BY <3>1, <3>3 DEF ListType
  <2>5. UiType'
    BY <2>1 DEF UiType
  <2>6. NumberType'
    BY <1>5, <2>1, Counted DEF RefreshEnds
  <2>7. QED
    BY <1>1, <2>2, <2>3, <2>4, <2>5, <2>6 DEF ScreenInv
<1>6. QED
  BY <1>2, <1>3, <1>4, <1>5 DEF Ui

\* The inductive step.
LEMMA NextStoreInv == StoreInv /\ [Next]_vars => StoreInv'
<1> SUFFICES ASSUME StoreInv, [Next]_vars PROVE StoreInv'
  OBVIOUS
<1>1. CASE UNCHANGED vars
  BY <1>1 DEF vars, pnp, window, list, history, uiThread, bounds, StoreInv, TypeOK, ListInv, TaskInv,
              Undisturbed
<1>2. ASSUME NEW t \in Tasks, Pool(t) PROVE StoreInv'
  BY <1>2, AddStep, ForceStep, FindStep, DeleteStep, ThrowStep DEF Pool
<1>3. CASE User
  BY <1>3, RunStep, WindowStep DEF User, InstallDriver, ResetDriver, Messages
<1>4. QED
  BY <1>1, <1>2, <1>3, ShowStep, WindowStep DEF Next

\* The induction over the steps, once for the theorems that follow.
THEOREM StoreInvariance == Spec => []StoreInv
BY InitStoreInv, NextStoreInv, PTL DEF Spec

\* DevicesViewModel and OwbDriverStore keep their types; the device is always
\* bound to a package that is in the store or to the driver of Windows, and a
\* device that is not in the list is never selected.
THEOREM TypeCorrect == Spec => []TypeOK
<1>1. StoreInv => TypeOK
  BY DEF StoreInv
<1>2. QED
  BY <1>1, StoreInvariance, PTL

\* DescribeResetResult and IsDriverRegistered: "restored" means that no package
\* of owb_a2dp.inf is left, and "registered" that there is one, unless another
\* task changed the store in the meantime.
THEOREM ResultsAreTrue == Spec => []ResultsTrue
<1>1. StoreInv => ResultsTrue
  <2> SUFFICES ASSUME StoreInv, NEW t \in Tasks, task[t].pc \in {"show", "done"}, clean[t]
               PROVE  /\ task[t].message = "restored" => store = {}
                      /\ task[t].message = "registered" => store # {}
    BY DEF ResultsTrue
  <2>1. clean[t] = TRUE
    BY StoreParts DEF PoolType
  <2>2. QED
    BY <2>1, StoreParts DEF TaskInv, Undisturbed
<1>2. QED
  BY <1>1, StoreInvariance, PTL
=============================================================================

----------------------- MODULE ServiceLifecycleProofs -----------------------
(***************************************************************************)
(* The order in which run_service takes its components down.               *)
(***************************************************************************)
EXTENDS ServiceLifecycle, TLAPS

\* HfpGuard: start() succeeded exactly if the notifier is registered, and then
\* WASAPI and the guard hold one reference each.
GuardInv ==
  /\ active = registered
  /\ refs = IF active THEN 2 ELSE 0

\* On the way down without a failure: the guard is stopped before the capture,
\* and both before COM.
DownInv ==
  /\ body = "uncapture" => ~active
  /\ body \in {"uninit", "destroy", "done"} /\ rc = "EXIT_SUCCESS" =>
       ~active /\ capture = {}

LifeInv == TypeOK /\ GuardInv /\ DownInv

-----------------------------------------------------------------------------
\* The type invariant in the parts different provers handle.
FlagType ==
  /\ com \in {"none", "own", "foreign"}
  /\ g_running \in BOOLEAN /\ active \in BOOLEAN
  /\ registered \in BOOLEAN /\ a2dp \in BOOLEAN /\ g_file \in BOOLEAN

NumberType == controls \in 0..MaxControls /\ refs \in 0..2

ObjectType == capture \subseteq CaptureObjects /\ hfp \subseteq HfpObjects

LabelType ==
  /\ wmain \in {"init", "dispatch", "console", "shutdown", "exited"}
  /\ service_main \in {"none", "pending", "running", "body", "set", "returned"}
  /\ body \in {"none", "capture", "hfp", "a2dp", "pipeline", "ipc", "serve", "join",
               "stop", "pipe_join", "close", "guard", "uncapture", "failed",
               "uninit", "destroy", "done"}
  /\ rc \in {"EXIT_SUCCESS", "EXIT_FAILURE"}
  /\ status \in ServiceStates /\ scm \in ServiceStates
  /\ handler \in {"idle", "report", "set"}
  /\ pipeline \in ThreadStates /\ ipc \in ThreadStates

\* The parts together are the type invariant, in a state and in the next.
LEMMA TypeParts ==
  /\ TypeOK <=> FlagType /\ NumberType /\ ObjectType /\ LabelType
  /\ TypeOK' <=> FlagType' /\ NumberType' /\ ObjectType' /\ LabelType'
BY DEF TypeOK, FlagType, NumberType, ObjectType, LabelType

\* Nothing is built at first.
LEMMA InitLifeInv == Init => LifeInv
<1> SUFFICES ASSUME Init PROVE LifeInv
  OBVIOUS
<1>1. FlagType
  BY DEF Init, FlagType
<1>2. NumberType
  BY BoundAssumption DEF Init, NumberType
<1>3. ObjectType /\ LabelType
  BY DEF Init, ObjectType, LabelType, ServiceStates, ThreadStates
<1>4. GuardInv
  BY DEF Init, GuardInv
<1>5. DownInv
  BY DEF Init, DownInv
<1>6. QED
  BY <1>1, <1>2, <1>3, <1>4, <1>5, TypeParts DEF LifeInv

\* What a step leaves alone when it does not touch the guard.
LEMMA GuardKept == ASSUME GuardInv, UNCHANGED <<active, registered, refs>> PROVE GuardInv'
BY DEF GuardInv

\* run_service, one step per component it builds or takes down.
LEMMA BodyStep == ASSUME LifeInv, RunService PROVE LifeInv'
<1> USE TypeParts
<1>0. FlagType /\ NumberType /\ ObjectType /\ LabelType /\ GuardInv /\ DownInv
  BY DEF LifeInv
<1>a. UNCHANGED <<wmain, service_main, status, scm, handler, g_running, controls, g_file>>
  BY DEF RunService, capture_start, hfp_start, a2dp_open, pipeline_start, ipc_start, ipc_stop,
         ipc_join, pipeline_stop, pipeline_join, a2dp_close, hfp_stop, capture_stop,
         CoUninitialize, destructors, BodyFrame, scmVars
<1>1. CASE capture_start
  <2>1. FlagType' /\ NumberType'
    BY <1>0, <1>a, <1>1 DEF capture_start, FlagType, NumberType, hfpVars
  <2>2. ObjectType' /\ LabelType'
    BY <1>0, <1>a, <1>1 DEF capture_start, ObjectType, LabelType, hfpVars
  <2>3. GuardInv' /\ DownInv'
    BY <1>0, <1>a, <1>1, GuardKept DEF capture_start, DownInv, hfpVars
  <2>4. QED
    BY <2>1, <2>2, <2>3 DEF LifeInv
<1>2. CASE hfp_start
  <2>1. FlagType'
    BY <1>0, <1>a, <1>2 DEF hfp_start, FlagType
  <2>2. NumberType'
    BY <1>0, <1>a, <1>2 DEF hfp_start, NumberType
  <2>3. ObjectType' /\ LabelType'
    BY <1>0, <1>a, <1>2 DEF hfp_start, ObjectType, LabelType, HfpObjects
  <2>4. GuardInv'
    <3>1. CASE active' = TRUE /\ registered' = TRUE /\ refs' = 2
      BY <3>1 DEF GuardInv
    <3>2. CASE UNCHANGED <<active, registered, refs>>
      BY <1>0, <3>2, GuardKept
    <3>3. QED
      BY <1>2, <3>1, <3>2 DEF hfp_start
  <2>5. DownInv'
    BY <1>2 DEF hfp_start, DownInv
  <2>6. QED
    BY <2>1, <2>2, <2>3, <2>4, <2>5 DEF LifeInv
<1>3. CASE a2dp_open \/ a2dp_close
  <2>1. FlagType'
    BY <1>0, <1>a, <1>3 DEF a2dp_open, a2dp_close, FlagType, hfpVars
  <2>2. NumberType'
    BY <1>0, <1>a, <1>3 DEF a2dp_open, a2dp_close, NumberType, hfpVars
  <2>3. ObjectType' /\ LabelType'
    BY <1>0, <1>a, <1>3 DEF a2dp_open, a2dp_close, ObjectType, LabelType, hfpVars
  <2>4. GuardInv' /\ DownInv'
    BY <1>0, <1>3, GuardKept DEF a2dp_open, a2dp_close, DownInv, hfpVars
  <2>5. QED
    BY <2>1, <2>2, <2>3, <2>4 DEF LifeInv
<1>4. CASE pipeline_start \/ ipc_start \/ ipc_stop \/ ipc_join \/ pipeline_stop \/ pipeline_join
  <2> USE DEF pipeline_start, ipc_start, ipc_stop, ipc_join, pipeline_stop, pipeline_join
  <2>0. UNCHANGED <<com, capture, hfp, active, registered, refs, a2dp>>
    BY <1>4 DEF hfpVars
  <2>1. FlagType' /\ NumberType' /\ ObjectType'
    BY <1>0, <1>a, <2>0 DEF FlagType, NumberType, ObjectType
  <2>2. LabelType'
    BY <1>0, <1>a, <1>4 DEF LabelType, ThreadStates
  <2>3. GuardInv' /\ DownInv'
    BY <1>0, <1>4, <2>0, GuardKept DEF DownInv
  <2>4. QED
    BY <2>1, <2>2, <2>3 DEF LifeInv
<1>5. CASE hfp_stop
  <2>0. UNCHANGED <<rc, com, capture, pipeline, ipc, a2dp>> /\ body' = "uncapture"
    BY <1>5 DEF hfp_stop
  <2>1. LabelType'
    BY <1>0, <1>a, <2>0 DEF LabelType
  <2>2. CASE active
    <3>1. hfp' = {} /\ active' = FALSE /\ registered' = FALSE /\ refs' = refs - 2
      BY <1>5, <2>2 DEF hfp_stop, StopGuard
    <3>2. refs' = 0
      <4>1. refs = 2
        BY <1>0, <2>2 DEF GuardInv
      <4>2. QED
        BY <3>1, <4>1
    <3>3. FlagType'
      BY <1>0, <1>a, <2>0, <3>1 DEF FlagType
    <3>4. NumberType'
      BY <1>0, <1>a, <3>2 DEF NumberType
    <3>5. ObjectType'
      BY <1>0, <2>0, <3>1 DEF ObjectType
    <3>6. GuardInv' /\ DownInv'
      BY <2>0, <3>1, <3>2 DEF GuardInv, DownInv
    <3>7. QED
      BY <2>1, <3>3, <3>4, <3>5, <3>6 DEF LifeInv
  <2>3. CASE ~active
    <3>1. UNCHANGED <<hfp, active, registered, refs>>
      BY <1>5, <2>3 DEF hfp_stop, StopGuard, hfpVars
    <3>2. FlagType' /\ NumberType' /\ ObjectType'
      BY <1>0, <1>a, <2>0, <3>1 DEF FlagType, NumberType, ObjectType
    <3>3. GuardInv' /\ DownInv'
      BY <1>0, <2>0, <2>3, <3>1, GuardKept DEF DownInv
    <3>4. QED
      BY <2>1, <3>2, <3>3 DEF LifeInv
  <2>4. QED
    BY <2>2, <2>3
<1>6. CASE capture_stop \/ CoUninitialize
  <2>1. FlagType'
    BY <1>0, <1>a, <1>6 DEF capture_stop, CoUninitialize, FlagType, hfpVars
  <2>2. NumberType'
    BY <1>0, <1>a, <1>6 DEF capture_stop, CoUninitialize, NumberType, hfpVars
  <2>3. ObjectType' /\ LabelType'
    BY <1>0, <1>a, <1>6 DEF capture_stop, CoUninitialize, ObjectType, LabelType, hfpVars
  <2>4. GuardInv' /\ DownInv'
    BY <1>0, <1>6, GuardKept DEF capture_stop, CoUninitialize, DownInv, hfpVars
  <2>5. QED
    BY <2>1, <2>2, <2>3, <2>4 DEF LifeInv
<1>7. CASE destructors
  <2>0. /\ UNCHANGED <<rc, com, pipeline, ipc>> /\ body' = "done"
        /\ a2dp' = FALSE /\ capture' = {} /\ body = "destroy"
    BY <1>7 DEF destructors
  <2>1. LabelType'
    BY <1>0, <1>a, <2>0 DEF LabelType
  <2>2. CASE active
    <3>1. hfp' = {} /\ active' = FALSE /\ registered' = FALSE /\ refs' = refs - 2
      BY <1>7, <2>2 DEF destructors, StopGuard
    <3>2. refs' = 0
      <4>1. refs = 2
        BY <1>0, <2>2 DEF GuardInv
      <4>2. QED
        BY <3>1, <4>1
    <3>3. FlagType'
      BY <1>0, <1>a, <2>0, <3>1 DEF FlagType
    <3>4. NumberType'
      BY <1>0, <1>a, <3>2 DEF NumberType
    <3>5. ObjectType'
      BY <1>0, <2>0, <3>1 DEF ObjectType
    <3>6. GuardInv' /\ DownInv'
      BY <2>0, <3>1, <3>2 DEF GuardInv, DownInv
    <3>7. QED
      BY <2>1, <3>3, <3>4, <3>5, <3>6 DEF LifeInv
  <2>3. CASE ~active
    <3>1. hfp' = {} /\ UNCHANGED <<active, registered, refs>>
      BY <1>7, <2>3 DEF destructors
    <3>2. FlagType'
      BY <1>0, <1>a, <2>0, <3>1 DEF FlagType
    <3>3. NumberType' /\ ObjectType'
      BY <1>0, <1>a, <2>0, <3>1 DEF NumberType, ObjectType
    <3>4. GuardInv' /\ DownInv'
      BY <1>0, <2>0, <2>3, <3>1, GuardKept DEF DownInv
    <3>5. QED
      BY <2>1, <3>2, <3>3, <3>4 DEF LifeInv
  <2>4. QED
    BY <2>2, <2>3
<1>8. QED
  BY <1>1, <1>2, <1>3, <1>4, <1>5, <1>6, <1>7 DEF RunService

\* The other threads: none of them touches what run_service holds.
LEMMA OtherStep ==
  ASSUME LifeInv,
         \/ ThreadEnds \/ service_main_Register \/ ServiceMain \/ service_ctrl_handler
         \/ Handler \/ wmain_Starts \/ on_signal \/ wmain_Returns \/ wmain_Exits
  PROVE  LifeInv'
<1> USE TypeParts
<1>0. FlagType /\ NumberType /\ ObjectType /\ LabelType /\ GuardInv /\ DownInv
  BY DEF LifeInv
<1> DEFINE Held == <<capture, hfp, active, registered, refs, a2dp>>
<1>1. UNCHANGED Held
  BY DEF ThreadEnds, service_main_Register, ServiceMain, service_main_Running,
         service_main_Runs, service_main_Stopped, service_main_Set, service_ctrl_handler,
         Handler, handler_Writes, handler_Sets, wmain_Starts, on_signal, wmain_Returns,
         wmain_Exits, bodyVars, hfpVars
<1>2. ObjectType' /\ GuardInv'
  BY <1>0, <1>1, GuardKept DEF ObjectType
<1>3. CASE ThreadEnds \/ service_main_Register \/ service_main_Running \/ service_main_Stopped
           \/ service_main_Set \/ Handler \/ wmain_Returns
  <2> USE DEF ThreadEnds, service_main_Register, service_main_Running, service_main_Stopped,
         service_main_Set, Handler, handler_Writes, handler_Sets, wmain_Returns,
         BodyFrame, bodyVars, scmVars
  <2>1. UNCHANGED <<g_running, com, g_file, controls, rc, body>>
    BY <1>3
  <2>2. FlagType' /\ NumberType' /\ DownInv'
    BY <1>0, <1>1, <2>1 DEF FlagType, NumberType, DownInv
  <2>3. LabelType'
    BY <1>0, <1>3 DEF LabelType, ThreadStates, ServiceStates, SetServiceStatus
  <2>4. QED
    BY <1>2, <2>2, <2>3 DEF LifeInv
<1>4. CASE service_main_Runs
  <2>1. FlagType'
    BY <1>0, <1>1, <1>4 DEF service_main_Runs, run_service, FlagType
  <2>2. NumberType' /\ DownInv'
    BY <1>0, <1>1, <1>4 DEF service_main_Runs, run_service, NumberType, DownInv
  <2>3. LabelType'
    BY <1>0, <1>4 DEF service_main_Runs, run_service, LabelType
  <2>4. QED
    BY <1>2, <2>1, <2>2, <2>3 DEF LifeInv
<1>5. CASE service_ctrl_handler \/ on_signal
  <2> USE DEF service_ctrl_handler, on_signal, bodyVars, scmVars
  <2>1. FlagType'
    BY <1>0, <1>1, <1>5 DEF FlagType
  <2>2. NumberType'
    <3>1. controls < MaxControls /\ controls' = controls + 1 /\ refs' = refs
      BY <1>1, <1>5
    <3>2. QED
      BY <1>0, <3>1, BoundAssumption DEF NumberType
  <2>3. DownInv'
    BY <1>0, <1>1, <1>5 DEF DownInv
  <2>4. LabelType'
    BY <1>0, <1>5 DEF LabelType
  <2>5. QED
    BY <1>2, <2>1, <2>2, <2>3, <2>4 DEF LifeInv
<1>6. CASE wmain_Starts \/ wmain_Exits
  <2> USE DEF wmain_Starts, wmain_Exits, run_service, bodyVars, scmVars
  <2>1. FlagType'
    BY <1>0, <1>1, <1>6 DEF FlagType
  <2>2. NumberType' /\ DownInv'
    BY <1>0, <1>1, <1>6 DEF NumberType, DownInv
  <2>3. LabelType'
    BY <1>0, <1>6 DEF LabelType
  <2>4. QED
    BY <1>2, <2>1, <2>2, <2>3 DEF LifeInv
<1>7. QED
  BY <1>3, <1>4, <1>5, <1>6 DEF ServiceMain

\* The inductive step.
LEMMA NextLifeInv == LifeInv /\ [Next]_vars => LifeInv'
<1> SUFFICES ASSUME LifeInv, [Next]_vars PROVE LifeInv'
  OBVIOUS
<1>1. CASE UNCHANGED vars
  BY <1>1 DEF vars, scmVars, bodyVars, hfpVars, LifeInv, TypeOK, GuardInv, DownInv
<1>2. QED
  BY <1>1, BodyStep, OtherStep DEF Next

\* main.cpp: the process keeps its types, for any number of controls.
THEOREM TypeCorrect == Spec => []TypeOK
<1>1. LifeInv => TypeOK
  BY DEF LifeInv
<1>2. QED
  BY <1>1, InitLifeInv, NextLifeInv, PTL DEF Spec

\* run_service, HfpGuard::stop: on the path on which no start() failed half way
\* every COM object is released and the notifier unregistered before
\* CoUninitialize, and a notifier WASAPI knows has not deleted itself.
THEOREM ComOrdered == Spec => []ComOrder
<1>1. LifeInv => ComOrder
  BY DEF LifeInv, TypeOK, GuardInv, DownInv, ComOrder, GuardHalfStarted
<1>2. QED
  BY <1>1, InitLifeInv, NextLifeInv, PTL DEF Spec
=============================================================================

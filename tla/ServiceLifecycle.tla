-------------------------- MODULE ServiceLifecycle --------------------------
(***************************************************************************)
(* The life of the owb-service process: wmain, which hands its thread to   *)
(* the service control dispatcher or runs the console mode; service_main   *)
(* on a thread of the SCM; run_service, which builds the components,       *)
(* waits for g_running to fall and takes them down; and the control        *)
(* handler, which the dispatcher calls on wmain's thread meanwhile.        *)
(*                                                                         *)
(* service_main and the handler both write g_status and hand it to the SCM *)
(* without a lock, so the write and the call are steps of their own.       *)
(* What the pipeline and the IPC server do while they run is in            *)
(* StreamPipeline and IpcServer; here each is a thread that ends after it  *)
(* is told to.  The SCM and COM are external.                              *)
(***************************************************************************)
EXTENDS Naturals

CONSTANT MaxControls    \* bound: controls and signals sent to the process

ASSUME BoundAssumption == MaxControls \in Nat

VARIABLES
  wmain,        \* label of the process's first thread
  service_main, \* label of the thread the SCM starts
  body,         \* label of run_service, on one thread or the other
  rc,           \* what run_service returns
  g_running, status,   \* g_status.dwCurrentState
  scm,          \* the state the SCM holds for the service
  handler,      \* label of service_ctrl_handler
  controls,     \* controls and signals sent so far
  com,          \* the COM apartment of run_service's thread: "none", "own", "foreign"
  capture, hfp, \* COM objects AudioCapture and HfpGuard hold
  active,       \* HfpGuard::Impl::active
  registered, refs,    \* the SessionNotifier: known to WASAPI, its ref_count_
  pipeline, ipc,       \* their threads: "none", "runs", "told", "ended"
  a2dp,         \* the driver handle is open
  g_file        \* the log file is open

hfpVars == <<hfp, active, registered, refs>>
bodyVars == <<body, rc, com, capture, hfpVars, pipeline, ipc, a2dp>>
scmVars == <<service_main, status, scm, handler>>
vars == <<wmain, scmVars, bodyVars, g_running, controls, g_file>>

CaptureObjects == {"enumerator", "device", "client", "capture", "mix_format"}
HfpObjects == {"enumerator", "session_mgr"}
ThreadStates == {"none", "runs", "told", "ended"}
ServiceStates == {"NONE", "START_PENDING", "RUNNING", "STOP_PENDING", "STOPPED"}

TypeOK ==
  /\ wmain \in {"init", "dispatch", "console", "shutdown", "exited"}
  /\ service_main \in {"none", "pending", "running", "body", "set", "returned"}
  /\ body \in {"none", "capture", "hfp", "a2dp", "pipeline", "ipc", "serve", "join",
               "stop", "pipe_join", "close", "guard", "uncapture", "failed",
               "uninit", "destroy", "done"}
  /\ rc \in {"EXIT_SUCCESS", "EXIT_FAILURE"}
  /\ status \in ServiceStates /\ scm \in ServiceStates
  /\ handler \in {"idle", "report", "set"}
  /\ controls \in 0..MaxControls
  /\ com \in {"none", "own", "foreign"}
  /\ g_running \in BOOLEAN /\ active \in BOOLEAN
  /\ registered \in BOOLEAN /\ a2dp \in BOOLEAN /\ g_file \in BOOLEAN
  /\ capture \subseteq CaptureObjects /\ hfp \subseteq HfpObjects
  /\ refs \in 0..2
  /\ pipeline \in ThreadStates /\ ipc \in ThreadStates

Init ==
  /\ wmain = "init" /\ service_main = "none" /\ body = "none" /\ handler = "idle"
  /\ rc = "EXIT_SUCCESS" /\ g_running = TRUE
  /\ status = "NONE" /\ scm = "NONE" /\ controls = 0
  /\ com = "none" /\ capture = {} /\ hfp = {} /\ active = FALSE
  /\ registered = FALSE /\ refs = 0
  /\ pipeline = "none" /\ ipc = "none" /\ a2dp = FALSE /\ g_file = FALSE

-----------------------------------------------------------------------------
(* run_service                                                             *)

BodyFrame == UNCHANGED <<wmain, scmVars, g_running, controls, g_file>>

\* run_service is called: CoInitializeEx.  An apartment of the other kind that
\* somebody has made on the thread (RPC_E_CHANGED_MODE) is as good as its own.
run_service ==
  \/ com' \in {"own", "foreign"} /\ body' = "capture" /\ UNCHANGED rc
  \/ com' = "none" /\ body' = "done" /\ rc' = "EXIT_FAILURE"

\* AudioCapture::start: all of its objects, or after any failure none.
capture_start ==
  /\ body = "capture" /\ body' = "hfp"
  /\ capture' \in {CaptureObjects, {}}
  /\ UNCHANGED <<rc, com, hfpVars, pipeline, ipc, a2dp>> /\ BodyFrame

\* HfpGuard::start.  A failure keeps the objects acquired before it.
hfp_start ==
  /\ body = "hfp" /\ body' = "a2dp"
  /\ \/ hfp' = HfpObjects /\ active' = TRUE /\ registered' = TRUE /\ refs' = 2
     \/ hfp' \in {{}, {"enumerator"}, HfpObjects}
        /\ UNCHANGED <<active, registered, refs>>
  /\ UNCHANGED <<rc, com, capture, pipeline, ipc, a2dp>> /\ BodyFrame

a2dp_open ==
  /\ body = "a2dp" /\ body' = "pipeline"
  /\ a2dp' \in BOOLEAN
  /\ UNCHANGED <<rc, com, capture, hfpVars, pipeline, ipc>> /\ BodyFrame

\* StreamPipeline::start refuses only a null source, and this one is &capture:
\* the thread runs also without a capture.
pipeline_start ==
  /\ body = "pipeline" /\ body' = "ipc"
  /\ pipeline' = "runs"
  /\ UNCHANGED <<rc, com, capture, hfpVars, ipc, a2dp>> /\ BodyFrame

ipc_start ==
  /\ body = "ipc"
  /\ \/ body' = "serve" /\ ipc' = "runs" /\ UNCHANGED rc
     \/ body' = "failed" /\ rc' = "EXIT_FAILURE" /\ UNCHANGED ipc
  /\ UNCHANGED <<com, capture, hfpVars, pipeline, a2dp>> /\ BodyFrame

\* The loop over g_running ends: ipc.stop().
ipc_stop ==
  /\ body = "serve" /\ ~g_running
  /\ ipc' = "told" /\ body' = "join"
  /\ UNCHANGED <<rc, com, capture, hfpVars, pipeline, a2dp>> /\ BodyFrame

ipc_join ==
  /\ body = "join" /\ ipc = "ended" /\ body' = "stop"
  /\ UNCHANGED <<rc, com, capture, hfpVars, pipeline, ipc, a2dp>> /\ BodyFrame

\* StreamPipeline::stop on either path, and the join inside it.
pipeline_stop ==
  /\ body \in {"stop", "failed"}
  /\ pipeline' = "told" /\ body' = "pipe_join"
  /\ UNCHANGED <<rc, com, capture, hfpVars, ipc, a2dp>> /\ BodyFrame

pipeline_join ==
  /\ body = "pipe_join" /\ pipeline = "ended"
  /\ body' = IF rc = "EXIT_SUCCESS" THEN "close" ELSE "uninit"
  /\ UNCHANGED <<rc, com, capture, hfpVars, pipeline, ipc, a2dp>> /\ BodyFrame

\* Mutant: the guard is not stopped.
a2dp_close_SkipsGuard ==
  /\ body = "close" /\ body' = "uncapture"
  /\ a2dp' = FALSE
  /\ UNCHANGED <<rc, com, capture, hfpVars, pipeline, ipc>> /\ BodyFrame

a2dp_close ==
  /\ body = "close" /\ body' = "guard"
  /\ a2dp' = FALSE
  /\ UNCHANGED <<rc, com, capture, hfpVars, pipeline, ipc>> /\ BodyFrame

\* Mutant: stop() does not look at active.
StopGuard_Always ==
  hfp' = {} /\ active' = FALSE /\ registered' = FALSE /\ refs' = refs - 2

\* HfpGuard::stop: nothing unless start() succeeded.  Unregistering drops
\* WASAPI's reference to the notifier, Release() the guard's own.
StopGuard ==
  IF active
  THEN hfp' = {} /\ active' = FALSE /\ registered' = FALSE /\ refs' = refs - 2
  ELSE UNCHANGED hfpVars

hfp_stop ==
  /\ body = "guard" /\ body' = "uncapture"
  /\ StopGuard
  /\ UNCHANGED <<rc, com, capture, pipeline, ipc, a2dp>> /\ BodyFrame

capture_stop ==
  /\ body = "uncapture" /\ body' = "uninit"
  /\ capture' = {}
  /\ UNCHANGED <<rc, com, hfpVars, pipeline, ipc, a2dp>> /\ BodyFrame

\* Also of an apartment that is not its own.
CoUninitialize ==
  /\ body = "uninit" /\ body' = "destroy"
  /\ com' = "none"
  /\ UNCHANGED <<rc, capture, hfpVars, pipeline, ipc, a2dp>> /\ BodyFrame

\* The destructors, as run_service returns: each stops or closes what is still
\* open, and the ComPtrs of an Impl release what they still hold.
destructors ==
  /\ body = "destroy" /\ body' = "done"
  /\ a2dp' = FALSE /\ capture' = {}
  /\ IF active THEN StopGuard ELSE hfp' = {} /\ UNCHANGED <<active, registered, refs>>
  /\ UNCHANGED <<rc, com, pipeline, ipc>> /\ BodyFrame

\* A thread that was told to stop ends.
ThreadEnds ==
  /\ \/ pipeline = "told" /\ pipeline' = "ended" /\ UNCHANGED ipc
     \/ ipc = "told" /\ ipc' = "ended" /\ UNCHANGED pipeline
  /\ UNCHANGED <<body, rc, com, capture, hfpVars, a2dp>> /\ BodyFrame

RunService ==
  \/ capture_start \/ hfp_start \/ a2dp_open \/ pipeline_start \/ ipc_start
  \/ ipc_stop \/ ipc_join \/ pipeline_stop \/ pipeline_join \/ a2dp_close
  \/ hfp_stop \/ capture_stop \/ CoUninitialize \/ destructors

-----------------------------------------------------------------------------
(* service_main and the control handler                                    *)

\* SetServiceStatus (external): the SCM takes what g_status holds now, and
\* nothing more from a service that has stopped.
SetServiceStatus == scm' = IF scm = "STOPPED" THEN scm ELSE status

\* The SCM starts the service; registering the handler may fail, and then
\* nothing is ever reported.
service_main_Register ==
  /\ wmain = "dispatch" /\ service_main = "none"
  /\ \/ service_main' = "pending" /\ status' = "START_PENDING" /\ scm' = "START_PENDING"
     \/ service_main' = "returned" /\ UNCHANGED <<status, scm>>
  /\ UNCHANGED <<wmain, bodyVars, handler, g_running, controls, g_file>>

service_main_Running ==
  /\ service_main = "pending" /\ service_main' = "running"
  /\ status' = "RUNNING" /\ scm' = "RUNNING"
  /\ UNCHANGED <<wmain, bodyVars, handler, g_running, controls, g_file>>

service_main_Runs ==
  /\ service_main = "running" /\ service_main' = "body"
  /\ run_service
  /\ UNCHANGED <<wmain, status, scm, handler, g_running, controls, g_file>>
  /\ UNCHANGED <<capture, hfpVars, pipeline, ipc, a2dp>>

\* Mutant: a failed run_service is not reported.
service_main_Stopped_OnSuccess ==
  /\ service_main = "body" /\ body = "done" /\ rc = "EXIT_SUCCESS"
  /\ service_main' = "set" /\ status' = "STOPPED"
  /\ UNCHANGED <<wmain, bodyVars, scm, handler, g_running, controls, g_file>>

\* run_service has returned: report_status(SERVICE_STOPPED), its two halves.
service_main_Stopped ==
  /\ service_main = "body" /\ body = "done"
  /\ service_main' = "set" /\ status' = "STOPPED"
  /\ UNCHANGED <<wmain, bodyVars, scm, handler, g_running, controls, g_file>>

service_main_Set ==
  /\ service_main = "set" /\ service_main' = "returned"
  /\ SetServiceStatus
  /\ UNCHANGED <<wmain, bodyVars, status, handler, g_running, controls, g_file>>

\* STOP or SHUTDOWN, sent while the SCM's copy of dwControlsAccepted has it.
service_ctrl_handler ==
  /\ wmain = "dispatch" /\ handler = "idle"
  /\ scm \in {"RUNNING", "STOP_PENDING"}
  /\ controls < MaxControls /\ controls' = controls + 1
  /\ g_running' = FALSE /\ handler' = "report"
  /\ UNCHANGED <<wmain, service_main, status, scm, bodyVars, g_file>>

handler_Writes ==
  /\ handler = "report" /\ handler' = "set"
  /\ status' = "STOP_PENDING"
  /\ UNCHANGED <<wmain, service_main, scm, bodyVars, g_running, controls, g_file>>

handler_Sets ==
  /\ handler = "set" /\ handler' = "idle"
  /\ SetServiceStatus
  /\ UNCHANGED <<wmain, service_main, status, bodyVars, g_running, controls, g_file>>

-----------------------------------------------------------------------------
(* wmain                                                                   *)

\* log::init, then --console or the dispatcher, which without an SCM falls
\* back to the console mode and otherwise may fail.
wmain_Starts ==
  /\ wmain = "init"
  /\ g_file' \in BOOLEAN
  /\ \/ wmain' = "console" /\ run_service
     \/ wmain' \in {"dispatch", "shutdown"} /\ UNCHANGED <<body, rc, com>>
  /\ UNCHANGED <<scmVars, g_running, controls>>
  /\ UNCHANGED <<capture, hfpVars, pipeline, ipc, a2dp>>

\* run_console: Ctrl+C or SIGTERM.
on_signal ==
  /\ wmain = "console" /\ controls < MaxControls
  /\ controls' = controls + 1
  /\ g_running' = FALSE
  /\ UNCHANGED <<wmain, scmVars, bodyVars, g_file>>

\* The dispatcher returns once the SCM holds STOPPED and no control is being
\* handled on this thread; run_console returns when run_service does.
wmain_Returns ==
  /\ \/ wmain = "dispatch" /\ scm = "STOPPED" /\ handler = "idle"
     \/ wmain = "console" /\ body = "done"
  /\ wmain' = "shutdown"
  /\ UNCHANGED <<scmVars, bodyVars, g_running, controls, g_file>>

wmain_Exits ==
  /\ wmain = "shutdown" /\ wmain' = "exited"
  /\ g_file' = FALSE
  /\ UNCHANGED <<scmVars, bodyVars, g_running, controls>>

-----------------------------------------------------------------------------
Alive == wmain # "exited"

ServiceMain == service_main_Running \/ service_main_Runs
                 \/ service_main_Stopped \/ service_main_Set
Handler == handler_Writes \/ handler_Sets

Next ==
  \/ Alive /\ (RunService \/ ThreadEnds)
  \/ Alive /\ (service_main_Register \/ ServiceMain)
  \/ Alive /\ (service_ctrl_handler \/ Handler)
  \/ wmain_Starts \/ on_signal \/ wmain_Returns \/ wmain_Exits

Spec == Init /\ [][Next]_vars

\* Every thread is scheduled, and a thread told to stop ends (what
\* StreamPipeline and IpcServer show of theirs).
FairSpec ==
  /\ Spec
  /\ WF_vars(Alive /\ RunService) /\ WF_vars(Alive /\ ThreadEnds)
  /\ WF_vars(Alive /\ ServiceMain) /\ WF_vars(Alive /\ Handler)
  /\ WF_vars(wmain_Returns) /\ WF_vars(wmain_Exits)

-----------------------------------------------------------------------------
\* HfpGuard::start failed after it had acquired an object, which stop() keeps.
GuardHalfStarted == hfp # {} /\ ~active

\* COM objects are released, and the notifier is unregistered, before
\* CoUninitialize (audio_capture.cpp:4 asks the caller for COM), on the path on
\* which every start() succeeded or failed cleanly; and a notifier WASAPI knows
\* has not deleted itself.  Two paths are exempt because the code breaks this
\* there: ipc.start() failed (main.cpp:96) and HfpGuard::start() failed half
\* way (hfp_guard.cpp:83-104, 113).
ComOrder ==
  /\ registered => refs > 0
  /\ body \in {"destroy", "done"} /\ rc = "EXIT_SUCCESS" /\ ~GuardHalfStarted =>
       capture = {} /\ hfp = {} /\ ~registered

\* No control is being handled while service_main reports STOPPED.
HandlerInTime == service_main = "set" => handler = "idle"

\* A stop request, and a start that failed, end the process: everything is
\* taken down in an order in which nobody waits for a thread that waits for
\* him, and the SCM learns STOPPED so that the dispatcher returns.  The premise
\* is the race of main.cpp:128-140: a handler that writes g_status between
\* service_main's write of STOPPED and its SetServiceStatus makes the SCM hear
\* STOP_PENDING twice, and the dispatcher never returns.
StopEnds ==
  []HandlerInTime => ((~g_running \/ body = "done") ~> wmain = "exited")
=============================================================================

------------------------------ MODULE IpcClient ------------------------------
(***************************************************************************)
(* The GUI's end of the pipe: the task of IpcClientService that connects,  *)
(* polls and reconnects; the UI thread, which sends SetCodec requests on   *)
(* the same session, runs what the task hands to the dispatcher, and stops *)
(* the client when the window closes or the application exits.             *)
(*                                                                         *)
(* A call that can block (the lock _io, a read of the pipe, a delay,       *)
(* Dispatcher.Invoke, Task.Wait) is a label; what lies between two of them *)
(* is one step.  owb-service and the pipe are external: the service takes  *)
(* one client at a time, answers in its own time or never, and may close   *)
(* the session, die and be started again.                                  *)
(*                                                                         *)
(* The user sits before DevicesView, which MainWindow.xaml hosts, or before*)
(* CodecView and ControlsView: their view models are built on the same     *)
(* client, and no window hosts them.                                       *)
(***************************************************************************)
EXTENDS Integers, Sequences

CONSTANTS
  Codecs,        \* AvailableCodecs
  SBC,           \* the codec selected first, and the service's default
  MaxActions,    \* bound: what the user does (Apply, a toggle, a selection)
  MaxStarts,     \* bound: times the service is started
  MaxCloses      \* bound: sessions the service closes while it lives

ASSUME ConstantAssumption ==
  /\ SBC \in Codecs /\ {"AI", "none"} \cap Codecs = {}
  /\ {MaxActions, MaxStarts, MaxCloses} \subseteq Nat

VARIABLES
  task,       \* label of RunLoop's task
  _session,   \* _session is not null
  _io,        \* holder of the lock: "free", "task", "ui"
  cancelled,  \* _cts is cancelled, for good
  pipe,       \* the task's pipe object: "none", "new", "open", "disposed"
  ui,         \* label of the UI thread
  view,       \* "devices" or "codec", for good
  window,     \* "none", "open", "closed"; "exit" once the application exits
  selected, canApply,  \* CodecViewModel: the codec, the button as last drawn
  request,    \* the SetCodec the UI thread sends
  left, rejected,      \* locals of SendRequests
  applied,    \* the codec of "<codec> applied.", or "none"
  toServer, toClient,  \* what is in the pipe (external)
  service,    \* "down", "listening", "connected" (external)
  codec,      \* codec of the service (external)
  actions, starts, closes

taskVars    == <<task, _session, cancelled, pipe>>
viewVars    == <<view, window, selected, canApply>>
sendVars    == <<request, left, rejected, applied>>
serviceVars == <<service, codec, starts, closes>>
vars == <<taskVars, _io, ui, viewVars, sendVars, toServer, toClient,
          serviceVars, actions>>

\* codec and key of a SetCodec; a GetStatus carries neither.
Requests ==
  [type : {"SetCodec"}, codec : Codecs \cup {"AI"}, key : {"switch", "param"}]
GetStatus == [type |-> "GetStatus", codec |-> "none", key |-> "param"]
Switch(c) == [type |-> "SetCodec", codec |-> c, key |-> "switch"]
Param(c)  == [type |-> "SetCodec", codec |-> c, key |-> "param"]

Replies == [type : {"StatusReply", "CodecAck"}, ok : BOOLEAN]

TypeOK ==
  /\ task \in {"none", "retest", "connect", "attach", "poll", "lock", "read",
               "status", "delay", "detach", "dispose", "retry", "ended"}
  /\ _session \in BOOLEAN /\ _io \in {"free", "task", "ui"}
  /\ cancelled \in BOOLEAN
  /\ pipe \in {"none", "new", "open", "disposed"}
  /\ ui \in {"starting", "idle", "enter", "read", "stop", "gone"}
  /\ view \in {"devices", "codec"}
  /\ window \in {"none", "open", "closed", "exit"}
  /\ selected \in Codecs /\ canApply \in BOOLEAN
  /\ request \in Requests
  /\ left \in 0..4 /\ rejected \in BOOLEAN
  /\ applied \in Codecs \cup {"none"}
  /\ toServer \in Seq(Requests \cup {GetStatus}) /\ toClient \in Seq(Replies)
  /\ service \in {"down", "listening", "connected"} /\ codec \in Codecs
  /\ actions \in 0..MaxActions /\ starts \in 0..MaxStarts
  /\ closes \in 0..MaxCloses

Init ==
  /\ task = "none" /\ _session = FALSE /\ cancelled = FALSE /\ pipe = "none"
  /\ _io = "free" /\ ui = "starting"
  /\ view \in {"devices", "codec"}
  /\ window = "none" /\ selected = SBC /\ canApply = FALSE
  /\ request = Switch(SBC) /\ left = 0 /\ rejected = FALSE /\ applied = "none"
  /\ toServer = << >> /\ toClient = << >>
  /\ service = "down" /\ codec = SBC
  /\ actions = 0 /\ starts = 0 /\ closes = 0

\* Both ends of the session are there.
Up == pipe = "open" /\ service = "connected"

-----------------------------------------------------------------------------
(***************************************************************************)
(* RunLoop, RunSession, PollUntilClosed.                                   *)
(***************************************************************************)
TaskFrame ==
  /\ ui # "gone"
  /\ UNCHANGED <<ui, viewVars, sendVars, codec, starts, closes, actions>>

RunLoop ==
  /\ task = "retest"
  /\ IF cancelled THEN task' = "ended" /\ UNCHANGED pipe
                  ELSE task' = "connect" /\ pipe' = "new"
  /\ UNCHANGED <<_session, _io, cancelled, toServer, toClient, service>>
  /\ TaskFrame

\* It connects, is cancelled (RunLoop breaks), or times out.
ConnectAsync ==
  /\ task = "connect"
  /\ \/ /\ service = "listening"
        /\ service' = "connected" /\ pipe' = "open" /\ task' = "attach"
     \/ cancelled /\ pipe' = "disposed" /\ task' = "ended" /\ UNCHANGED service
     \/ /\ service # "listening"
        /\ pipe' = "disposed" /\ task' = "retry" /\ UNCHANGED service
  /\ UNCHANGED <<_session, _io, cancelled, toServer, toClient>>
  /\ TaskFrame

Attach ==
  /\ task = "attach" /\ _io = "free"
  /\ _session' = TRUE
  /\ task' = "poll"
  /\ UNCHANGED <<_io, cancelled, pipe, toServer, toClient, service>>
  /\ TaskFrame

\* The test of the loop.  A cancellation that comes after it is only seen after
\* one more exchange.
PollUntilClosed ==
  /\ task = "poll"
  /\ task' = IF cancelled THEN "detach" ELSE "lock"
  /\ UNCHANGED <<_session, _io, cancelled, pipe, toServer, toClient, service>>
  /\ TaskFrame

\* Mutant: GetStatus is written without the lock.
RequestStatus_NoLock ==
  /\ task = "lock"
  /\ IF ~Up THEN task' = "detach" /\ UNCHANGED toServer
            ELSE task' = "read" /\ toServer' = Append(toServer, GetStatus)
  /\ UNCHANGED <<_io, _session, cancelled, pipe, toClient, service>>
  /\ TaskFrame

\* Lock and write GetStatus.
RequestStatus ==
  /\ task = "lock" /\ _io = "free"
  /\ IF Up THEN /\ task' = "read" /\ _io' = "task"
                /\ toServer' = Append(toServer, GetStatus)
           ELSE task' = "detach" /\ UNCHANGED <<_io, toServer>>
  /\ UNCHANGED <<_session, cancelled, pipe, toClient, service>>
  /\ TaskFrame

\* The reply is read, or the session is gone.
ExchangeGetStatus ==
  /\ task = "read"
  /\ \/ /\ Up /\ toClient # << >>
        /\ toClient' = Tail(toClient)
        /\ task' = IF Head(toClient).type = "StatusReply" THEN "status" ELSE "detach"
     \/ ~Up /\ task' = "detach" /\ UNCHANGED toClient
  /\ _io' = "free"
  /\ UNCHANGED <<_session, cancelled, pipe, toServer, service>>
  /\ TaskFrame

\* Task.Delay of the poll; cancelled, it throws through RunSession's finally.
PollDelay ==
  /\ task = "delay"
  /\ \/ ~cancelled /\ task' = "poll"
     \/ cancelled /\ task' = "detach"
  /\ UNCHANGED <<_session, _io, cancelled, pipe, toServer, toClient, service>>
  /\ TaskFrame

\* Mutant: takes no lock.
Detach_NoLock ==
  /\ task = "detach"
  /\ _session' = FALSE
  /\ task' = "dispose"
  /\ UNCHANGED <<_io, cancelled, pipe, toServer, toClient, service>>
  /\ TaskFrame

Detach ==
  /\ task = "detach" /\ _io = "free"
  /\ _session' = FALSE
  /\ task' = "dispose"
  /\ UNCHANGED <<_io, cancelled, pipe, toServer, toClient, service>>
  /\ TaskFrame

\* The end of "using var pipe".
Dispose ==
  /\ task = "dispose"
  /\ pipe' = "disposed" /\ task' = "retry"
  /\ UNCHANGED <<_session, _io, cancelled, toServer, toClient, service>>
  /\ TaskFrame

\* Mutant: the retry delay is the end of the loop.
RetryDelay_Ends ==
  /\ task = "retry"
  /\ task' = "ended"
  /\ UNCHANGED <<_session, _io, cancelled, pipe, toServer, toClient, service>>
  /\ TaskFrame

RetryDelay ==
  /\ task = "retry"
  /\ task' = IF cancelled THEN "ended" ELSE "retest"
  /\ UNCHANGED <<_session, _io, cancelled, pipe, toServer, toClient, service>>
  /\ TaskFrame

Task ==
  \/ RunLoop \/ ConnectAsync \/ Attach \/ PollUntilClosed \/ RequestStatus
  \/ ExchangeGetStatus \/ PollDelay \/ Detach \/ Dispose \/ RetryDelay

-----------------------------------------------------------------------------
(***************************************************************************)
(* The UI thread.                                                          *)
(***************************************************************************)
UiFrame == UNCHANGED <<_session, pipe, serviceVars>>

\* ShowMainWindow, then Start(): the new window's button asks IsConnected.
OnStartup ==
  /\ ui = "starting"
  /\ ui' = "idle" /\ window' = "open" /\ task' = "retest"
  /\ UNCHANGED <<_io, cancelled, view, selected, canApply, sendVars, toServer,
                 toClient, actions>>
  /\ UiFrame

\* From the tray: a new window on the same client, which nobody starts again.
ShowMainWindow ==
  /\ ui = "idle" /\ window = "closed" /\ actions < MaxActions
  /\ window' = "open" /\ selected' = SBC /\ canApply' = _session
  /\ applied' = "none" /\ actions' = actions + 1
  /\ UNCHANGED <<ui, view, task, _io, cancelled, request, left, rejected,
                 toServer, toClient>>
  /\ UiFrame

\* The button is only drawn again when a selection changes.
OnSelectedCodecIndexChanged ==
  /\ ui = "idle" /\ window = "open" /\ view = "codec" /\ actions < MaxActions
  /\ \E c \in Codecs \ {selected} : selected' = c
  /\ canApply' = _session
  /\ actions' = actions + 1
  /\ UNCHANGED <<ui, view, task, _io, cancelled, window, sendVars, toServer,
                 toClient>>
  /\ UiFrame

\* The requests of BuildRequests after "switch".
Params(c) == IF c = SBC THEN 3 ELSE 1

ApplyCodec ==
  /\ ui = "idle" /\ window = "open" /\ view = "codec" /\ canApply
  /\ actions < MaxActions
  /\ request' = Switch(selected)
  /\ left' = Params(selected) /\ rejected' = FALSE
  /\ ui' = "enter" /\ actions' = actions + 1
  /\ UNCHANGED <<task, _io, cancelled, viewVars, applied, toServer, toClient>>
  /\ UiFrame

\* A switch of the AI panel; nobody looks at the result.
ControlsChanged ==
  /\ ui = "idle" /\ window = "open" /\ view = "codec" /\ actions < MaxActions
  /\ request' = Param("AI") /\ left' = 0 /\ rejected' = FALSE
  /\ ui' = "enter" /\ actions' = actions + 1
  /\ UNCHANGED <<task, _io, cancelled, viewVars, applied, toServer, toClient>>
  /\ UiFrame

\* DevicesViewModel.ApplyCodec, for headphones that use the driver: one request,
\* for the codec picked, or the message that the service is not active.
DevicesApplyCodec ==
  /\ ui = "idle" /\ window = "open" /\ view = "devices" /\ actions < MaxActions
  /\ actions' = actions + 1
  /\ IF _session
     THEN /\ \E c \in Codecs : request' = Switch(c)
          /\ left' = 0 /\ rejected' = FALSE /\ ui' = "enter"
          /\ UNCHANGED applied
     ELSE applied' = "none" /\ UNCHANGED <<ui, request, left, rejected>>
  /\ UNCHANGED <<task, _io, cancelled, viewVars, toServer, toClient>>
  /\ UiFrame

\* Mutant: sends one request too many.
SendSetCodecReturns_OneMore(ok) ==
  /\ rejected' = (rejected \/ ~ok)
  /\ IF left >= 0
     THEN /\ request' = Param(request.codec) /\ left' = left - 1 /\ ui' = "enter"
     ELSE ui' = "idle" /\ UNCHANGED <<request, left>>
  /\ UNCHANGED applied

\* SendSetCodec returns ok: the next request of BuildRequests, or the end.
SendSetCodecReturns(ok) ==
  LET no == rejected \/ ~ok IN
  /\ rejected' = no
  /\ IF left > 0
     THEN /\ request' = Param(request.codec) /\ left' = left - 1 /\ ui' = "enter"
          /\ UNCHANGED applied
     ELSE /\ ui' = "idle"
          /\ applied' = IF request.codec = "AI" THEN applied
                        ELSE IF no THEN "none" ELSE request.codec
          /\ UNCHANGED <<request, left>>

\* TryEnter times out; or there is no session, or the write fails; or the
\* request is written.
SendSetCodec ==
  /\ ui = "enter"
  /\ \/ /\ _io = "free" /\ _session /\ Up
        /\ toServer' = Append(toServer, request) /\ _io' = "ui" /\ ui' = "read"
        /\ UNCHANGED sendVars
     \/ /\ _io = "free" => ~(_session /\ Up)
        /\ SendSetCodecReturns(FALSE) /\ UNCHANGED <<toServer, _io>>
  /\ UNCHANGED <<task, cancelled, viewVars, toClient, actions>>
  /\ UiFrame

\* Mutant: an exception counts as sent.
ExchangeSetCodec_Throws ==
  /\ ui = "read"
  /\ \/ /\ Up /\ toClient # << >>
        /\ toClient' = Tail(toClient)
        /\ SendSetCodecReturns(Head(toClient).ok)
     \/ ~Up /\ SendSetCodecReturns(TRUE) /\ UNCHANGED toClient
  /\ _io' = "free"
  /\ UNCHANGED <<task, cancelled, viewVars, toServer, actions>>
  /\ UiFrame

\* The acknowledgement is read, or the session is gone.
ExchangeSetCodec ==
  /\ ui = "read"
  /\ \/ /\ Up /\ toClient # << >>
        /\ toClient' = Tail(toClient)
        /\ SendSetCodecReturns(Head(toClient).type = "CodecAck" /\ Head(toClient).ok)
     \/ ~Up /\ SendSetCodecReturns(FALSE) /\ UNCHANGED toClient
  /\ _io' = "free"
  /\ UNCHANGED <<task, cancelled, viewVars, toServer, actions>>
  /\ UiFrame

\* OnStatusReceived: the dispatcher runs what the task waits for.
OnStatusReceived ==
  /\ ui = "idle" /\ task = "status"
  /\ task' = "delay"
  /\ UNCHANGED <<ui, _io, cancelled, viewVars, sendVars, toServer, toClient, actions>>
  /\ UiFrame

\* Stop(), from Window_Closing or OnExit; an exit that closes the window first
\* runs it twice in a row.
Stop ==
  /\ ui = "idle"
  /\ \/ window = "open" /\ window' = "closed"
     \/ window # "exit" /\ window' = "exit"
  /\ cancelled' = TRUE
  /\ ui' = "stop"
  /\ UNCHANGED <<task, _io, view, selected, canApply, sendVars, toServer,
                 toClient, actions>>
  /\ UiFrame

\* Mutant: waits for the task without a timeout.
StopReturns_NoTimeout ==
  /\ ui = "stop" /\ task = "ended"
  /\ IF window = "exit"
     THEN ui' = "gone" /\ pipe' = "disposed" /\ _session' = FALSE
     ELSE ui' = "idle" /\ UNCHANGED <<pipe, _session>>
  /\ UNCHANGED <<task, _io, cancelled, viewVars, sendVars, toServer, toClient,
                 serviceVars, actions>>

\* The task has ended, or 2 s are over.  At exit the process goes, and the
\* task and its pipe with it.
StopReturns ==
  /\ ui = "stop"
  /\ IF window = "exit"
     THEN ui' = "gone" /\ pipe' = "disposed" /\ _session' = FALSE
     ELSE ui' = "idle" /\ UNCHANGED <<pipe, _session>>
  /\ UNCHANGED <<task, _io, cancelled, viewVars, sendVars, toServer, toClient,
                 serviceVars, actions>>

Ui == OnStartup \/ SendSetCodec \/ ExchangeSetCodec \/ OnStatusReceived \/ StopReturns

User ==
  \/ ShowMainWindow \/ OnSelectedCodecIndexChanged \/ ApplyCodec
  \/ ControlsChanged \/ DevicesApplyCodec \/ Stop

-----------------------------------------------------------------------------
(***************************************************************************)
(* owb-service (external).                                                 *)
(***************************************************************************)
ServiceFrame == UNCHANGED <<taskVars, _io, ui, viewVars, sendVars, actions>>

ServiceStarts ==
  /\ service = "down" /\ starts < MaxStarts
  /\ service' = "listening" /\ codec' = SBC /\ starts' = starts + 1
  /\ UNCHANGED <<toServer, toClient, closes>>
  /\ ServiceFrame

\* A refused switch may have changed the encoder all the same.
ServiceAnswers ==
  /\ service = "connected" /\ toServer # << >>
  /\ LET r == Head(toServer) IN
       /\ toServer' = Tail(toServer)
       /\ \E ok \in IF r = GetStatus THEN {TRUE} ELSE BOOLEAN :
            toClient' = Append(toClient,
              [type |-> IF r = GetStatus THEN "StatusReply" ELSE "CodecAck", ok |-> ok])
       /\ codec' = IF r.key = "switch" THEN r.codec ELSE codec
  /\ UNCHANGED <<service, starts, closes>>
  /\ ServiceFrame

ServiceDisconnects ==
  /\ service = "connected"
  /\ service' = "listening" /\ toServer' = << >> /\ toClient' = << >>
  /\ UNCHANGED <<codec, starts>>
  /\ ServiceFrame

ServiceSeesClientGone == pipe # "open" /\ ServiceDisconnects /\ UNCHANGED closes

ServiceCloses ==
  closes < MaxCloses /\ closes' = closes + 1 /\ ServiceDisconnects

ServiceDies ==
  /\ service # "down" /\ starts < MaxStarts
  /\ service' = "down" /\ toServer' = << >> /\ toClient' = << >>
  /\ UNCHANGED <<codec, starts, closes>>
  /\ ServiceFrame

Service ==
  \/ ServiceStarts \/ ServiceAnswers \/ ServiceSeesClientGone \/ ServiceCloses
  \/ ServiceDies

-----------------------------------------------------------------------------
Next == Task \/ Ui \/ User \/ Service

Spec == Init /\ [][Next]_vars

(***************************************************************************)
(* Fairness: the task and the UI thread run when they can, and the lock    *)
(* that is released again and again is granted.  The service owes nothing: *)
(* it may stop answering for good.                                         *)
(***************************************************************************)
Fairness ==
  /\ WF_vars(Task) /\ WF_vars(Ui)
  /\ SF_vars(RequestStatus) /\ SF_vars(Detach) /\ SF_vars(Attach)
  /\ SF_vars(OnStatusReceived)

FairSpec == Spec /\ Fairness

-----------------------------------------------------------------------------
\* Attach, Detach, "using var pipe": _session never refers to a pipe that is
\* disposed, and nobody is inside an exchange on one, although the UI thread
\* uses the task's pipe.
SessionNotDisposed ==
  ui # "gone" /\ (_session \/ task = "read" \/ ui = "read") => pipe = "open"

\* ApplyCodec of either view: that a codec is applied is shown only if the
\* service is at that codec, whatever was lost, refused or timed out on the way, unless the
\* service has been started anew since.
AppliedIsCurrent ==
  ui \in {"idle", "stop"} /\ applied # "none" /\ starts = 1 => codec = applied

\* _io, SendSetCodec, RequestStatus: with any service the client is the other
\* end of RequestReply: the poll and the UI thread never have two requests
\* under way, and each reads the reply to its own.
ReplyTo(type) == IF type = "GetStatus" THEN "StatusReply" ELSE "CodecAck"

Asked ==
  CASE Up /\ task = "read" -> "GetStatus"
    [] Up /\ ui = "read"   -> "SetCodec"
    [] OTHER               -> "none"

Session == INSTANCE RequestReply WITH
  Requests <- {"GetStatus", "SetCodec"}, None <- "none", up <- Up,
  request <- Asked,
  reply <- IF Up /\ toClient # << >> THEN Head(toClient).type ELSE "none"

ImplementsRequestReply == Session!Spec

\* SendLockTimeout, Stop: the UI thread comes back from waiting for the
\* session's lock and from Stop, even if the service never answers again and
\* the task waits for the UI thread itself.
UiNotBlocked == ui \in {"enter", "stop"} ~> ui \notin {"enter", "stop"}

\* RunLoop: while the client is not stopped and a service keeps running that
\* answers what it is asked, the session comes back, however often it is lost.
ServiceAnswersAll == WF_vars(ServiceAnswers) /\ WF_vars(ServiceSeesClientGone)

Reconnects ==
  (ServiceAnswersAll /\ <>[](service # "down")) => []<>(_session \/ cancelled)
=============================================================================

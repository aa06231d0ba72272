--------------------------- MODULE IpcClientProofs ---------------------------
(***************************************************************************)
(* The two threads of the GUI on one session, with any service.            *)
(***************************************************************************)
EXTENDS IpcClient, TLAPS

\* The labels of the task while the session is attached.
Attached == {"poll", "lock", "read", "status", "delay", "detach"}

\* The lock is held exactly during an exchange, by the thread that is in it.
LockInv ==
  /\ _io = "task" <=> task = "read"
  /\ _io = "ui" <=> ui = "read"

\* The task's pipe object, and the session that refers to it.
PipeInv ==
  /\ ui = "starting" <=> task = "none"
  /\ ui = "gone" => pipe = "disposed" /\ ~_session
  /\ ui # "gone" =>
       /\ _session <=> task \in Attached
       /\ task \in Attached \cup {"attach", "dispose"} => pipe = "open"
       /\ task = "connect" => pipe = "new"
       /\ task \in {"none", "retest", "retry", "ended"} => pipe # "open"
  /\ ui = "read" => _session

\* The request the holder of the lock has sent.
Current == IF _io = "task" THEN GetStatus ELSE request

\* The pipe is empty, or it holds the request of the lock's holder, or the
\* reply to it.
TrafficInv ==
  /\ service # "connected" \/ _io = "free" => toServer = << >> /\ toClient = << >>
  /\ service = "connected" /\ _io # "free" =>
       \/ Len(toServer) = 1 /\ toServer[1] = Current /\ toClient = << >>
       \/ /\ toServer = << >> /\ Len(toClient) = 1
          /\ toClient[1].type = ReplyTo(Current.type)

\* A request of the AI panel comes alone, and before the service has been
\* started once nothing succeeds.
RequestInv ==
  /\ request.codec = "AI" => request.key = "param" /\ left = 0
  /\ starts = 0 =>
       /\ service = "down" /\ applied = "none" /\ ui # "read"
       /\ ui = "enter" /\ request.codec # "AI" /\ request.key = "param" => rejected

\* What the view shows, or is about to show, is the codec of the service.
CodecInv ==
  starts = 1 =>
    /\ (ui \notin {"enter", "read"} \/ request.codec = "AI") /\ applied # "none" =>
         codec = applied
    /\ ui \in {"enter", "read"} /\ request.codec # "AI" /\ request.key = "param"
         /\ ~rejected => codec = request.codec
    /\ ui = "read" /\ request.key = "switch" /\ toClient # << >> =>
         codec = request.codec

ClientInv == TypeOK /\ LockInv /\ PipeInv /\ TrafficInv /\ RequestInv /\ CodecInv

\* The sequence without elements.
LEMMA NoElement == ASSUME NEW S, NEW q \in Seq(S) PROVE q = << >> <=> Len(q) = 0
OBVIOUS

\* A sequence of one element: how it comes about and how it goes.
LEMMA OneElement ==
  ASSUME NEW S, NEW q \in Seq(S)
  PROVE  /\ q = << >> <=> Len(q) = 0
         /\ \A e \in S : q = << >> => /\ Append(q, e) \in Seq(S) /\ Len(Append(q, e)) = 1
                                      /\ Append(q, e)[1] = e
         /\ Len(q) = 1 => Head(q) = q[1] /\ q[1] \in S /\ Tail(q) = << >>
<1>1. q = << >> <=> Len(q) = 0
  BY NoElement
<1>2. ASSUME NEW e \in S, q = << >>
      PROVE  Append(q, e) \in Seq(S) /\ Len(Append(q, e)) = 1 /\ Append(q, e)[1] = e
  BY <1>2
<1>3. ASSUME Len(q) = 1 PROVE Head(q) = q[1] /\ q[1] \in S /\ Tail(q) = << >>
  <2>1. Tail(q) \in Seq(S) /\ Len(Tail(q)) = 0
    BY <1>3
  <2>2. Tail(q) = << >>
    BY <2>1, NoElement
  <2>3. Head(q) = q[1] /\ q[1] \in S
    BY <1>3
  <2>4. QED
    BY <2>2, <2>3
<1>4. QED
  BY <1>1, <1>2, <1>3

\* SendSetCodec returns: what the UI thread sends next.
LEMMA Returned ==
  ASSUME TypeOK, NEW ok \in BOOLEAN, SendSetCodecReturns(ok)
  PROVE  /\ request' \in Requests /\ left' \in 0..4 /\ rejected' \in BOOLEAN
         /\ applied' \in Codecs \cup {"none"} /\ ui' \in {"enter", "idle"}
<1>1. request \in Requests /\ request.codec \in Codecs \cup {"AI"} /\ left \in 0..4
  BY DEF TypeOK, Requests
<1>2. CASE left > 0
  <2>1. request' = Param(request.codec) /\ left' = left - 1 /\ ui' = "enter" /\ UNCHANGED applied
    BY <1>2 DEF SendSetCodecReturns
  <2>2. Param(request.codec) \in Requests
    BY <1>1 DEF Param, Requests
  <2>3. rejected' \in BOOLEAN
    BY DEF SendSetCodecReturns, TypeOK
  <2>4. QED
    BY <1>1, <1>2, <2>1, <2>2, <2>3 DEF TypeOK
<1>3. CASE ~(left > 0)
  BY <1>1, <1>3 DEF SendSetCodecReturns, TypeOK
<1>4. QED
  BY <1>2, <1>3

\* The service answers the one request there is.
LEMMA Answered ==
  ASSUME ClientInv, ServiceAnswers
  PROVE  /\ service = "connected" /\ _io # "free"
         /\ Len(toServer) = 1 /\ toServer[1] = Current
         /\ toServer' = << >> /\ toClient = << >>
         /\ toClient' \in Seq(Replies) /\ Len(toClient') = 1
         /\ toClient'[1].type = ReplyTo(Current.type)
         /\ codec' = IF Current.key = "switch" THEN Current.codec ELSE codec
         /\ UNCHANGED <<taskVars, _io, ui, viewVars, sendVars, actions, service, starts, closes>>
<1>1. service = "connected" /\ toServer # << >>
  BY DEF ServiceAnswers
<1>2. /\ _io # "free" /\ Len(toServer) = 1 /\ toServer[1] = Current /\ toClient = << >>
      /\ toServer \in Seq(Requests \cup {GetStatus}) /\ toClient \in Seq(Replies)
  BY <1>1 DEF ClientInv, TrafficInv, TypeOK
<1>3. Head(toServer) = Current /\ Tail(toServer) = << >>
  BY <1>2, OneElement
<1>4. /\ toServer' = << >>
      /\ codec' = IF Current.key = "switch" THEN Current.codec ELSE codec
      /\ UNCHANGED <<taskVars, _io, ui, viewVars, sendVars, actions, service, starts, closes>>
  BY <1>3 DEF ServiceAnswers, ServiceFrame
<1>5. PICK ok \in BOOLEAN : toClient' = Append(toClient,
        [type |-> IF Current = GetStatus THEN "StatusReply" ELSE "CodecAck", ok |-> ok])
  BY <1>3 DEF ServiceAnswers
<1>6. (Current = GetStatus) <=> (Current.type = "GetStatus")
  BY DEF Current, GetStatus, ClientInv, TypeOK, Requests
<1> DEFINE answer == [type |-> IF Current = GetStatus THEN "StatusReply" ELSE "CodecAck", ok |-> ok]
<1>7. answer \in Replies /\ answer.type = ReplyTo(Current.type)
  BY <1>6 DEF Replies, ReplyTo
<1> HIDE DEF answer
<1>8. toClient' = Append(toClient, answer)
  BY <1>5 DEF answer
<1>9. toClient' \in Seq(Replies) /\ Len(toClient') = 1 /\ toClient'[1] = answer
  BY <1>2, <1>7, <1>8, OneElement
<1>10. QED
  BY <1>1, <1>2, <1>4, <1>7, <1>9

\* Lock, pipe and session over the steps of the task.
LEMMA TaskControl ==
  ASSUME TypeOK, LockInv, PipeInv, Task
  PROVE  LockInv' /\ PipeInv'
<1> USE DEF LockInv, PipeInv, Attached, TypeOK, TaskFrame, viewVars, sendVars
<1>1. CASE RunLoop
  BY <1>1 DEF RunLoop
<1>2. CASE ConnectAsync
  BY <1>2 DEF ConnectAsync
<1>3. CASE Attach
  BY <1>3 DEF Attach
<1>4. CASE RequestStatus
  BY <1>4 DEF RequestStatus
<1>5. CASE ExchangeGetStatus
  BY <1>5 DEF ExchangeGetStatus
<1>6. CASE PollUntilClosed \/ PollDelay
  BY <1>6 DEF PollUntilClosed, PollDelay
<1>7. CASE Detach
  BY <1>7 DEF Detach
<1>8. CASE Dispose
  BY <1>8 DEF Dispose
<1>9. CASE RetryDelay
  BY <1>9 DEF RetryDelay
<1>10. QED
  BY <1>1, <1>2, <1>3, <1>4, <1>5, <1>6, <1>7, <1>8, <1>9 DEF Task

\* Lock, pipe and session over the steps of the UI thread.
LEMMA UiControl ==
  ASSUME TypeOK, LockInv, PipeInv, Ui
  PROVE  LockInv' /\ PipeInv'
<1> USE DEF LockInv, PipeInv, Attached, TypeOK, UiFrame, viewVars, sendVars, serviceVars
<1>1. CASE OnStartup
  BY <1>1 DEF OnStartup
<1>2. CASE SendSetCodec
  BY <1>2 DEF SendSetCodec, SendSetCodecReturns
<1>3. CASE ExchangeSetCodec
  BY <1>3 DEF ExchangeSetCodec, SendSetCodecReturns
<1>4. CASE OnStatusReceived
  BY <1>4 DEF OnStatusReceived
<1>5. CASE StopReturns
  BY <1>5 DEF StopReturns
<1>6. QED
  BY <1>1, <1>2, <1>3, <1>4, <1>5 DEF Ui

\* Lock, pipe and session over the steps of the user.
LEMMA UserControl ==
  ASSUME TypeOK, LockInv, PipeInv, User
  PROVE  LockInv' /\ PipeInv'
<1> USE DEF LockInv, PipeInv, Attached, TypeOK, UiFrame, viewVars, sendVars, serviceVars
<1>1. CASE ShowMainWindow
  BY <1>1 DEF ShowMainWindow
<1>2. CASE OnSelectedCodecIndexChanged
  BY <1>2 DEF OnSelectedCodecIndexChanged
<1>3. CASE ApplyCodec
  BY <1>3 DEF ApplyCodec
<1>4. CASE ControlsChanged
  BY <1>4 DEF ControlsChanged
<1>5. CASE DevicesApplyCodec
  BY <1>5 DEF DevicesApplyCodec
<1>6. CASE Stop
  BY <1>6 DEF Stop
<1>7. QED
  BY <1>1, <1>2, <1>3, <1>4, <1>5, <1>6 DEF User

\* Lock, pipe and session over the steps of the service.
LEMMA ServiceControl ==
  ASSUME TypeOK, LockInv, PipeInv, Service
  PROVE  LockInv' /\ PipeInv'
<1> USE DEF LockInv, PipeInv, Attached, TypeOK, ServiceFrame, taskVars, viewVars, sendVars
<1>1. CASE ServiceStarts
  BY <1>1 DEF ServiceStarts
<1>2. CASE ServiceAnswers
  BY <1>2 DEF ServiceAnswers
<1>3. CASE ServiceSeesClientGone
  BY <1>3 DEF ServiceSeesClientGone, ServiceDisconnects
<1>4. CASE ServiceCloses
  BY <1>4 DEF ServiceCloses, ServiceDisconnects
<1>5. CASE ServiceDies
  BY <1>5 DEF ServiceDies
<1>6. QED
  BY <1>1, <1>2, <1>3, <1>4, <1>5 DEF Service

\* What is in the pipe over the steps of the task.
LEMMA TaskTraffic ==
  ASSUME ClientInv, Task
  PROVE  TrafficInv'
<1> USE DEF ClientInv, LockInv, PipeInv, TrafficInv, Current, ReplyTo, Attached, Up, TypeOK, TaskFrame, viewVars, sendVars
<1>1. CASE RunLoop
  BY <1>1 DEF RunLoop
<1>2. CASE ConnectAsync
  BY <1>2 DEF ConnectAsync
<1>3. CASE Attach
  BY <1>3 DEF Attach
<1>4. CASE RequestStatus
  <2>1. CASE task' = "read"
    <3>1. /\ _io = "free" /\ _io' = "task" /\ service = "connected"
          /\ toServer' = Append(toServer, GetStatus)
          /\ UNCHANGED <<toClient, service>>
      BY <1>4, <2>1 DEF RequestStatus
    <3>2. toServer = << >> /\ toClient = << >>
      BY <3>1
    <3>3. Len(toServer') = 1 /\ toServer'[1] = GetStatus
      BY <3>1, <3>2, OneElement
    <3>4. QED
      BY <3>1, <3>2, <3>3
  <2>2. CASE task' # "read"
    <3>1. UNCHANGED <<toServer, toClient, service, _io, request>>
      BY <1>4, <2>2 DEF RequestStatus
    <3>2. QED
      BY <3>1
  <2>3. QED
    BY <2>1, <2>2
<1>5. CASE ExchangeGetStatus
  BY <1>5 DEF ExchangeGetStatus
<1>6. CASE PollUntilClosed \/ PollDelay
  BY <1>6 DEF PollUntilClosed, PollDelay
<1>7. CASE Detach
  BY <1>7 DEF Detach
<1>8. CASE Dispose
  BY <1>8 DEF Dispose
<1>9. CASE RetryDelay
  BY <1>9 DEF RetryDelay
<1>10. QED
  BY <1>1, <1>2, <1>3, <1>4, <1>5, <1>6, <1>7, <1>8, <1>9 DEF Task

\* What is in the pipe over the steps of the UI thread.
LEMMA UiTraffic ==
  ASSUME ClientInv, Ui
  PROVE  TrafficInv'
<1> USE DEF ClientInv, LockInv, PipeInv, TrafficInv, Current, ReplyTo, Attached, Up, TypeOK, UiFrame, viewVars, sendVars, serviceVars
<1>1. CASE OnStartup
  BY <1>1 DEF OnStartup
<1>2. CASE SendSetCodec
  <2>1. CASE ui' = "read"
    <3>1. /\ _io = "free" /\ _io' = "ui" /\ service = "connected"
          /\ toServer' = Append(toServer, request)
          /\ UNCHANGED <<toClient, service, request>>
      BY <1>2, <2>1 DEF SendSetCodec, SendSetCodecReturns
    <3>2. toServer = << >> /\ toClient = << >>
      BY <3>1
    <3>3. Len(toServer') = 1 /\ toServer'[1] = request
      BY <3>1, <3>2, OneElement
    <3>4. QED
      BY <3>1, <3>2, <3>3
  <2>2. CASE ui' # "read"
    <3>1. UNCHANGED <<toServer, toClient, service, _io>> /\ _io # "ui"
      BY <1>2, <2>2 DEF SendSetCodec, SendSetCodecReturns
    <3>2. QED
      BY <3>1
  <2>3. QED
    BY <2>1, <2>2
<1>3. CASE ExchangeSetCodec
  BY <1>3 DEF ExchangeSetCodec, SendSetCodecReturns
<1>4. CASE OnStatusReceived
  BY <1>4 DEF OnStatusReceived
<1>5. CASE StopReturns
  BY <1>5 DEF StopReturns
<1>6. QED
  BY <1>1, <1>2, <1>3, <1>4, <1>5 DEF Ui

\* What is in the pipe over the steps of the user.
LEMMA UserTraffic ==
  ASSUME ClientInv, User
  PROVE  TrafficInv'
<1> USE DEF ClientInv, LockInv, PipeInv, TrafficInv, Current, ReplyTo, Attached, Up, TypeOK, UiFrame, viewVars, sendVars, serviceVars
<1>1. CASE ShowMainWindow
  BY <1>1 DEF ShowMainWindow
<1>2. CASE OnSelectedCodecIndexChanged
  BY <1>2 DEF OnSelectedCodecIndexChanged
<1>3. CASE ApplyCodec
  BY <1>3 DEF ApplyCodec
<1>4. CASE ControlsChanged
  BY <1>4 DEF ControlsChanged
<1>5. CASE DevicesApplyCodec
  BY <1>5 DEF DevicesApplyCodec
<1>6. CASE Stop
  BY <1>6 DEF Stop
<1>7. QED
  BY <1>1, <1>2, <1>3, <1>4, <1>5, <1>6 DEF User

\* What is in the pipe over the steps of the service.
LEMMA ServiceTraffic ==
  ASSUME ClientInv, Service
  PROVE  TrafficInv'
<1> USE DEF ClientInv, LockInv, PipeInv, TrafficInv, Current, ReplyTo, Attached, Up, TypeOK, ServiceFrame, taskVars, viewVars, sendVars
<1>1. CASE ServiceStarts
  BY <1>1 DEF ServiceStarts
<1>2. CASE ServiceAnswers
  BY <1>2, Answered
<1>3. CASE ServiceSeesClientGone
  BY <1>3 DEF ServiceSeesClientGone, ServiceDisconnects
<1>4. CASE ServiceCloses
  BY <1>4 DEF ServiceCloses, ServiceDisconnects
<1>5. CASE ServiceDies
  BY <1>5 DEF ServiceDies
<1>6. QED
  BY <1>1, <1>2, <1>3, <1>4, <1>5 DEF Service

\* The codec shown over the steps of the task.
LEMMA TaskCodec ==
  ASSUME ClientInv, Task
  PROVE  RequestInv' /\ CodecInv'
<1> USE DEF ClientInv, LockInv, PipeInv, TrafficInv, RequestInv, CodecInv, Current, ReplyTo, Attached, Up, TypeOK, Switch, Param, TaskFrame, viewVars, sendVars
<1>1. CASE RunLoop
  BY <1>1 DEF RunLoop
<1>2. CASE ConnectAsync
  BY <1>2 DEF ConnectAsync
<1>3. CASE Attach
  BY <1>3 DEF Attach
<1>4. CASE RequestStatus
  BY <1>4 DEF RequestStatus
<1>5. CASE ExchangeGetStatus
  BY <1>5 DEF ExchangeGetStatus
<1>6. CASE PollUntilClosed \/ PollDelay
  BY <1>6 DEF PollUntilClosed, PollDelay
<1>7. CASE Detach
  BY <1>7 DEF Detach
<1>8. CASE Dispose
  BY <1>8 DEF Dispose
<1>9. CASE RetryDelay
  BY <1>9 DEF RetryDelay
<1>10. QED
  BY <1>1, <1>2, <1>3, <1>4, <1>5, <1>6, <1>7, <1>8, <1>9 DEF Task

\* The codec shown over the steps of the UI thread.
LEMMA UiCodec ==
  ASSUME ClientInv, Ui
  PROVE  RequestInv' /\ CodecInv'
<1> USE DEF ClientInv, LockInv, PipeInv, TrafficInv, RequestInv, CodecInv, Current, ReplyTo, Attached, Up, TypeOK, Switch, Param, UiFrame, viewVars, sendVars, serviceVars
<1>1. CASE OnStartup
  BY <1>1 DEF OnStartup
<1>2. CASE SendSetCodec
  <2>1. CASE ui' = "read"
    <3>1. /\ _io = "free" /\ service = "connected" /\ ui = "enter"
          /\ UNCHANGED <<toClient, service, sendVars, codec, starts>>
      BY <1>2, <2>1 DEF SendSetCodec, SendSetCodecReturns
    <3>2. toClient = << >>
      BY <3>1
    <3>3. QED
      BY <2>1, <3>1, <3>2
  <2>2. CASE ui' # "read"
    <3>1. /\ ui = "enter" /\ SendSetCodecReturns(FALSE)
          /\ UNCHANGED <<service, codec, starts>>
      BY <1>2, <2>2 DEF SendSetCodec
    <3>2. rejected' = TRUE
      BY <3>1 DEF SendSetCodecReturns
    <3>3. CASE left > 0
      BY <3>1, <3>2, <3>3 DEF SendSetCodecReturns
    <3>4. CASE ~(left > 0)
      BY <3>1, <3>2, <3>4 DEF SendSetCodecReturns
    <3>5. QED
      BY <3>3, <3>4
  <2>3. QED
    BY <2>1, <2>2
<1>3. CASE ExchangeSetCodec
  <2>1. /\ ui = "read" /\ starts # 0 /\ UNCHANGED <<service, codec, starts>>
    BY <1>3 DEF ExchangeSetCodec
  <2>2. PICK ok \in BOOLEAN : SendSetCodecReturns(ok) /\ (ok => toClient # << >>)
    BY <1>3 DEF ExchangeSetCodec
  <2>3. request.key \in {"switch", "param"} /\ request.codec \in Codecs \cup {"AI"}
    BY DEF Requests
  <2>4. ASSUME starts = 1, ~rejected', request.codec # "AI" PROVE codec = request.codec
    <3>1. toClient # << >> /\ ~rejected
      BY <2>2, <2>4 DEF SendSetCodecReturns
    <3>2. QED
      BY <2>1, <2>3, <2>4, <3>1
  <2>5. CASE left > 0
    <3>1. request.codec # "AI"
      BY <2>5
    <3>2. /\ request' = Param(request.codec) /\ left' = left - 1 /\ ui' = "enter"
          /\ UNCHANGED applied
      BY <2>2, <2>5 DEF SendSetCodecReturns
    <3>3. request'.codec = request.codec /\ request'.key = "param"
      BY <3>2
    <3>4. QED
      BY <2>1, <2>4, <3>1, <3>2, <3>3
  <2>6. CASE ~(left > 0)
    <3>1. /\ ui' = "idle" /\ UNCHANGED <<request, left>>
          /\ applied' = IF request.codec = "AI" THEN applied
                        ELSE IF rejected' THEN "none" ELSE request.codec
      BY <2>2, <2>6 DEF SendSetCodecReturns
    <3>2. QED
      BY <2>1, <2>4, <3>1
  <2>7. QED
    BY <2>5, <2>6
<1>4. CASE OnStatusReceived
  BY <1>4 DEF OnStatusReceived
<1>5. CASE StopReturns
  BY <1>5 DEF StopReturns
<1>6. QED
  BY <1>1, <1>2, <1>3, <1>4, <1>5 DEF Ui

\* The codec shown over the steps of the user.
LEMMA UserCodec ==
  ASSUME ClientInv, User
  PROVE  RequestInv' /\ CodecInv'
<1> USE DEF ClientInv, LockInv, PipeInv, TrafficInv, RequestInv, CodecInv, Current, ReplyTo, Attached, Up, TypeOK, Switch, Param, UiFrame, viewVars, sendVars, serviceVars
<1>1. CASE ShowMainWindow
  BY <1>1 DEF ShowMainWindow
<1>2. CASE OnSelectedCodecIndexChanged
  BY <1>2 DEF OnSelectedCodecIndexChanged
<1>3. CASE ApplyCodec
  <2>1. /\ ui' = "enter" /\ request' = Switch(selected) /\ selected \in Codecs
        /\ UNCHANGED <<applied, service, codec, starts>> /\ ui = "idle"
    BY <1>3 DEF ApplyCodec
  <2>2. request'.codec # "AI" /\ request'.key = "switch"
    BY <2>1, ConstantAssumption
  <2>3. QED
    BY <2>1, <2>2
<1>4. CASE ControlsChanged
  BY <1>4 DEF ControlsChanged
<1>5. CASE DevicesApplyCodec
  <2>1. CASE _session
    <3>1. PICK c \in Codecs : request' = Switch(c)
      BY <1>5, <2>1 DEF DevicesApplyCodec
    <3>2. request'.codec # "AI" /\ request'.key = "switch"
      BY <3>1, ConstantAssumption
    <3>3. ui' = "enter" /\ UNCHANGED <<applied, service, codec, starts>>
      BY <1>5, <2>1 DEF DevicesApplyCodec
    <3>4. QED
      BY <1>5, <3>2, <3>3 DEF DevicesApplyCodec
  <2>2. CASE ~_session
    BY <1>5, <2>2 DEF DevicesApplyCodec
  <2>3. QED
    BY <2>1, <2>2
<1>6. CASE Stop
  BY <1>6 DEF Stop
<1>7. QED
  BY <1>1, <1>2, <1>3, <1>4, <1>5, <1>6 DEF User

\* The codec shown over the steps of the service.
LEMMA ServiceCodec ==
  ASSUME ClientInv, Service
  PROVE  RequestInv' /\ CodecInv'
<1> USE DEF ClientInv, LockInv, PipeInv, TrafficInv, RequestInv, CodecInv, Current, ReplyTo, Attached, Up, TypeOK, Switch, Param, ServiceFrame, taskVars, viewVars, sendVars
<1>1. CASE ServiceStarts
  BY <1>1 DEF ServiceStarts
<1>2. CASE ServiceAnswers
  <2> HIDE DEF Current
  <2>1. UNCHANGED <<ui, request, left, rejected, applied, starts, service, _io>>
    BY <1>2 DEF ServiceAnswers
  <2>2. /\ codec' = IF Current.key = "switch" THEN Current.codec ELSE codec
        /\ service = "connected" /\ toClient = << >>
    BY <1>2, Answered
  <2>3. CASE ui = "read"
    <3>1. Current = request
      BY <2>3 DEF Current
    <3>2. codec' = IF request.key = "switch" THEN request.codec ELSE codec
      BY <2>2, <3>1
    <3>3. request.key = "switch" => request.codec # "AI"
      OBVIOUS
    <3>4. QED
      BY <2>2, <2>1, <2>3, <3>2, <3>3
  <2>4. CASE ui # "read"
    <3>1. codec' = codec
      BY <1>2, <2>2, <2>4, Answered DEF Current, GetStatus
    <3>2. QED
      BY <2>2, <2>1, <2>4, <3>1
  <2>5. QED
    BY <2>3, <2>4
<1>3. CASE ServiceSeesClientGone
  BY <1>3 DEF ServiceSeesClientGone, ServiceDisconnects
<1>4. CASE ServiceCloses
  BY <1>4 DEF ServiceCloses, ServiceDisconnects
<1>5. CASE ServiceDies
  BY <1>5 DEF ServiceDies
<1>6. QED
  BY <1>1, <1>2, <1>3, <1>4, <1>5 DEF Service

\* TypeOK in two parts: the labels, flags and counters, and what is sent.
LabelType ==
  /\ task \in {"none", "retest", "connect", "attach", "poll", "lock", "read",
               "status", "delay", "detach", "dispose", "retry", "ended"}
  /\ _session \in BOOLEAN /\ _io \in {"free", "task", "ui"}
  /\ cancelled \in BOOLEAN
  /\ pipe \in {"none", "new", "open", "disposed"}
  /\ ui \in {"starting", "idle", "enter", "read", "stop", "gone"}
  /\ view \in {"devices", "codec"}
  /\ window \in {"none", "open", "closed", "exit"}
  /\ canApply \in BOOLEAN /\ service \in {"down", "listening", "connected"}
  /\ actions \in 0..MaxActions /\ starts \in 0..MaxStarts
  /\ closes \in 0..MaxCloses

SendType ==
  /\ selected \in Codecs /\ codec \in Codecs /\ applied \in Codecs \cup {"none"}
  /\ request \in Requests /\ left \in 0..4 /\ rejected \in BOOLEAN
  /\ toServer \in Seq(Requests \cup {GetStatus}) /\ toClient \in Seq(Replies)

\* The two parts are all of it.
LEMMA TypeParts == TypeOK <=> LabelType /\ SendType
BY DEF TypeOK, LabelType, SendType

\* The bounds are numbers.
LEMMA Bounds == MaxActions \in Nat /\ MaxStarts \in Nat /\ MaxCloses \in Nat
BY ConstantAssumption

\* Labels and flags over the steps of the task.
LEMMA TaskLabels == ASSUME TypeOK, Task PROVE LabelType'
<1> USE TypeParts, Bounds DEF LabelType, TaskFrame, viewVars, sendVars
<1>1. CASE RunLoop
  BY <1>1 DEF RunLoop
<1>2. CASE ConnectAsync
  BY <1>2 DEF ConnectAsync
<1>3. CASE Attach
  BY <1>3 DEF Attach
<1>4. CASE RequestStatus
  BY <1>4 DEF RequestStatus
<1>5. CASE ExchangeGetStatus
  BY <1>5 DEF ExchangeGetStatus
<1>6. CASE PollUntilClosed \/ PollDelay
  BY <1>6 DEF PollUntilClosed, PollDelay
<1>7. CASE Detach
  BY <1>7, ZenonT(60) DEF Detach
<1>8. CASE Dispose
  BY <1>8 DEF Dispose
<1>9. CASE RetryDelay
  BY <1>9 DEF RetryDelay
<1>10. QED
  BY <1>1, <1>2, <1>3, <1>4, <1>5, <1>6, <1>7, <1>8, <1>9 DEF Task

\* Labels and flags over the steps of the UI thread.
LEMMA UiLabels == ASSUME TypeOK, Ui PROVE LabelType'
<1> USE TypeParts, Bounds DEF LabelType, UiFrame, viewVars, sendVars, serviceVars
<1>1. CASE OnStartup
  BY <1>1 DEF OnStartup
<1>2. CASE SendSetCodec
  BY <1>2 DEF SendSetCodec, SendSetCodecReturns
<1>3. CASE ExchangeSetCodec
  BY <1>3 DEF ExchangeSetCodec, SendSetCodecReturns
<1>4. CASE OnStatusReceived
  BY <1>4 DEF OnStatusReceived
<1>5. CASE StopReturns
  BY <1>5, ZenonT(60) DEF StopReturns
<1>6. QED
  BY <1>1, <1>2, <1>3, <1>4, <1>5 DEF Ui

\* Labels and flags over the steps of the user.
LEMMA UserLabels == ASSUME TypeOK, User PROVE LabelType'
<1> USE TypeParts, Bounds DEF LabelType, UiFrame, viewVars, sendVars, serviceVars
<1>1. CASE ShowMainWindow
  BY <1>1 DEF ShowMainWindow
<1>2. CASE OnSelectedCodecIndexChanged
  BY <1>2 DEF OnSelectedCodecIndexChanged
<1>3. CASE ApplyCodec
  BY <1>3 DEF ApplyCodec
<1>4. CASE ControlsChanged
  BY <1>4 DEF ControlsChanged
<1>5. CASE DevicesApplyCodec
  BY <1>5 DEF DevicesApplyCodec
<1>6. CASE Stop
  BY <1>6 DEF Stop
<1>7. QED
  BY <1>1, <1>2, <1>3, <1>4, <1>5, <1>6 DEF User

\* Labels and flags over the steps of the service.
LEMMA ServiceLabels == ASSUME TypeOK, Service PROVE LabelType'
<1> USE TypeParts, Bounds DEF LabelType, ServiceFrame, taskVars, viewVars, sendVars
<1>1. CASE ServiceStarts
  BY <1>1 DEF ServiceStarts
<1>2. CASE ServiceAnswers
  BY <1>2 DEF ServiceAnswers
<1>3. CASE ServiceSeesClientGone
  BY <1>3 DEF ServiceSeesClientGone, ServiceDisconnects
<1>4. CASE ServiceCloses
  BY <1>4 DEF ServiceCloses, ServiceDisconnects
<1>5. CASE ServiceDies
  BY <1>5 DEF ServiceDies
<1>6. QED
  BY <1>1, <1>2, <1>3, <1>4, <1>5 DEF Service

\* What the task reads and writes has its type.
LEMMA TaskSends == ASSUME TypeOK, Task PROVE SendType'
<1> USE TypeParts DEF SendType, TaskFrame, viewVars, sendVars
<1>1. CASE RequestStatus
  <2>1. Append(toServer, GetStatus) \in Seq(Requests \cup {GetStatus})
    OBVIOUS
  <2>2. QED
    BY <1>1, <2>1 DEF RequestStatus
<1>2. CASE ExchangeGetStatus
  <2>1. toClient # << >> => Tail(toClient) \in Seq(Replies)
    OBVIOUS
  <2>2. QED
    BY <1>2, <2>1 DEF ExchangeGetStatus
<1>3. CASE RunLoop \/ ConnectAsync \/ Attach \/ PollUntilClosed \/ PollDelay \/ Detach \/ Dispose
           \/ RetryDelay
  BY <1>3 DEF RunLoop, ConnectAsync, Attach, PollUntilClosed, PollDelay, Detach, Dispose, RetryDelay
<1>4. QED
  BY <1>1, <1>2, <1>3 DEF Task

\* So has what the UI thread sends.
LEMMA UiSends == ASSUME TypeOK, Ui \/ User PROVE SendType'
<1> USE TypeParts DEF SendType, UiFrame, viewVars, sendVars, serviceVars
<1>1. CASE SendSetCodec
  <2>1. Append(toServer, request) \in Seq(Requests \cup {GetStatus})
    OBVIOUS
  <2>2. CASE SendSetCodecReturns(FALSE) /\ UNCHANGED toServer
    BY <1>1, <2>2, Returned DEF SendSetCodec
  <2>3. CASE UNCHANGED sendVars /\ toServer' = Append(toServer, request)
    BY <1>1, <2>1, <2>3 DEF SendSetCodec
  <2>4. QED
    BY <1>1, <2>2, <2>3 DEF SendSetCodec
<1>2. CASE ExchangeSetCodec
  <2>1. toClient # << >> => Tail(toClient) \in Seq(Replies)
    OBVIOUS
  <2>2. PICK ok \in BOOLEAN : SendSetCodecReturns(ok)
    BY <1>2 DEF ExchangeSetCodec
  <2>3. toClient' \in Seq(Replies)
    BY <1>2, <2>1 DEF ExchangeSetCodec
  <2>4. QED
    BY <1>2, <2>2, <2>3, Returned DEF ExchangeSetCodec
<1>3. CASE OnStartup \/ OnStatusReceived \/ StopReturns \/ Stop
  BY <1>3 DEF OnStartup, OnStatusReceived, StopReturns, Stop
<1>4. CASE ShowMainWindow \/ OnSelectedCodecIndexChanged
  BY <1>4, ConstantAssumption DEF ShowMainWindow, OnSelectedCodecIndexChanged
<1>5. CASE ApplyCodec
  <2>1. request' \in Requests /\ left' \in 0..4
    BY <1>5 DEF ApplyCodec, Switch, Requests, Params
  <2>2. QED
    BY <1>5, <2>1 DEF ApplyCodec
<1>6. CASE ControlsChanged
  <2>1. request' \in Requests
    BY <1>6 DEF ControlsChanged, Param, Requests
  <2>2. /\ left' = 0 /\ rejected' = FALSE
        /\ UNCHANGED <<selected, codec, applied, toServer, toClient>>
    BY <1>6 DEF ControlsChanged
  <2>3. left' \in 0..4
    BY <2>2
  <2>4. QED
    BY <2>1, <2>2, <2>3
<1>7. CASE DevicesApplyCodec
  <2>1. request' \in Requests
    BY <1>7 DEF DevicesApplyCodec, Switch, Requests
  <2>2. /\ left' = 0 \/ left' = left
        /\ rejected' = FALSE \/ rejected' = rejected
        /\ applied' = "none" \/ applied' = applied
        /\ UNCHANGED <<selected, codec, toServer, toClient>>
    BY <1>7 DEF DevicesApplyCodec
  <2>3. left' \in 0..4
    BY <2>2
  <2>4. QED
    BY <2>1, <2>2, <2>3
<1>8. QED
  BY <1>1, <1>2, <1>3, <1>4, <1>5, <1>6, <1>7 DEF Ui, User

\* So has what the service answers: it switches to a codec, never to "AI".
LEMMA ServiceSends == ASSUME ClientInv, Service PROVE SendType'
<1>0. SendType
  BY TypeParts DEF ClientInv
<1> USE <1>0 DEF SendType, ServiceFrame, viewVars, sendVars
<1>1. CASE ServiceAnswers
  <2>1. Current.key = "switch" => Current.codec \in Codecs
    BY DEF Current, GetStatus, ClientInv, RequestInv, Requests
  <2>2. /\ codec' \in Codecs /\ toServer' = << >> /\ toClient' \in Seq(Replies)
        /\ UNCHANGED <<selected, applied, request, left, rejected>>
    BY <1>1, <2>1, Answered
  <2>3. QED
    BY <2>2
<1>2. CASE ServiceStarts
  BY <1>2, ConstantAssumption DEF ServiceStarts
<1>3. CASE ServiceSeesClientGone \/ ServiceCloses \/ ServiceDies
  <2>1. /\ toServer' = << >> /\ toClient' = << >>
        /\ UNCHANGED <<selected, codec, applied, request, left, rejected>>
    BY <1>3 DEF ServiceSeesClientGone, ServiceCloses, ServiceDies, ServiceDisconnects
  <2>2. QED
    BY <2>1
<1>4. QED
  BY <1>1, <1>2, <1>3 DEF Service

-----------------------------------------------------------------------------
\* Nothing runs and nothing is shown at first.
LEMMA InitClientInv == Init => ClientInv
<1> SUFFICES ASSUME Init PROVE ClientInv
  OBVIOUS
<1>1. LabelType
  <2>1. actions \in 0..MaxActions /\ starts \in 0..MaxStarts /\ closes \in 0..MaxCloses
    BY Bounds DEF Init
  <2>2. QED
    BY <2>1 DEF Init, LabelType
<1>2. SendType
  <2>1. request \in Requests
    BY ConstantAssumption DEF Init, Switch, Requests
  <2>2. left \in 0..4 /\ toServer \in Seq(Requests \cup {GetStatus}) /\ toClient \in Seq(Replies)
    BY DEF Init
  <2>3. QED
    BY <2>1, <2>2, ConstantAssumption DEF Init, SendType
<1>3. LockInv /\ PipeInv /\ TrafficInv /\ CodecInv
  BY DEF Init, LockInv, PipeInv, TrafficInv, CodecInv, Attached
<1>4. RequestInv
  BY ConstantAssumption DEF Init, RequestInv, Switch
<1>5. QED
  BY <1>1, <1>2, <1>3, <1>4, TypeParts DEF ClientInv

\* TypeOK holds after a step if its two parts do.
LEMMA TypeParts2 == TypeOK' <=> LabelType' /\ SendType'
BY DEF TypeOK, LabelType, SendType

\* The inductive step.
LEMMA NextClientInv == ClientInv /\ [Next]_vars => ClientInv'
<1> SUFFICES ASSUME ClientInv, [Next]_vars PROVE ClientInv'
  OBVIOUS
<1>0. TypeOK /\ LockInv /\ PipeInv
  BY DEF ClientInv
<1>1. CASE Task
  BY <1>0, <1>1, TaskControl, TaskTraffic, TaskCodec, TaskLabels, TaskSends, TypeParts2
  DEF ClientInv
<1>2. CASE Ui
  BY <1>0, <1>2, UiControl, UiTraffic, UiCodec, UiLabels, UiSends, TypeParts2 DEF ClientInv
<1>3. CASE User
  BY <1>0, <1>3, UserControl, UserTraffic, UserCodec, UserLabels, UiSends, TypeParts2
  DEF ClientInv
<1>4. CASE Service
  BY <1>0, <1>4, ServiceControl, ServiceTraffic, ServiceCodec, ServiceLabels, ServiceSends,
     TypeParts2 DEF ClientInv
<1>5. CASE UNCHANGED vars
  BY <1>5 DEF vars, taskVars, viewVars, sendVars, serviceVars, ClientInv, TypeOK, LockInv,
     PipeInv, TrafficInv, Current, RequestInv, CodecInv
<1>6. QED
  BY <1>1, <1>2, <1>3, <1>4, <1>5 DEF Next

\* IpcClientService and its views, with any service: who holds the lock, what
\* the session refers to, what is in the pipe and what the view may show.
THEOREM ClientInvariance == Spec => []ClientInv
BY InitClientInv, NextClientInv, PTL DEF Spec

\* IpcClientService: its state keeps its types.
THEOREM TypeCorrect == Spec => []TypeOK
<1>1. ClientInv => TypeOK
  BY DEF ClientInv
<1>2. QED
  BY <1>1, ClientInvariance, PTL

\* Attach, Detach, "using var pipe": nobody uses a pipe that is disposed, for
\* any number of sessions, sends and restarts of the service.
THEOREM SessionSafe == Spec => []SessionNotDisposed
<1>1. ClientInv => SessionNotDisposed
  BY DEF ClientInv, LockInv, PipeInv, Attached, SessionNotDisposed
<1>2. QED
  BY <1>1, ClientInvariance, PTL

\* ApplyCodec: the codec shown as applied is the codec of the service, whatever
\* was lost, refused or timed out.
THEOREM AppliedCurrent == Spec => []AppliedIsCurrent
<1>1. ClientInv => AppliedIsCurrent
  BY DEF ClientInv, CodecInv, AppliedIsCurrent
<1>2. QED
  BY <1>1, ClientInvariance, PTL

-----------------------------------------------------------------------------
(***************************************************************************)
(* The client implements RequestReply.                                     *)
(***************************************************************************)
\* What the mapped reply is.
LEMMA Mapped ==
  ASSUME ClientInv
  PROVE  /\ ~Up => Asked = "none"
         /\ Up /\ _io = "free" => Asked = "none" /\ toClient = << >>
         /\ Up /\ _io # "free" => Asked = Current.type
         /\ Up /\ toClient # << >> => /\ _io # "free"
                                       /\ Len(toClient) = 1 /\ Head(toClient) = toClient[1]
                                       /\ toClient[1].type = ReplyTo(Current.type)
                                       /\ Tail(toClient) = << >>
<1>1. request.type = "SetCodec" /\ toClient \in Seq(Replies)
  BY DEF ClientInv, TypeOK, Requests
<1>2. Up /\ _io # "free" => Asked = Current.type
  BY <1>1 DEF ClientInv, LockInv, TypeOK, Asked, Current, GetStatus
<1>3. ASSUME Up, toClient # << >>
      PROVE  /\ _io # "free" /\ Len(toClient) = 1
             /\ toClient[1].type = ReplyTo(Current.type)
  BY <1>3 DEF ClientInv, TrafficInv, Up
<1>4. /\ ~Up => Asked = "none"
      /\ Up /\ _io = "free" => Asked = "none" /\ toClient = << >>
  BY DEF Asked, ClientInv, LockInv, TrafficInv
<1>5. QED
  BY <1>1, <1>2, <1>3, <1>4, OneElement

\* A step that leaves the session and what is on it alone.
LEMMA Stutters ==
  ASSUME UNCHANGED <<Up, Asked, toClient>>
  PROVE  UNCHANGED Session!vars
BY DEF Session!vars

\* A step after which the session is gone.
LEMMA Loses == ASSUME ~Up' PROVE [Session!Next]_(Session!vars)
<1>1. Asked' = "none"
  BY DEF Asked
<1>2. CASE Up
  BY <1>1, <1>2 DEF Session!Next, Session!Lose
<1>3. CASE ~Up
  <2>1. Asked = "none"
    BY <1>3 DEF Asked
  <2>2. QED
    BY <1>1, <1>3, <2>1 DEF Session!vars, Up
<1>4. QED
  BY <1>2, <1>3

\* A step that takes the reply off the session.
LEMMA Receives ==
  ASSUME ClientInv, ClientInv', Up, UNCHANGED Up, toClient # << >>, toClient' = Tail(toClient),
         _io' = "free"
  PROVE  [Session!Next]_(Session!vars)
<1>1. Head(toClient).type # "none" /\ toClient' = << >>
  BY Mapped DEF ReplyTo
<1>2. Asked' = "none"
  BY DEF ClientInv, LockInv, Asked
<1>3. Session!Receive
  BY <1>1, <1>2 DEF Session!Receive
<1>4. QED
  BY <1>3 DEF Session!Next

\* A step that puts a request on a session nobody uses.
LEMMA Asks ==
  ASSUME ClientInv, ClientInv', Up, UNCHANGED <<Up, toClient>>, _io = "free", _io' # "free"
  PROVE  [Session!Next]_(Session!vars)
<1>1. Asked = "none" /\ toClient = << >>
  BY Mapped
<1>2. Asked' \in {"GetStatus", "SetCodec"}
  BY DEF ClientInv, TypeOK, LockInv, Asked
<1>3. Session!Ask
  BY <1>1, <1>2 DEF Session!Ask
<1>4. QED
  BY <1>3 DEF Session!Next

\* Every step of the client, its user and the service is one of RequestReply.
LEMMA StepImplements ==
  ClientInv /\ ClientInv' /\ [Next]_vars => [Session!Next]_(Session!vars)
<1> SUFFICES ASSUME ClientInv, ClientInv', [Next]_vars
             PROVE  [Session!Next]_(Session!vars)
  OBVIOUS
<1>1. CASE ConnectAsync
  <2>1. ~Up /\ toClient = << >> /\ UNCHANGED toClient
    BY <1>1 DEF ConnectAsync, TaskFrame, ClientInv, LockInv, PipeInv, TrafficInv, Up, Attached,
       TypeOK
  <2>2. CASE Up'
    <3>1. Asked = "none" /\ Asked' = "none"
      BY <1>1, <2>1, <2>2 DEF ConnectAsync, TaskFrame, Asked, ClientInv, LockInv, PipeInv, Attached
    <3>2. Session!Connect
      BY <2>1, <2>2, <3>1 DEF Session!Connect
    <3>3. QED
      BY <3>2 DEF Session!Next
  <2>3. CASE ~Up'
    BY <2>3, Loses
  <2>4. QED
    BY <2>2, <2>3
<1>2. CASE RequestStatus
  <2>1. UNCHANGED <<Up, toClient, ui>>
    BY <1>2 DEF RequestStatus, TaskFrame, Up
  <2>2. CASE _io' = _io
    <3>1. task' # "read" /\ task # "read"
      BY <1>2, <2>2 DEF RequestStatus
    <3>2. QED
      BY <2>1, <3>1, Stutters DEF Asked
  <2>3. CASE _io' # _io
    BY <1>2, <2>1, <2>3, Asks DEF RequestStatus
  <2>4. QED
    BY <2>2, <2>3
<1>3. CASE ExchangeGetStatus
  <2>1. CASE Up
    BY <1>3, <2>1, Receives DEF ExchangeGetStatus, TaskFrame, Up
  <2>2. CASE ~Up
    BY <1>3, <2>2, Loses DEF ExchangeGetStatus, TaskFrame, Up
  <2>3. QED
    BY <2>1, <2>2
<1>4. CASE RunLoop \/ Attach \/ PollUntilClosed \/ PollDelay \/ Detach \/ RetryDelay
  <2>1. UNCHANGED <<toClient, ui, service>> /\ task # "read" /\ task' # "read"
    BY <1>4 DEF RunLoop, Attach, PollUntilClosed, PollDelay, Detach, RetryDelay, TaskFrame
  <2>2. UNCHANGED Up
    BY <1>4, <2>1 DEF RunLoop, Attach, PollUntilClosed, PollDelay, Detach, RetryDelay, TaskFrame, Up,
       ClientInv, PipeInv
  <2>3. QED
    BY <2>1, <2>2, Stutters DEF Asked
<1>5. CASE Dispose
  BY <1>5, Loses DEF Dispose, Up
<1>6. CASE SendSetCodec
  <2>1. UNCHANGED <<Up, toClient, task>>
    BY <1>6 DEF SendSetCodec, UiFrame, serviceVars, Up
  <2>2. CASE _io' = _io
    <3>1. ui' # "read" /\ ui # "read"
      BY <1>6, <2>2 DEF SendSetCodec, SendSetCodecReturns
    <3>2. QED
      BY <2>1, <3>1, Stutters DEF Asked
  <2>3. CASE _io' # _io
    BY <1>6, <2>1, <2>3, Asks DEF SendSetCodec
  <2>4. QED
    BY <2>2, <2>3
<1>7. CASE ExchangeSetCodec
  <2>1. UNCHANGED Up /\ _io' = "free"
    BY <1>7 DEF ExchangeSetCodec, UiFrame, serviceVars, Up
  <2>2. CASE Up
    BY <1>7, <2>1, <2>2, Receives DEF ExchangeSetCodec
  <2>3. CASE ~Up
    BY <2>1, <2>3, Loses
  <2>4. QED
    BY <2>2, <2>3
<1>8. CASE StopReturns
  <2>1. CASE window = "exit"
    BY <1>8, <2>1, Loses DEF StopReturns, Up
  <2>2. CASE window # "exit"
    <3>1. UNCHANGED <<Up, toClient, task>> /\ ui # "read" /\ ui' # "read"
      BY <1>8, <2>2 DEF StopReturns, serviceVars, Up
    <3>2. QED
      BY <3>1, Stutters DEF Asked
  <2>3. QED
    BY <2>1, <2>2
<1>9. CASE OnStartup \/ OnStatusReceived \/ User
  <2>1. UNCHANGED <<Up, toClient>> /\ ui # "read" /\ ui' # "read"
        /\ (task' = task \/ (task # "read" /\ task' # "read"))
    BY <1>9 DEF OnStartup, OnStatusReceived, User, ShowMainWindow, OnSelectedCodecIndexChanged,
       ApplyCodec, ControlsChanged, DevicesApplyCodec, Stop, UiFrame, serviceVars, Up,
       ClientInv, PipeInv
  <2>2. QED
    BY <2>1, Stutters DEF Asked
<1>10. CASE ServiceAnswers
  <2>1. /\ _io # "free" /\ toClient = << >> /\ UNCHANGED <<Up, Asked>>
        /\ toClient' \in Seq(Replies) /\ Len(toClient') = 1
        /\ toClient'[1].type = ReplyTo(Current.type)
    BY <1>10, Answered DEF taskVars, Up, Asked
  <2>2. toClient' # << >> /\ Head(toClient') = toClient'[1]
    BY <2>1
  <2>3. CASE Up
    <3>1. Asked = Current.type /\ Asked # "none"
      BY <2>1, <2>3, Mapped DEF Current, GetStatus, ClientInv, TypeOK, Requests
    <3>2. Session!Answer
      BY <2>1, <2>2, <2>3, <3>1 DEF Session!Answer
    <3>3. QED
      BY <3>2 DEF Session!Next
  <2>4. CASE ~Up
    BY <2>1, <2>4, Loses
  <2>5. QED
    BY <2>3, <2>4
<1>11. CASE ServiceStarts
  <2>1. ~Up'
    BY <1>11 DEF ServiceStarts, Up
  <2>2. QED
    BY <2>1, Loses
<1>12. CASE ServiceSeesClientGone \/ ServiceCloses \/ ServiceDies
  <2>1. ~Up'
    BY <1>12 DEF ServiceSeesClientGone, ServiceCloses, ServiceDies, ServiceDisconnects, Up
  <2>2. QED
    BY <2>1, Loses
<1>13. CASE UNCHANGED vars
  <2>1. UNCHANGED <<Up, Asked, toClient>>
    BY <1>13 DEF vars, taskVars, serviceVars, Up, Asked
  <2>2. QED
    BY <2>1, Stutters
<1>14. QED
  BY <1>1, <1>2, <1>3, <1>4, <1>5, <1>6, <1>7, <1>8, <1>9, <1>10, <1>11, <1>12, <1>13
  DEF Next, Task, Ui, Service

\* _io, SendSetCodec, RequestStatus: the client keeps to RequestReply with any
\* service: one request under way at a time, and each thread reads the reply
\* to its own.
THEOREM Implements == Spec => ImplementsRequestReply
<1>1. Init => Session!Init
  BY DEF Init, Session!Init, Up, Asked
<1>2. QED
  BY <1>1, StepImplements, ClientInvariance, PTL DEF Spec, Session!Spec, ImplementsRequestReply
=============================================================================

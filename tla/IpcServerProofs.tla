--------------------------- MODULE IpcServerProofs ---------------------------
(***************************************************************************)
(* stop() against serve_one(), for any number of threads that stop.        *)
(***************************************************************************)
EXTENDS IpcServer, TLAPS

\* The labels between enter_serve and leave_serve.
Inside == InPipe \cup {"session", "leave"}

\* ServeScope: serving is set exactly between enter_serve and leave_serve.
ServingInv == serving <=> pc \in Inside

\* stop() clears running before anything else, and reaches close_handles
\* only after it has seen serving clear.
StoppingInv ==
  \A s \in Stoppers :
    /\ stopper[s] \in {"signal", "wait", "asleep", "close"} => ~running
    /\ stopper[s] = "close" => ~serving

\* Nothing runs before start(), and the handles are open while the server
\* runs or serves.
HandlesInv ==
  /\ running => handles = "open"
  /\ serving => handles = "open"
  /\ pc = "unborn" => ~running /\ \A s \in Stoppers : stopper[s] = "idle"

\* The part of TypeOK the argument needs.
ControlType ==
  /\ running \in BOOLEAN /\ serving \in BOOLEAN
  /\ DOMAIN stopper = Stoppers

StopInv == ControlType /\ ServingInv /\ StoppingInv /\ HandlesInv

\* Nobody runs at first.
LEMMA InitStopInv == Init => StopInv
BY DEF Init, StopInv, ControlType, ServingInv, StoppingInv, HandlesInv, Inside,
       InPipe

\* A step that moves the serving thread inside the pipe, and nothing else.
LEMMA InsidePreserves ==
  ASSUME StopInv, ServerFrame, pc \in Inside, pc' \in Inside
  PROVE  StopInv'
BY DEF ServerFrame, serveVars, StopInv, ControlType, ServingInv, StoppingInv,
       HandlesInv, Inside, InPipe

\* Everything the serving thread does preserves the invariant.
LEMMA ServePreserves == ASSUME StopInv, Serve PROVE StopInv'
<1>1. CASE enter_serve
  <2>1. CASE running
    <3>1. /\ serving' = TRUE /\ pc' = "connect"
          /\ UNCHANGED <<running, handles, stopper>>
      BY <1>1, <2>1 DEF enter_serve
    <3>2. pc' \in Inside /\ pc' # "unborn"
      BY <3>1 DEF Inside, InPipe
    <3>3. QED
      BY <2>1, <3>1, <3>2 DEF StopInv, ControlType, ServingInv, StoppingInv,
                              HandlesInv
  <2>2. CASE ~running
    <3>1. serving' = serving /\ pc' = "exited" /\ UNCHANGED <<running, handles, stopper>>
      BY <1>1, <2>2 DEF enter_serve
    <3>2. pc \notin Inside /\ pc' \notin Inside /\ pc' # "unborn"
      BY <1>1, <3>1 DEF enter_serve, Inside, InPipe
    <3>3. QED
      BY <3>1, <3>2 DEF StopInv, ControlType, ServingInv, StoppingInv, HandlesInv
  <2>3. QED
    BY <2>1, <2>2
<1>2. CASE leave_serve
  <2>1. CASE pc = "leave"
    <3>1. serving' = FALSE /\ pc' = "notify" /\ UNCHANGED <<running, handles, stopper>>
      BY <1>2, <2>1 DEF leave_serve
    <3>2. pc' \notin Inside /\ pc' # "unborn"
      BY <3>1 DEF Inside, InPipe
    <3>3. QED
      BY <3>1, <3>2 DEF StopInv, ControlType, ServingInv, StoppingInv, HandlesInv
  <2>2. CASE pc = "notify"
    <3>1. /\ stopper' = [s \in Stoppers |->
                           IF stopper[s] = "asleep" THEN "wait" ELSE stopper[s]]
          /\ pc' \in {"enter", "exited"} /\ UNCHANGED <<running, serving, handles>>
      BY <1>2, <2>2 DEF leave_serve
    <3>2. pc \notin Inside /\ pc' \notin Inside /\ pc' # "unborn"
      BY <2>2, <3>1 DEF Inside, InPipe
    <3>3. QED
      BY <3>1, <3>2 DEF StopInv, ControlType, ServingInv, StoppingInv, HandlesInv
  <2>3. QED
    BY <1>2, <2>1, <2>2 DEF leave_serve
<1>3. CASE connect_client \/ accepted \/ serve_session
           \/ apply \/ set_codec_id \/ set_codec_config
           \/ DisconnectNamedPipe \/ handle_message \/ handle_set_codec
           \/ write_message \/ await_io_Cancelled \/ io_Broken
  <2>1. ServerFrame
    BY <1>3 DEF connect_client, accepted, serve_session, apply, set_codec_id, set_codec_config,
       DisconnectNamedPipe, handle_message, handle_set_codec, write_message,
       await_io_Cancelled, io_Broken
  <2>2. pc \in Inside
    BY <1>3 DEF connect_client, accepted, serve_session, apply, set_codec_id,
       set_codec_config, Inside, InPipe,
       DisconnectNamedPipe, handle_message, handle_set_codec, write_message,
       await_io_Cancelled, io_Broken
  <2>3. pc' \in Inside
    BY <1>3 DEF connect_client, accepted, serve_session, apply, set_codec_id,
       set_codec_config, Inside, InPipe,
       DisconnectNamedPipe, handle_message, handle_set_codec, write_message,
       await_io_Cancelled, io_Broken
  <2>4. QED
    BY <2>1, <2>2, <2>3, InsidePreserves
<1>4. QED
  BY <1>1, <1>2, <1>3 DEF Serve

\* Every step of a stop() preserves it: close_handles runs with the server
\* stopped and nobody inside.
LEMMA StopPreserves ==
  ASSUME StopInv, NEW s \in Stoppers, Stop(s)
  PROVE  StopInv'
<1> USE DEF StopInv, ControlType, ServingInv, StoppingInv, HandlesInv
<1>1. CASE stop(s)
  BY <1>1 DEF stop
<1>2. CASE SetStopEvent(s)
  BY <1>2 DEF SetStopEvent
<1>3. CASE wait_until_idle(s)
  BY <1>3 DEF wait_until_idle, serveVars
<1>4. CASE close_handles(s)
  BY <1>4 DEF close_handles
<1>5. QED
  BY <1>1, <1>2, <1>3, <1>4 DEF Stop

\* The inductive step.
LEMMA NextStopInv == StopInv /\ [Next]_vars => StopInv'
<1> SUFFICES ASSUME StopInv, [Next]_vars PROVE StopInv'
  OBVIOUS
<1>1. CASE start
  BY <1>1 DEF start, StopInv, ControlType, ServingInv, StoppingInv, HandlesInv,
              Inside, InPipe
<1>2. CASE Serve
  BY <1>2, ServePreserves
<1>3. ASSUME NEW s \in Stoppers, Stop(s) PROVE StopInv'
  BY <1>3, StopPreserves
<1>4. CASE Client \/ UNCHANGED vars
  <2>1. UNCHANGED <<serveVars, pc, stopper>>
    BY <1>4 DEF Client, ClientConnects, ClientAsks, ClientSendsPayload,
       ClientReads, ClientCloses, ClientFrame, vars
  <2>2. QED
    BY <2>1 DEF serveVars, StopInv, ControlType, ServingInv, StoppingInv,
       HandlesInv, Inside, InPipe
<1>5. QED
  BY <1>1, <1>2, <1>3, <1>4 DEF Next

\* IpcServer::stop: the serving thread never uses the pipe or its events
\* after they were closed, for any number of threads calling stop().
THEOREM HandlesSafe == Spec => []HandlesOpenInUse
<1>1. StopInv => HandlesOpenInUse
  BY DEF StopInv, ServingInv, HandlesInv, HandlesOpenInUse, Inside
<1>2. QED
  BY <1>1, InitStopInv, NextStopInv, PTL DEF Spec

-----------------------------------------------------------------------------
(***************************************************************************)
(* What is in the pipe, and what the two ends make of it.                  *)
(***************************************************************************)
\* The client is there; the labels at which the server talks to it.
Live    == client \in {"ready", "body", "await"}
Writing == {"write_header", "write_payload"}
Busy    == {"payload", "apply", "driver", "disconnect"} \cup Writing
Talking == {"session", "header"} \cup Busy

\* The parts of its request that the client has written.
Sent ==
  CASE client = "body"  -> 1
    [] client = "await" -> IF asked.size = "none" THEN 1 ELSE 2
    [] OTHER            -> 0

\* Types, that there is a reply to write, and a codec to ask the driver for.
TypeInv ==
  /\ TypeOK
  /\ pc \in Writing => reply \in Replies
  /\ pc = "driver" => hdr.target \in Codecs

\* A client is only there on a connected pipe, and a pipe that is not
\* connected is empty.
PipeInv ==
  /\ Live => pipe = "connected"
  /\ pipe = "connected" => client # "out"
  /\ pipe # "connected" => pc \notin Talking /\ toServer = << >> /\ toClient = << >>

\* Nothing in the pipe belongs to another request than the client's.
ContentInv ==
  Live =>
    /\ \A i \in DOMAIN toServer : toServer[i].msg = asked
    /\ \A i \in DOMAIN toClient : toClient[i].msg.type = ReplyTo(asked.type)
    /\ Len(toClient) <= Whole(asked.type)
    /\ toClient # << >> => client = "await" /\ toServer = << >>
    /\ toServer # << >> => client # "ready"
    /\ client = "body" => asked.size # "none"

\* Where the server is in the request of a client that is there: it has read
\* nothing of it or answered all of it, or it is at it.
StageInv ==
  Live =>
    /\ pc \notin Busy =>
         \/ Len(toServer) = Sent /\ toClient = << >>
         \/ client = "await" /\ toServer = << >> /\ Len(toClient) = Whole(asked.type)
    /\ pc \in Busy \ {"disconnect"} => hdr = asked
    /\ pc = "payload" =>
         /\ hdr.type = "SetCodec" /\ hdr.size # "none"
         /\ client # "ready" /\ Len(toServer) = Sent - 1 /\ toClient = << >>
    /\ pc \in {"apply", "driver"} \cup Writing => client = "await" /\ toServer = << >>
    /\ pc \in {"apply", "driver"} => hdr.type = "SetCodec" /\ toClient = << >>
    /\ pc \in Writing => reply.type = ReplyTo(hdr.type)
    /\ pc = "write_header" => toClient = << >>
    /\ pc = "write_payload" => Len(toClient) = 1 /\ reply.type # "Pong"

SessionInv == TypeInv /\ PipeInv /\ ContentInv /\ StageInv

\* Nothing is in the pipe at first.
LEMMA InitSessionInv == Init => SessionInv
<1> SUFFICES ASSUME Init PROVE SessionInv
  OBVIOUS
<1>1. TypeInv
  <2>1. hdr \in Requests /\ asked \in Requests
    BY DEF Init, Idle, Requests
  <2>2. stopper \in [Stoppers ->
          {"idle", "signal", "wait", "asleep", "close", "done"}]
    BY DEF Init
  <2>3. toServer \in Seq([part : {"header", "payload"}, msg : Requests])
        /\ toClient \in Seq([part : {"header", "payload"}, msg : Replies])
    BY DEF Init
  <2>4. sessions \in 0..MaxSessions
    BY ConstantAssumption DEF Init
  <2>5. QED
    BY <2>1, <2>2, <2>3, <2>4, ConstantAssumption
    DEF Init, TypeInv, TypeOK, Writing, InPipe
<1>2. PipeInv /\ ContentInv /\ StageInv
  BY DEF Init, PipeInv, ContentInv, StageInv, Live, Talking, Busy, Writing
<1>3. QED
  BY <1>1, <1>2 DEF SessionInv

\* Reading takes the first element of what is there.
LEMMA HeadTail ==
  ASSUME NEW S, NEW q \in Seq(S), q # << >>
  PROVE  /\ Head(q) = q[1] /\ Head(q) \in S
         /\ Tail(q) \in Seq(S) /\ Len(Tail(q)) = Len(q) - 1
         /\ \A i \in DOMAIN Tail(q) : i + 1 \in DOMAIN q /\ Tail(q)[i] = q[i + 1]
OBVIOUS

\* Writing adds one at the end.
LEMMA Appended ==
  ASSUME NEW S, NEW q \in Seq(S), NEW e \in S
  PROVE  /\ Append(q, e) \in Seq(S) /\ Len(Append(q, e)) = Len(q) + 1
         /\ DOMAIN Append(q, e) = 1..(Len(q) + 1) /\ DOMAIN q = 1..Len(q)
         /\ \A i \in 1..Len(q) : Append(q, e)[i] = q[i]
         /\ Append(q, e)[Len(q) + 1] = e
OBVIOUS

\* An element of a sequence has its type.
LEMMA ElementOf == ASSUME NEW S, NEW q \in Seq(S), NEW i \in DOMAIN q PROVE q[i] \in S
OBVIOUS

\* What the server makes up as a reply is one.
LEMMA ReplyIsReply ==
  \A t \in ReplyTypes : \A ok \in BOOLEAN : [type |-> t, ok |-> ok] \in Replies
BY DEF Replies

\* What is read is one of the parts that were written.
LEMMA Received ==
  ASSUME TypeOK, toServer # << >>
  PROVE  /\ Head(toServer) = toServer[1] /\ Head(toServer).msg \in Requests
         /\ Tail(toServer) \in Seq([part : {"header", "payload"}, msg : Requests])
         /\ Len(Tail(toServer)) = Len(toServer) - 1
         /\ \A i \in DOMAIN Tail(toServer) : Tail(toServer)[i] = toServer[i + 1]
<1> DEFINE Part == [part : {"header", "payload"}, msg : Requests]
<1>1. toServer \in Seq(Part)
  BY DEF TypeOK
<1>2. /\ Head(toServer) = toServer[1] /\ Head(toServer) \in Part
      /\ Tail(toServer) \in Seq(Part) /\ Len(Tail(toServer)) = Len(toServer) - 1
      /\ \A i \in DOMAIN Tail(toServer) : Tail(toServer)[i] = toServer[i + 1]
  <2> HIDE DEF Part
  <2>1. QED
    BY <1>1, HeadTail
<1>3. Head(toServer).msg \in Requests
  BY <1>2
<1>4. QED
  BY <1>2, <1>3

\* The labels a step without a message leads to.
Steps == {"connect", "accept", "header", "disconnect", "session", "enter", "leave", "notify",
          "exited"}

\* A step that touches no message and writes none keeps the types.
LEMMA ControlMoves ==
  ASSUME TypeInv,
         UNCHANGED <<running, stop_event, handles, workVars>>,
         UNCHANGED <<client, asked, toServer, toClient, sessions>>,
         serving' \in BOOLEAN, result' \in BOOLEAN, pc' \in Steps,
         stopper' \in [Stoppers -> {"idle", "signal", "wait", "asleep", "close", "done"}],
         pipe' \in {"listening", "connected", "disconnected"}
  PROVE  TypeInv'
<1>1. pc' \in InPipe \cup {"unborn", "enter", "session", "leave", "notify", "exited"}
      /\ pc' \notin Writing /\ pc' # "driver"
  BY DEF Steps, InPipe, Writing
<1>2. UNCHANGED <<hdr, reply, codec_id, driverCodec>>
  BY DEF workVars
<1>3. QED
  BY <1>1, <1>2, Zenon DEF TypeInv, TypeOK

\* The steps of the serving thread keep the types.
LEMMA ServeTypes == ASSUME TypeInv, Serve PROVE TypeInv'
<1> USE DEF TypeInv, TypeOK, ServerFrame, serveVars, workVars, pipeVars, InPipe, Writing
<1>0. /\ serving \in BOOLEAN /\ result \in BOOLEAN
      /\ pipe \in {"listening", "connected", "disconnected"}
      /\ stopper \in [Stoppers -> {"idle", "signal", "wait", "asleep", "close", "done"}]
  BY Zenon DEF TypeInv, TypeOK
<1>1. CASE enter_serve
  <2> HIDE DEF TypeInv
  <2>1. pc' \in Steps /\ serving' \in {serving, TRUE}
    BY <1>1 DEF enter_serve, Steps
  <2>2. UNCHANGED <<running, stop_event, handles, workVars, pipe, result, stopper,
                    client, asked, toServer, toClient, sessions>>
    BY <1>1, Zenon DEF enter_serve, pipeVars
  <2>3. QED
    BY <1>0, <2>1, <2>2, ControlMoves
<1>2. CASE leave_serve
  <2> HIDE DEF TypeInv
  <2>1. pc' \in Steps /\ serving' \in {serving, FALSE}
    BY <1>2 DEF leave_serve, Steps
  <2>2. stopper' \in [Stoppers -> {"idle", "signal", "wait", "asleep", "close", "done"}]
    BY <1>0, <1>2 DEF leave_serve
  <2>3. UNCHANGED <<running, stop_event, handles, workVars, pipe, result,
                    client, asked, toServer, toClient, sessions>>
    BY <1>2, Zenon DEF leave_serve, pipeVars
  <2>4. QED
    BY <1>0, <2>1, <2>2, <2>3, ControlMoves
<1>3. CASE connect_client
  <2> HIDE DEF TypeInv
  <2>1. /\ pc' \in Steps /\ result' \in {result, FALSE}
        /\ pipe' \in {"listening", "connected", "disconnected"}
    BY <1>0, <1>3 DEF connect_client, Steps
  <2>2. UNCHANGED <<running, stop_event, handles, workVars, serving, stopper,
                    client, asked, toServer, toClient, sessions>>
    BY <1>3, Zenon DEF connect_client, ServerFrame, serveVars
  <2>3. QED
    BY <1>0, <2>1, <2>2, ControlMoves
<1>4. CASE accepted \/ serve_session
  BY <1>4 DEF accepted, serve_session
<1>5. CASE handle_message
  <2>1. hdr' \in Requests /\ toServer' \in Seq([part : {"header", "payload"}, msg : Requests])
    BY <1>5, Received DEF handle_message
  <2>2. /\ pc' \in InPipe /\ reply' \in Replies \cup {NoReply}
        /\ pc' \in Writing => reply' \in Replies
    <3>1. CASE hdr'.type = "Ping"
      BY <1>5, <3>1, ReplyIsReply DEF handle_message, ReplyTypes
    <3>2. CASE hdr'.type = "GetStatus"
      BY <1>5, <3>2, ReplyIsReply DEF handle_message, ReplyTypes
    <3>3. CASE hdr'.type = "SetCodec"
      BY <1>5, <3>3 DEF handle_message
    <3>4. CASE hdr'.type \notin {"Ping", "GetStatus", "SetCodec"}
      BY <1>5, <3>4 DEF handle_message
    <3>5. QED
      BY <3>1, <3>2, <3>3, <3>4
  <2>3. QED
    BY <1>5, <2>1, <2>2 DEF handle_message
<1>6. CASE handle_set_codec
  BY <1>6, Received DEF handle_set_codec
<1>7. CASE apply
  <2>1. reply' \in Replies
    BY <1>7 DEF apply, Replies, ReplyTypes
  <2>2. QED
    BY <1>7, <2>1 DEF apply
<1>8. CASE set_codec_id
  BY <1>8 DEF set_codec_id, IsSwitch
<1>9. CASE set_codec_config
  <2>1. /\ UNCHANGED <<running, serving, stop_event, handles, stopper, hdr, codec_id, pipe,
                       client, asked, toServer, toClient, sessions, result>>
        /\ pc = "driver" /\ pc' = "write_header"
    BY <1>9 DEF set_codec_config
  <2>2. PICK ok \in BOOLEAN : reply' = [type |-> "CodecAck", ok |-> ok]
    BY <1>9, Zenon DEF set_codec_config
  <2>3. reply' \in Replies
    BY <2>2, ReplyIsReply DEF ReplyTypes
  <2>4. driverCodec' \in {hdr.target, driverCodec}
    BY <1>9 DEF set_codec_config
  <2>5. driverCodec' \in Codecs
    BY <2>1, <2>4
  <2>6. QED
    BY <2>1, <2>3, <2>5
<1>10. CASE write_message
  <2>1. toClient' \in Seq([part : {"header", "payload"}, msg : Replies])
    BY <1>10 DEF write_message
  <2>2. QED
    BY <1>10, <2>1 DEF write_message
<1>11. CASE DisconnectNamedPipe
  BY <1>11 DEF DisconnectNamedPipe
<1>12. CASE await_io_Cancelled \/ io_Broken
  <2> HIDE DEF TypeInv
  <2>1. pc' \in Steps /\ result' \in {result, FALSE}
    BY <1>12 DEF await_io_Cancelled, io_Broken, Steps
  <2>2. UNCHANGED <<running, stop_event, handles, workVars, serving, stopper, pipe,
                    client, asked, toServer, toClient, sessions>>
    BY <1>12, Zenon DEF await_io_Cancelled, io_Broken, ServerFrame, serveVars, pipeVars
  <2>3. QED
    BY <1>0, <2>1, <2>2, ControlMoves
<1>13. QED
  BY <1>1, <1>2, <1>3, <1>4, <1>5, <1>6, <1>7, <1>8, <1>9, <1>10, <1>11, <1>12 DEF Serve

\* So do start(), stop() and the client.
LEMMA OtherTypes ==
  ASSUME TypeInv, start \/ (\E s \in Stoppers : Stop(s)) \/ Client PROVE TypeInv'
<1> USE DEF TypeInv, TypeOK, serveVars, workVars, pipeVars, InPipe, Writing
<1>1. CASE start
  BY <1>1 DEF start
<1>2. ASSUME NEW s \in Stoppers, Stop(s) PROVE TypeInv'
  <2>1. CASE stop(s)
    <3>1. stopper' \in [Stoppers ->
            {"idle", "signal", "wait", "asleep", "close", "done"}]
      BY <2>1 DEF stop
    <3>2. running' \in BOOLEAN
          /\ UNCHANGED <<serving, stop_event, handles, workVars, pipeVars, pc, result>>
      BY <2>1 DEF stop
    <3>3. QED
      BY <3>1, <3>2
  <2>2. CASE SetStopEvent(s) \/ wait_until_idle(s)
    <3>1. stopper' \in [Stoppers ->
            {"idle", "signal", "wait", "asleep", "close", "done"}]
      BY <2>2 DEF SetStopEvent, wait_until_idle
    <3>2. stop_event' \in BOOLEAN
          /\ UNCHANGED <<running, serving, handles, workVars, pipeVars, pc, result>>
      BY <2>2 DEF SetStopEvent, wait_until_idle
    <3>3. QED
      BY <3>1, <3>2
  <2>3. CASE close_handles(s)
    BY <2>3 DEF close_handles
  <2>4. QED
    BY <1>2, <2>1, <2>2, <2>3 DEF Stop
<1>3. CASE Client
  <2> USE DEF ClientFrame
  <2>1. CASE ClientConnects
    BY <2>1, ConstantAssumption DEF ClientConnects
  <2>2. CASE ClientAsks
    BY <2>2 DEF ClientAsks
  <2>3. CASE ClientSendsPayload
    BY <2>3 DEF ClientSendsPayload
  <2>4. CASE ClientReads
    BY <2>4 DEF ClientReads
  <2>5. CASE ClientCloses
    BY <2>5 DEF ClientCloses
  <2>6. QED
    BY <1>3, <2>1, <2>2, <2>3, <2>4, <2>5 DEF Client
<1>4. QED
  BY <1>1, <1>2, <1>3

\* The steps of the serving thread keep the pipe in order.
LEMMA ServePipe ==
  ASSUME SessionInv, StopInv, Serve
  PROVE  PipeInv' /\ ContentInv' /\ StageInv'
<1> USE DEF SessionInv, TypeInv, PipeInv, ContentInv, StageInv, Live, Talking, Busy, Writing,
            ServerFrame, serveVars, workVars, pipeVars, Sent
<1>1. CASE enter_serve
  BY <1>1 DEF enter_serve
<1>2. CASE leave_serve
  BY <1>2 DEF leave_serve
<1>3. CASE connect_client
  BY <1>3 DEF connect_client
<1>4. CASE accepted \/ serve_session
  BY <1>4 DEF accepted, serve_session
<1>5. CASE handle_message
  <2>1. /\ toServer # << >> /\ Head(toServer) = toServer[1] /\ hdr' = toServer[1].msg
        /\ Len(toServer') = Len(toServer) - 1 /\ Len(toServer) >= 1
        /\ toServer' \in Seq([part : {"header", "payload"}, msg : Requests])
        /\ \A i \in DOMAIN toServer' : toServer'[i] = toServer[i + 1]
        /\ \A i \in DOMAIN toServer' : i + 1 \in DOMAIN toServer
        /\ 1 \in DOMAIN toServer
    BY <1>5, Received DEF handle_message, TypeOK
  <2>2. UNCHANGED <<pipe, client, asked, toClient>> /\ pc = "header"
    BY <1>5 DEF handle_message
  <2>3. pc' \in Busy \ {"write_payload"}
    BY <1>5 DEF handle_message
  <2>4. PipeInv' /\ ContentInv'
    BY <2>1, <2>2, <2>3
  <2>5. ASSUME Live PROVE StageInv'
    <3>1. /\ hdr' = asked /\ Len(toServer) = Sent /\ toClient = << >> /\ client # "ready"
      BY <2>1, <2>2, <2>5
    <3>2. toServer' = << >> <=> Sent = 1
      <4>1. toServer' = << >> <=> Len(toServer') = 0
        BY <2>1
      <4>2. Len(toServer) - 1 = 0 <=> Len(toServer) = 1
        BY DEF TypeOK
      <4>3. QED
        BY <2>1, <3>1, <4>1, <4>2
    <3>3. CASE asked.type = "Ping" \/ asked.type = "GetStatus"
      <4>1. asked.size = "none" /\ pc' = "write_header" /\ reply'.type = ReplyTo(asked.type)
        BY <1>5, <3>1, <3>3 DEF handle_message, ReplyTo, TypeOK, Requests
      <4>2. client = "await"
        BY <2>5, <3>1, <4>1
      <4>3. QED
        BY <2>1, <2>2, <3>1, <3>2, <4>1, <4>2
    <3>4. CASE asked.type = "SetCodec"
      <4>1. pc' = IF asked.size = "none" THEN "apply" ELSE "payload"
        BY <1>5, <3>1, <3>4 DEF handle_message
      <4>2. QED
        BY <2>1, <2>2, <3>1, <3>2, <3>4, <4>1
    <3>5. CASE asked.type \notin {"Ping", "GetStatus", "SetCodec"}
      <4>1. pc' = "disconnect"
        BY <1>5, <3>1, <3>5 DEF handle_message
      <4>2. QED
        BY <4>1
    <3>6. QED
      BY <3>3, <3>4, <3>5
  <2>6. QED
    BY <2>2, <2>4, <2>5
<1>6. CASE handle_set_codec
  BY <1>6, Received DEF handle_set_codec
<1>7. CASE apply \/ set_codec_id \/ set_codec_config
  <2>1. /\ pc \in {"apply", "driver"} /\ pc' \in {"driver", "write_header"}
        /\ UNCHANGED <<pipe, client, asked, toServer, toClient, hdr>>
    BY <1>7 DEF apply, set_codec_id, set_codec_config
  <2>2. pc' = "write_header" => reply'.type = "CodecAck"
    <3>1. CASE apply
      BY <3>1 DEF apply
    <3>2. CASE set_codec_id
      BY <3>2 DEF set_codec_id
    <3>3. CASE set_codec_config
      <4>1. PICK ok \in BOOLEAN : reply' = [type |-> "CodecAck", ok |-> ok]
        BY <3>3, Zenon DEF set_codec_config
      <4>2. QED
        BY <4>1
    <3>4. QED
      BY <1>7, <3>1, <3>2, <3>3
  <2>3. QED
    BY <2>1, <2>2 DEF ReplyTo
<1>8. CASE write_message
  <2>1. /\ Len(toClient') = Len(toClient) + 1 /\ Len(toClient) \in Nat
        /\ DOMAIN toClient' = 1..(Len(toClient) + 1) /\ DOMAIN toClient = 1..Len(toClient)
        /\ \A i \in 1..Len(toClient) : toClient'[i] = toClient[i]
        /\ toClient'[Len(toClient) + 1].msg = reply
    <3> DEFINE part == [part |-> IF pc = "write_header" THEN "header" ELSE "payload",
                        msg |-> reply]
    <3>1. toClient' = Append(toClient, part) /\ part.msg = reply
      BY <1>8 DEF write_message
    <3>2. part \in [part : {"header", "payload"}, msg : Replies]
      BY <1>8 DEF write_message
    <3> HIDE DEF part
    <3>3. QED
      BY <3>1, <3>2, Appended DEF TypeOK
  <2>2. /\ UNCHANGED <<pipe, client, asked, toServer, hdr, reply>> /\ client # "gone"
        /\ pc \in Writing
        /\ pc' = IF pc = "write_header" /\ reply.type # "Pong"
                 THEN "write_payload" ELSE "session"
    BY <1>8 DEF write_message
  <2>3. pipe = "connected" /\ Live
    BY <2>2 DEF TypeOK
  <2>4. Whole(asked.type) = IF reply.type = "Pong" THEN 1 ELSE 2
    BY <2>2, <2>3 DEF Whole, ReplyTo, TypeOK, Requests
  <2>5. toClient = << >> => Len(toClient) = 0
    OBVIOUS
  <2>6. toClient' # << >>
    BY <2>1
  <2>7. QED
    BY <2>1, <2>2, <2>3, <2>4, <2>5, <2>6
<1>9. CASE DisconnectNamedPipe
  BY <1>9 DEF DisconnectNamedPipe
<1>10. CASE await_io_Cancelled \/ io_Broken
  BY <1>10 DEF await_io_Cancelled, io_Broken
<1>11. QED
  BY <1>1, <1>2, <1>3, <1>4, <1>5, <1>6, <1>7, <1>8, <1>9, <1>10 DEF Serve

\* So do start(), stop() and the client.
LEMMA OtherPipe ==
  ASSUME SessionInv, StopInv, start \/ (\E s \in Stoppers : Stop(s)) \/ Client
  PROVE  PipeInv' /\ ContentInv' /\ StageInv'
<1> USE DEF SessionInv, TypeInv, PipeInv, ContentInv, StageInv, Live, Talking, Busy, Writing,
            serveVars, workVars, pipeVars, Sent
<1>1. CASE start
  BY <1>1 DEF start
<1>2. ASSUME NEW s \in Stoppers, Stop(s) PROVE PipeInv' /\ ContentInv' /\ StageInv'
  <2>1. CASE stop(s) \/ SetStopEvent(s) \/ wait_until_idle(s)
    BY <2>1 DEF stop, SetStopEvent, wait_until_idle
  <2>2. CASE close_handles(s)
    BY <2>2 DEF close_handles, StopInv, StoppingInv, ServingInv, Inside, InPipe
  <2>3. QED
    BY <1>2, <2>1, <2>2 DEF Stop
<1>3. CASE Client
  <2> USE DEF ClientFrame
  <2>1. CASE ClientConnects
    BY <2>1 DEF ClientConnects, Whole
  <2>2. CASE ClientAsks
    <3>1. toServer = << >> /\ toClient = << >> /\ Len(toServer) = 0
      BY <2>2 DEF ClientAsks
    <3>2. PICK q \in Requests :
            /\ asked' = q
            /\ toServer' = Append(toServer, [part |-> "header", msg |-> q])
            /\ client' = IF q.size = "none" THEN "await" ELSE "body"
      BY <2>2 DEF ClientAsks
    <3>3. /\ Len(toServer') = 1 /\ DOMAIN toServer' = {1} /\ toServer'[1].msg = q
          /\ toServer' # << >>
      BY <3>1, <3>2
    <3>4. Len(toClient) = 0 /\ DOMAIN toClient = {} /\ Whole(q.type) \in Nat
      BY <3>1 DEF Whole
    <3>5. client = "ready" /\ UNCHANGED <<pipe, toClient, pc, hdr, reply>>
      BY <2>2 DEF ClientAsks
    <3>6. pc \notin Busy \ {"disconnect"} 
      BY <3>5
    <3>7. QED
      BY <3>1, <3>2, <3>3, <3>4, <3>5, <3>6
  <2>3. CASE ClientSendsPayload
    <3> DEFINE part == [part |-> "payload", msg |-> asked]
    <3>1. part \in [part : {"header", "payload"}, msg : Requests] /\ part.msg = asked
      BY DEF TypeOK
    <3>2. /\ client = "body" /\ client' = "await" /\ toServer' = Append(toServer, part)
          /\ UNCHANGED <<pipe, asked, toClient, pc, hdr, reply>>
      BY <2>3 DEF ClientSendsPayload
    <3> HIDE DEF part
    <3>3. /\ Len(toServer') = Len(toServer) + 1 /\ Len(toServer) \in Nat
          /\ DOMAIN toServer' = 1..(Len(toServer) + 1) /\ DOMAIN toServer = 1..Len(toServer)
          /\ \A i \in 1..Len(toServer) : toServer'[i] = toServer[i]
          /\ toServer'[Len(toServer) + 1] = part
      BY <3>1, <3>2, Appended DEF TypeOK
    <3>4. asked.size # "none" /\ toClient = << >>
      BY <3>2
    <3>5. PipeInv' /\ ContentInv'
      BY <3>1, <3>2, <3>3, <3>4
    <3>6. Sent = 1 /\ Sent' = 2 /\ toServer' # << >>
      BY <3>2, <3>3, <3>4 DEF Sent
    <3>7. StageInv'
      BY <3>2, <3>3, <3>4, <3>6
    <3>8. QED
      BY <3>5, <3>7
  <2>4. CASE ClientReads
    <3>1. /\ client = "await" /\ client' = "ready" /\ toClient' = << >>
          /\ Len(toClient) = Whole(asked.type)
          /\ UNCHANGED <<pipe, asked, toServer, pc, hdr, reply>>
      BY <2>4 DEF ClientReads, Whole
    <3>2. toClient # << >> /\ toServer = << >>
      <4>1. Whole(asked.type) \in {1, 2}
        BY DEF Whole
      <4>2. toClient # << >>
        <5> HIDE DEF SessionInv, StopInv
        <5>1. Len(toClient) # 0
          BY <3>1, <4>1
        <5>2. QED
          BY <5>1
      <4>3. Live
        BY <3>1 DEF Live
      <4>4. ContentInv
        BY DEF SessionInv
      <4>5. QED
        <5> HIDE DEF SessionInv, StopInv
        <5>1. QED
          BY <4>2, <4>3, <4>4 DEF ContentInv
    <3>3. pc \notin Busy \ {"disconnect"}
      BY <3>1, <3>2 DEF Whole, ReplyTo, TypeOK, Requests
    <3>4. Len(toServer) = 0 /\ Len(toClient') = 0 /\ Whole(asked.type) \in Nat
      BY <3>1, <3>2 DEF Whole
    <3>5. QED
      BY <3>1, <3>2, <3>3, <3>4
  <2>5. CASE ClientCloses
    BY <2>5 DEF ClientCloses
  <2>6. QED
    BY <1>3, <2>1, <2>2, <2>3, <2>4, <2>5 DEF Client
<1>4. QED
  BY <1>1, <1>2, <1>3

\* The inductive step.
LEMMA NextSessionInv == SessionInv /\ StopInv /\ [Next]_vars => SessionInv'
<1> SUFFICES ASSUME SessionInv, StopInv, [Next]_vars PROVE SessionInv'
  OBVIOUS
<1>1. CASE UNCHANGED vars
  BY <1>1 DEF vars, serveVars, workVars, pipeVars, SessionInv, TypeInv, TypeOK, PipeInv,
     ContentInv, StageInv, Live, Sent, Writing, Busy, Talking
<1>2. CASE Serve
  BY <1>2, ServeTypes, ServePipe DEF SessionInv
<1>3. CASE start \/ (\E s \in Stoppers : Stop(s)) \/ Client
  BY <1>3, OtherTypes, OtherPipe DEF SessionInv
<1>4. QED
  BY <1>1, <1>2, <1>3 DEF Next

\* IpcServer with any client: no session sees a message of another one, and
\* the server is never at a request other than the client's.
THEOREM SessionInvariance == Spec => [](StopInv /\ SessionInv)
BY InitStopInv, NextStopInv, InitSessionInv, NextSessionInv, PTL DEF Spec

\* IpcServer: its state keeps its types, the parts in the pipe included.
THEOREM TypeCorrect == Spec => []TypeOK
<1>1. SessionInv => TypeOK
  BY DEF SessionInv, TypeInv
<1>2. QED
  BY <1>1, SessionInvariance, PTL

\* serve_session, DisconnectNamedPipe: whatever the client finds in the pipe
\* answers the request it is waiting for, for any number of sessions, however
\* they were cut.
THEOREM Paired == Spec => []RepliesPaired
<1>1. SessionInv => RepliesPaired
  BY DEF SessionInv, ContentInv, RepliesPaired, Live
<1>2. QED
  BY <1>1, SessionInvariance, PTL

-----------------------------------------------------------------------------
\* A switch that is acknowledged has been made, at the encoder and at the
\* driver; one that is at the driver has been made at the encoder.
AckInv ==
  /\ AckedSwitchApplied
  /\ pc = "driver" => codec_id = hdr.target

\* Every step keeps this.
LEMMA NextAcked == AckInv /\ [Next]_vars => AckInv'
<1> SUFFICES ASSUME AckInv, [Next]_vars PROVE AckInv'
  OBVIOUS
<1> USE DEF AckInv, AckedSwitchApplied, workVars
<1>1. CASE handle_message
  BY <1>1 DEF handle_message
<1>2. CASE apply
  <2>1. PICK ok \in BOOLEAN : apply_request(ok) /\ reply' = [type |-> "CodecAck", ok |-> ok]
    BY <1>2 DEF apply
  <2>2. hdr' = hdr /\ reply'.ok = ok /\ pc' = "write_header" /\ ~IsSwitch
    BY <1>2, <2>1 DEF apply
  <2>3. QED
    BY <2>1, <2>2, ConstantAssumption DEF apply_request, IsSwitch
<1>3. CASE set_codec_id
  BY <1>3 DEF set_codec_id
<1>4. CASE set_codec_config
  <2>1. PICK ok \in IF HasStream THEN BOOLEAN ELSE {TRUE} :
          /\ driverCodec' \in CASE ~HasStream      -> {driverCodec}
                                [] HasStream /\ ok  -> {hdr.target}
                                [] HasStream /\ ~ok -> {hdr.target, driverCodec}
          /\ reply' = [type |-> "CodecAck", ok |-> ok]
    BY <1>4 DEF set_codec_config
  <2>2. UNCHANGED <<hdr, codec_id>> /\ codec_id = hdr.target /\ pc' = "write_header"
    BY <1>4 DEF set_codec_config
  <2>3. HasStream /\ ok => driverCodec' = hdr.target
    BY <2>1
  <2>4. reply'.ok = ok
    BY <2>1
  <2>5. QED
    BY <2>2, <2>3, <2>4
<1>5. CASE write_message
  BY <1>5 DEF write_message
<1>6. CASE enter_serve \/ leave_serve \/ connect_client \/ accepted \/ serve_session
           \/ DisconnectNamedPipe \/ handle_set_codec \/ await_io_Cancelled \/ io_Broken
  BY <1>6 DEF enter_serve, leave_serve, connect_client, accepted, serve_session,
     DisconnectNamedPipe, handle_set_codec, await_io_Cancelled, io_Broken
<1>7. CASE start \/ (\E s \in Stoppers : Stop(s)) \/ Client \/ UNCHANGED vars
  <2>1. UNCHANGED workVars /\ (pc' = pc \/ pc' \in {"enter", "exited"})
    BY <1>7 DEF start, Stop, stop, SetStopEvent, wait_until_idle, close_handles, Client,
       ClientConnects, ClientAsks, ClientSendsPayload, ClientReads, ClientCloses,
       ClientFrame, vars
  <2>2. QED
    BY <2>1
<1>8. QED
  BY <1>1, <1>2, <1>3, <1>4, <1>5, <1>6, <1>7 DEF Next, Serve

\* handle_set_codec: a positive acknowledgement of a codec switch is on its
\* way only once the encoder and the driver have taken it.
THEOREM AckedApplied == Spec => []AckedSwitchApplied
<1>1. Init => AckInv
  BY DEF Init, AckInv, AckedSwitchApplied
<1>2. AckInv => AckedSwitchApplied
  BY DEF AckInv
<1>3. QED
  BY <1>1, <1>2, NextAcked, PTL DEF Spec

-----------------------------------------------------------------------------
(***************************************************************************)
(* The server implements RequestReply.                                     *)
(***************************************************************************)
\* A step that leaves the mapped state alone.
LEMMA Stutters ==
  ASSUME UNCHANGED <<client, asked, toClient>>
  PROVE  UNCHANGED Session!vars
BY DEF Session!vars, Whole

\* The end of a session, at either side.
LEMMA Loses ==
  ASSUME client' \in {"gone", "out"}, client' = "out" => client = "out", TypeOK
  PROVE  [Session!Next]_(Session!vars)
<1>1. CASE Live
  BY <1>1 DEF Live, Session!Next, Session!Lose
<1>2. CASE ~Live
  BY <1>2 DEF Live, Session!vars, TypeOK
<1>3. QED
  BY <1>1, <1>2

\* Every step of the server and of its client is a step of RequestReply.
LEMMA StepImplements ==
  SessionInv /\ SessionInv' /\ [Next]_vars => [Session!Next]_(Session!vars)
<1> SUFFICES ASSUME SessionInv, SessionInv', [Next]_vars
             PROVE  [Session!Next]_(Session!vars)
  OBVIOUS
<1>1. CASE ClientConnects
  BY <1>1 DEF ClientConnects, SessionInv, PipeInv, Live, Session!Next, Session!Connect
<1>2. CASE ClientAsks
  <2>1. client = "ready" /\ client' \in {"body", "await"} /\ asked' \in Requests
        /\ toClient' = << >>
    BY <1>2 DEF ClientAsks, SessionInv, ContentInv, Live
  <2>2. Len(toClient') # Whole(asked'.type)
    BY <2>1 DEF Whole
  <2>3. Session!Ask
    BY <2>1, <2>2 DEF Session!Ask
  <2>4. QED
    BY <2>3 DEF Session!Next
<1>3. CASE ClientSendsPayload
  <2>1. client = "body" /\ client' = "await" /\ UNCHANGED asked /\ toClient' = << >>
    BY <1>3 DEF ClientSendsPayload, SessionInv, ContentInv, Live
  <2>2. Len(toClient') # Whole(asked'.type)
    BY <2>1 DEF Whole
  <2>3. QED
    BY <2>1, <2>2 DEF Session!vars
<1>4. CASE ClientReads
  <2>1. client = "await" /\ client' = "ready" /\ Len(toClient) = Whole(asked.type)
    BY <1>4 DEF ClientReads, Whole
  <2>2. toClient[1].msg.type # "nothing"
    <3>1. 1 \in DOMAIN toClient
      BY <2>1 DEF Whole, SessionInv, TypeInv, TypeOK
    <3>2. toClient[1].msg \in Replies
      <4>1. toClient[1] \in [part : {"header", "payload"}, msg : Replies]
        BY <3>1, ElementOf DEF SessionInv, TypeInv, TypeOK
      <4>2. QED
        BY <4>1
    <3>3. QED
      BY <3>2 DEF Replies, ReplyTypes
  <2>3. Session!Receive
    BY <2>1, <2>2 DEF Session!Receive
  <2>4. QED
    BY <2>3 DEF Session!Next
<1>5. CASE ClientCloses
  BY <1>5, Loses DEF ClientCloses, SessionInv, TypeInv
<1>6. CASE DisconnectNamedPipe
  BY <1>6, Loses DEF DisconnectNamedPipe, SessionInv, TypeInv
<1>7. ASSUME NEW s \in Stoppers, close_handles(s)
      PROVE  [Session!Next]_(Session!vars)
  BY <1>7, Loses DEF close_handles, SessionInv, TypeInv
<1>8. CASE write_message
  <2>1. /\ client # "gone" /\ UNCHANGED <<client, asked>> /\ pc \in Writing
        /\ toClient' = Append(toClient,
             [part |-> IF pc = "write_header" THEN "header" ELSE "payload", msg |-> reply])
    BY <1>8 DEF write_message, pipeVars, Writing
  <2>2. Live /\ client = "await" /\ toClient \in Seq([part : {"header", "payload"}, msg : Replies])
    BY <2>1 DEF SessionInv, TypeInv, TypeOK, PipeInv, StageInv, Live, Talking, Busy, Writing
  <2>3. /\ Len(toClient') = Len(toClient) + 1 /\ Len(toClient') <= Whole(asked.type)
        /\ Len(toClient) \in Nat /\ 1 \in DOMAIN toClient'
        /\ toClient'[1].msg.type = ReplyTo(asked.type)
    <3>1. Len(toClient') = Len(toClient) + 1 /\ Len(toClient) \in Nat /\ 1 \in DOMAIN toClient'
      BY <2>1, <2>2
    <3>2. QED
      BY <2>1, <2>2, <3>1 DEF SessionInv, ContentInv, Live
  <2>4. Whole(asked.type) \in Nat /\ Len(toClient) # Whole(asked.type)
    <3>1. PICK n \in {1, 2} : n = Whole(asked.type)
      BY DEF Whole
    <3>2. PICK l \in Nat : l = Len(toClient) /\ l + 1 <= n
      BY <2>3, <3>1
    <3>3. QED
      BY <3>1, <3>2
  <2>5. CASE Len(toClient') = Whole(asked.type)
    <3>1. asked.type # "nothing"
      BY DEF SessionInv, TypeInv, TypeOK, Requests
    <3>2. Session!Answer
      BY <2>1, <2>2, <2>3, <2>4, <2>5, <3>1 DEF Session!Answer, Live
    <3>3. QED
      BY <3>2 DEF Session!Next
  <2>6. CASE Len(toClient') # Whole(asked.type)
    BY <2>1, <2>2, <2>3, <2>4, <2>6 DEF Session!vars
  <2>7. QED
    BY <2>5, <2>6
<1>9. CASE \/ enter_serve \/ leave_serve \/ connect_client \/ accepted \/ serve_session
           \/ apply \/ set_codec_id \/ set_codec_config
           \/ handle_message \/ handle_set_codec \/ await_io_Cancelled
           \/ io_Broken \/ start \/ UNCHANGED vars
  <2>1. UNCHANGED <<client, asked, toClient>>
    BY <1>9 DEF enter_serve, leave_serve, connect_client, accepted, serve_session, apply,
       set_codec_id, set_codec_config, handle_message, handle_set_codec, await_io_Cancelled, io_Broken, start, vars, pipeVars
  <2>2. QED
    BY <2>1, Stutters
<1>10. ASSUME NEW s \in Stoppers, stop(s) \/ SetStopEvent(s) \/ wait_until_idle(s)
       PROVE  [Session!Next]_(Session!vars)
  <2>1. UNCHANGED <<client, asked, toClient>>
    BY <1>10 DEF stop, SetStopEvent, wait_until_idle, pipeVars
  <2>2. QED
    BY <2>1, Stutters
<1>11. QED
  BY <1>1, <1>2, <1>3, <1>4, <1>5, <1>6, <1>7, <1>8, <1>9, <1>10
  DEF Next, Serve, Stop, Client

\* serve_one, write_message: the server, with any client, keeps to
\* RequestReply: the next message is the whole answer to the request under
\* way, or the session is lost.
THEOREM Implements == Spec => Session!Spec
<1>1. Init => Session!Init
  BY DEF Init, Session!Init
<1>2. QED
  BY <1>1, StepImplements, SessionInvariance, PTL DEF Spec, Session!Spec
=============================================================================

------------------------------ MODULE IpcServer ------------------------------
(***************************************************************************)
(* The named-pipe server of owb-service: the thread that loops over        *)
(* serve_one, the sessions it serves, and stop() running on other threads  *)
(* at any moment.                                                          *)
(*                                                                         *)
(* Each overlapped I/O is one label of the serving thread: it is pending   *)
(* there until the pipe completes it, it fails because the client is gone, *)
(* or stop_event cancels it.  A critical section of serve_mtx is one step. *)
(* The pipe and the client are external: the client is the GUI's session,  *)
(* which has one request under way and may close at any time.              *)
(***************************************************************************)
EXTENDS Naturals, Sequences

CONSTANTS
  Stoppers,     \* threads that may call stop()
  Codecs,       \* the names of kCodecNames
  DefaultCodec, \* the codec the pipeline starts with
  HasAi,        \* an AiPipeline was passed to the constructor
  HasStream,    \* an A2dpStream was passed to the constructor
  MaxSessions   \* bound: clients that connect

ASSUME ConstantAssumption ==
  /\ DefaultCodec \in Codecs
  /\ {"AI", "unknown"} \cap Codecs = {}
  /\ HasAi \in BOOLEAN /\ HasStream \in BOOLEAN
  /\ MaxSessions \in Nat

\* A request: its header type and, for SetCodec, the payload that follows.
\* size is "none" for an empty payload, "other" for a wrong length.
Requests ==
  [type : {"Ping", "GetStatus", "Garbage"}, size : {"none"},
   target : {"unknown"}, key : {"switch"}] \cup
  [type : {"SetCodec"}, size : {"none", "other", "exact"},
   target : Codecs \cup {"AI", "unknown"}, key : {"switch", "param"}]

ReplyTypes == {"Pong", "StatusReply", "CodecAck"}

\* The labels of the serving thread at which it uses the pipe's handles.
InPipe == {"connect", "accept", "header", "payload", "apply", "driver",
           "write_header", "write_payload", "disconnect"}

VARIABLES
  running, serving,       \* as in IpcServer::Impl
  stop_event,             \* the manual-reset event is set
  handles,                \* "none", "open", "closed"
  pc,                     \* label of the serving thread
  result,                 \* what serve_one will return
  hdr,                    \* the request the server is working on
  reply,                  \* the reply it is writing
  stopper,                \* label of each thread in stop()
  pipe,                   \* "listening", "connected", "disconnected" (external)
  client,                 \* "out", "ready", "body", "await", "gone" (external)
  asked,                  \* the request of the client (external)
  toServer, toClient,     \* what is in the pipe (external)
  sessions,               \* clients so far
  codec_id,               \* codec of the controller (StreamPipeline)
  driverCodec             \* preference forwarded to the driver

serveVars == <<running, serving, stop_event, handles>>
workVars  == <<hdr, reply, codec_id, driverCodec>>
pipeVars  == <<pipe, client, asked, toServer, toClient, sessions>>
vars == <<serveVars, workVars, pipeVars, pc, result, stopper>>

NoReply == [type |-> "none", ok |-> FALSE]
Replies == [type : ReplyTypes, ok : BOOLEAN]
Idle == [type |-> "Ping", size |-> "none", target |-> "unknown", key |-> "switch"]

TypeOK ==
  /\ running \in BOOLEAN /\ serving \in BOOLEAN /\ stop_event \in BOOLEAN
  /\ handles \in {"none", "open", "closed"}
  /\ pc \in InPipe \cup {"unborn", "enter", "session", "leave", "notify", "exited"}
  /\ result \in BOOLEAN
  /\ hdr \in Requests /\ asked \in Requests
  /\ reply \in Replies \cup {NoReply}
  /\ stopper \in [Stoppers ->
       {"idle", "signal", "wait", "asleep", "close", "done"}]
  /\ pipe \in {"listening", "connected", "disconnected"}
  /\ client \in {"out", "ready", "body", "await", "gone"}
  /\ toServer \in Seq([part : {"header", "payload"}, msg : Requests])
  /\ toClient \in Seq([part : {"header", "payload"}, msg : Replies])
  /\ sessions \in 0..MaxSessions
  /\ codec_id \in Codecs /\ driverCodec \in Codecs

Init ==
  /\ running = FALSE /\ serving = FALSE /\ stop_event = FALSE
  /\ handles = "none"
  /\ pc = "unborn" /\ result = FALSE
  /\ hdr = Idle /\ reply = NoReply
  /\ stopper = [s \in Stoppers |-> "idle"]
  /\ pipe = "listening" /\ client = "out" /\ asked = Idle
  /\ toServer = << >> /\ toClient = << >> /\ sessions = 0
  /\ codec_id = DefaultCodec /\ driverCodec = DefaultCodec

-----------------------------------------------------------------------------
(***************************************************************************)
(* start() and the thread that runs "while (serve_one()) {}".              *)
(***************************************************************************)
\* A failed start leaves no handle open; the caller then gives up.
start ==
  /\ pc = "unborn"
  /\ \/ /\ handles' = "open" /\ running' = TRUE /\ pc' = "enter"
     \/ /\ handles' = "closed" /\ running' = FALSE /\ pc' = "exited"
  /\ UNCHANGED <<serving, stop_event, workVars, pipeVars, result, stopper>>

\* Mutant: looks at running no more once it has the lock.
enter_serve_NoCheck ==
  /\ pc = "enter"
  /\ serving' = TRUE
  /\ pc' = "connect"
  /\ UNCHANGED <<running, stop_event, handles, workVars, pipeVars, result, stopper>>

enter_serve ==
  /\ pc = "enter"
  /\ IF running THEN serving' = TRUE /\ pc' = "connect"
                ELSE serving' = serving /\ pc' = "exited"
  /\ UNCHANGED <<running, stop_event, handles, workVars, pipeVars, result, stopper>>

\* Mutant: wakes the stopper before it clears serving.
leave_serve_NotifyFirst ==
  /\ \/ /\ pc = "leave"
        /\ stopper' = [s \in Stoppers |->
                         IF stopper[s] = "asleep" THEN "wait" ELSE stopper[s]]
        /\ pc' = "notify" /\ serving' = serving
     \/ /\ pc = "notify"
        /\ serving' = FALSE
        /\ pc' = IF result THEN "enter" ELSE "exited"
        /\ stopper' = stopper
  /\ UNCHANGED <<running, stop_event, handles, workVars, pipeVars, result>>

\* leave_serve: clear the flag under the lock, then notify_all; serve_one
\* returns and the loop goes on or ends.
leave_serve ==
  /\ \/ /\ pc = "leave"
        /\ serving' = FALSE
        /\ pc' = "notify" /\ stopper' = stopper
     \/ /\ pc = "notify"
        /\ stopper' = [s \in Stoppers |->
                         IF stopper[s] = "asleep" THEN "wait" ELSE stopper[s]]
        /\ pc' = IF result THEN "enter" ELSE "exited"
        /\ serving' = serving
  /\ UNCHANGED <<running, stop_event, handles, workVars, pipeVars, result>>

-----------------------------------------------------------------------------
(***************************************************************************)
(* stop().                                                                 *)
(***************************************************************************)
stop(s) ==
  /\ stopper[s] = "idle" /\ pc # "unborn"
  /\ running' = FALSE
  /\ stopper' = [stopper EXCEPT ![s] = IF running THEN "signal" ELSE "done"]
  /\ UNCHANGED <<serving, stop_event, handles, workVars, pipeVars, pc, result>>

SetStopEvent(s) ==
  /\ stopper[s] = "signal"
  /\ stop_event' = TRUE
  /\ stopper' = [stopper EXCEPT ![s] = "wait"]
  /\ UNCHANGED <<running, serving, handles, workVars, pipeVars, pc, result>>

\* The predicate is evaluated with the lock held: sleep, or go on.
wait_until_idle(s) ==
  /\ stopper[s] = "wait"
  /\ stopper' = [stopper EXCEPT ![s] = IF serving THEN "asleep" ELSE "close"]
  /\ UNCHANGED <<serveVars, workVars, pipeVars, pc, result>>

\* Closing the pipe also ends the session of a client that is still there.
close_handles(s) ==
  /\ stopper[s] = "close"
  /\ handles' = "closed"
  /\ stopper' = [stopper EXCEPT ![s] = "done"]
  /\ pipe' = "disconnected"
  /\ client' = IF client = "out" THEN "out" ELSE "gone"
  /\ toServer' = << >> /\ toClient' = << >>
  /\ UNCHANGED <<running, serving, stop_event, workVars, asked, sessions, pc,
                 result>>

-----------------------------------------------------------------------------
(***************************************************************************)
(* connect_client and the session.                                         *)
(***************************************************************************)
ServerFrame == UNCHANGED <<serveVars, stopper>>

\* ConnectNamedPipe: the client is already there, it has come and gone
\* (an error), or the pipe listens and the call is pending.
connect_client ==
  /\ pc = "connect"
  /\ \/ /\ pipe = "connected" /\ client # "gone"
        /\ pc' = "session" /\ UNCHANGED <<pipe, result>>
     \/ /\ pipe = "connected" /\ client = "gone"
        /\ pc' = "leave" /\ result' = FALSE /\ pipe' = pipe
     \/ /\ pipe # "connected"
        /\ pipe' = "listening" /\ pc' = "accept" /\ result' = result
  /\ UNCHANGED <<client, asked, toServer, toClient, sessions, workVars>>
  /\ ServerFrame

accepted ==
  /\ pc = "accept" /\ pipe = "connected"
  /\ pc' = "session"
  /\ UNCHANGED <<workVars, pipeVars, result>>
  /\ ServerFrame

\* await_io, stop_event: the I/O is cancelled.  A pending connect makes
\* serve_one fail, anything else ends the session.
await_io_Cancelled ==
  /\ stop_event
  /\ \/ pc = "accept" /\ pc' = "leave" /\ result' = FALSE
     \/ /\ pc \in {"header", "payload", "write_header", "write_payload"}
        /\ pc' = "disconnect" /\ result' = result
  /\ UNCHANGED <<workVars, pipeVars>>
  /\ ServerFrame

\* A read finds the client's end closed and nothing left, or a write finds
\* it closed.
io_Broken ==
  /\ client = "gone"
  /\ \/ pc \in {"header", "payload"} /\ toServer = << >>
     \/ pc \in {"write_header", "write_payload"}
  /\ pc' = "disconnect"
  /\ UNCHANGED <<workVars, pipeVars, result>>
  /\ ServerFrame

serve_session ==
  /\ pc = "session"
  /\ pc' = IF running THEN "header" ELSE "disconnect"
  /\ UNCHANGED <<workVars, pipeVars, result>>
  /\ ServerFrame

\* The header has been read: handle_message.
handle_message ==
  /\ pc = "header"
  /\ toServer # << >>
  /\ toServer' = Tail(toServer)
  /\ hdr' = Head(toServer).msg
  /\ CASE hdr'.type = "Ping" ->
            pc' = "write_header" /\ reply' = [type |-> "Pong", ok |-> TRUE]
       [] hdr'.type = "GetStatus" ->
            pc' = "write_header" /\ reply' = [type |-> "StatusReply", ok |-> TRUE]
       [] hdr'.type = "SetCodec" ->
            pc' = (IF hdr'.size = "none" THEN "apply" ELSE "payload") /\ reply' = reply
       [] OTHER -> pc' = "disconnect" /\ reply' = reply
  /\ UNCHANGED <<pipe, client, asked, toClient, sessions, codec_id, driverCodec,
                 result>>
  /\ ServerFrame

\* Mutant: a payload of the wrong length is dropped without an answer.
handle_set_codec_NoAck ==
  /\ pc = "payload"
  /\ toServer # << >>
  /\ toServer' = Tail(toServer)
  /\ pc' = IF hdr.size = "exact" THEN "apply" ELSE "session"
  /\ UNCHANGED <<pipe, client, asked, toClient, sessions, workVars, result>>
  /\ ServerFrame

handle_set_codec ==
  /\ pc = "payload"
  /\ toServer # << >>
  /\ toServer' = Tail(toServer)
  /\ pc' = "apply"
  /\ UNCHANGED <<pipe, client, asked, toClient, sessions, workVars, result>>
  /\ ServerFrame

\* The request is a switch to a codec it knows.
IsSwitch == hdr.size = "exact" /\ hdr.target \in Codecs /\ hdr.key = "switch"

\* apply_request returns ok, for anything but a switch.
apply_request(ok) ==
  \/ hdr.size # "exact" /\ ~ok
  \/ hdr.size = "exact" /\ hdr.target = "AI" /\ ok = HasAi
  \/ hdr.size = "exact" /\ hdr.target = "unknown" /\ ~ok
  \/ hdr.size = "exact" /\ hdr.target \in Codecs /\ hdr.key = "param"

apply ==
  /\ pc = "apply" /\ ~IsSwitch
  /\ \E ok \in BOOLEAN :
       /\ apply_request(ok)
       /\ reply' = [type |-> "CodecAck", ok |-> ok]
  /\ pc' = "write_header"
  /\ UNCHANGED <<hdr, codec_id, driverCodec, pipeVars, result>>
  /\ ServerFrame

\* Mutant: switches without looking the name up in kCodecNames.
set_codec_id_AnyName ==
  /\ pc = "apply" /\ hdr.size = "exact" /\ hdr.key = "switch"
  /\ codec_id' = hdr.target /\ pc' = "driver"
  /\ UNCHANGED <<hdr, reply, driverCodec, pipeVars, result>>
  /\ ServerFrame

\* switch_codec: the encoder first.
set_codec_id ==
  /\ pc = "apply" /\ IsSwitch
  /\ codec_id' = hdr.target /\ pc' = "driver"
  /\ UNCHANGED <<hdr, reply, driverCodec, pipeVars, result>>
  /\ ServerFrame

\* Mutant: the driver's refusal is not reported.
set_codec_config_IgnoresDriver ==
  /\ pc = "driver"
  /\ driverCodec' \in {hdr.target, driverCodec}
  /\ reply' = [type |-> "CodecAck", ok |-> TRUE]
  /\ pc' = "write_header"
  /\ UNCHANGED <<hdr, codec_id, pipeVars, result>>
  /\ ServerFrame

\* Then the driver, if there is one.  It may refuse, or not be there, and a
\* refusal may come after it has stored the preference.
set_codec_config ==
  /\ pc = "driver"
  /\ \E ok \in IF HasStream THEN BOOLEAN ELSE {TRUE} :
       /\ driverCodec' \in CASE ~HasStream      -> {driverCodec}
                             [] HasStream /\ ok  -> {hdr.target}
                             [] HasStream /\ ~ok -> {hdr.target, driverCodec}
       /\ reply' = [type |-> "CodecAck", ok |-> ok]
  /\ pc' = "write_header"
  /\ UNCHANGED <<hdr, codec_id, pipeVars, result>>
  /\ ServerFrame

\* write_message: the header, then the payload if there is one.
write_message ==
  /\ pc \in {"write_header", "write_payload"}
  /\ client # "gone"
  /\ toClient' = Append(toClient,
       [part |-> IF pc = "write_header" THEN "header" ELSE "payload", msg |-> reply])
  /\ pc' = IF pc = "write_header" /\ reply.type # "Pong"
           THEN "write_payload" ELSE "session"
  /\ UNCHANGED <<pipe, client, asked, toServer, sessions, workVars, result>>
  /\ ServerFrame

\* Mutant: the pipe is not disconnected, what was left in it stays.
DisconnectNamedPipe_Keeps ==
  /\ pc = "disconnect"
  /\ pipe' = "disconnected" /\ client' = "gone"
  /\ result' = TRUE
  /\ pc' = "leave"
  /\ UNCHANGED <<asked, toServer, toClient, sessions, workVars>>
  /\ ServerFrame

\* The end of serve_session: what the client has not read is lost.
DisconnectNamedPipe ==
  /\ pc = "disconnect"
  /\ pipe' = "disconnected" /\ client' = "gone"
  /\ toServer' = << >> /\ toClient' = << >>
  /\ result' = TRUE
  /\ pc' = "leave"
  /\ UNCHANGED <<asked, sessions, workVars>>
  /\ ServerFrame

-----------------------------------------------------------------------------
(***************************************************************************)
(* The client (external).                                                  *)
(***************************************************************************)
ClientFrame == UNCHANGED <<serveVars, workVars, pc, result, stopper>>

ClientConnects ==
  /\ handles = "open" /\ pipe = "listening"
  /\ sessions < MaxSessions
  /\ pipe' = "connected" /\ client' = "ready" /\ sessions' = sessions + 1
  /\ UNCHANGED <<asked, toServer, toClient>>
  /\ ClientFrame

ClientAsks ==
  /\ client = "ready"
  /\ \E r \in Requests :
       /\ asked' = r
       /\ toServer' = Append(toServer, [part |-> "header", msg |-> r])
       /\ client' = IF r.size = "none" THEN "await" ELSE "body"
  /\ UNCHANGED <<pipe, toClient, sessions>>
  /\ ClientFrame

ClientSendsPayload ==
  /\ client = "body"
  /\ toServer' = Append(toServer, [part |-> "payload", msg |-> asked])
  /\ client' = "await"
  /\ UNCHANGED <<pipe, asked, toClient, sessions>>
  /\ ClientFrame

\* The reply is read once all of it is there.
ClientReads ==
  /\ client = "await"
  /\ Len(toClient) = IF asked.type = "Ping" THEN 1 ELSE 2
  /\ toClient' = << >>
  /\ client' = "ready"
  /\ UNCHANGED <<pipe, asked, toServer, sessions>>
  /\ ClientFrame

ClientCloses ==
  /\ client \in {"ready", "body", "await"}
  /\ client' = "gone"
  /\ UNCHANGED <<pipe, asked, toServer, toClient, sessions>>
  /\ ClientFrame

-----------------------------------------------------------------------------
\* One step of the serving thread; the last four are completions of I/O.
Serve ==
  \/ enter_serve \/ leave_serve
  \/ connect_client \/ accepted
  \/ serve_session \/ DisconnectNamedPipe
  \/ apply \/ set_codec_id \/ set_codec_config
  \/ handle_message \/ handle_set_codec \/ write_message
  \/ await_io_Cancelled \/ io_Broken

Stop(s) ==
  stop(s) \/ SetStopEvent(s) \/ wait_until_idle(s) \/ close_handles(s)

Client ==
  \/ ClientConnects \/ ClientAsks \/ ClientSendsPayload
  \/ ClientReads \/ ClientCloses

Next == start \/ Serve \/ (\E s \in Stoppers : Stop(s)) \/ Client

Spec == Init /\ [][Next]_vars

(***************************************************************************)
(* Fairness: threads that can run do run, a condition variable's waiter    *)
(* and a mutex's are scheduled, the controller and the driver return from  *)
(* their calls, and a client that asked sends and reads the rest.  Nobody  *)
(* has to connect, to ask or to stop.                                      *)
(***************************************************************************)
Fairness ==
  /\ WF_vars(start) /\ WF_vars(Serve)
  /\ \A s \in Stoppers :
       WF_vars(SetStopEvent(s) \/ wait_until_idle(s) \/ close_handles(s))
  /\ WF_vars(ClientSendsPayload) /\ WF_vars(ClientReads)

FairSpec == Spec /\ Fairness

-----------------------------------------------------------------------------
\* IpcServer::stop, serve_one: the serving thread never uses the pipe or its
\* events after some stop() has closed them, however the two interleave.
HandlesOpenInUse == pc \in InPipe => handles = "open"

ReplyTo(type) ==
  CASE type = "Ping" -> "Pong"
    [] type = "GetStatus" -> "StatusReply"
    [] type = "SetCodec" -> "CodecAck"
    [] OTHER -> "none"

\* serve_session, DisconnectNamedPipe: whatever the client finds in the pipe
\* answers the request it is waiting for, across sessions that were cut in
\* the middle of a request or of a reply.
RepliesPaired ==
  client \in {"ready", "body", "await"} =>
    /\ \A i \in DOMAIN toClient : toClient[i].msg.type = ReplyTo(asked.type)
    /\ toClient # << >> => client = "await"
    /\ toServer # << >> => client \in {"body", "await"}

\* handle_set_codec: a positive acknowledgement of a codec switch is only on
\* its way once the encoder, and the driver if there is one, have taken it.
AckedSwitchApplied ==
  /\ pc \in {"write_header", "write_payload"}
  /\ reply.type = "CodecAck" /\ reply.ok
  /\ hdr.target \in Codecs /\ hdr.key = "switch"
  => codec_id = hdr.target /\ (HasStream => driverCodec = hdr.target)

\* IpcServer::stop: it always returns, whatever I/O is pending and whatever
\* the client does.
StopReturns == \A s \in Stoppers : stopper[s] # "idle" ~> stopper[s] = "done"

\* serve_one, write_message: with any client the server is one end of
\* RequestReply.  The next message is the whole answer to the request under
\* way, and a client that waits gets it or loses the session.
Whole(type) == IF type = "Ping" THEN 1 ELSE 2

Session == INSTANCE RequestReply WITH
  Requests <- {r.type : r \in Requests}, None <- "nothing",
  up <- client \in {"ready", "body", "await"},
  request <- IF client \in {"body", "await"} THEN asked.type ELSE "nothing",
  reply <- IF client = "await" /\ Len(toClient) = Whole(asked.type)
           THEN toClient[1].msg.type ELSE "nothing"

ImplementsRequestReply == Session!FairSpec
=============================================================================

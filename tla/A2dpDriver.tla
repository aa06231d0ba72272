----------------------------- MODULE A2dpDriver -----------------------------
(***************************************************************************)
(* The OpenWinBlue kernel driver: its AVDTP signalling state machine, the  *)
(* L2CAP channels it opens through BthPort, the reconnect timer, the two   *)
(* deferred work items and the sequential IOCTL queue.                     *)
(*                                                                         *)
(* Every thread reaches Bluetooth through L2capSubmitBrb, which serialises *)
(* the one shared BrbRequest with BrbLock.  A thread is therefore always   *)
(* at one of the labels in Label, and the BRB it submitted there is        *)
(* waiting for the lock, in flight, or has returned (brb[t].phase).  The   *)
(* code between two BRBs is one step; the indications of BthPort arrive    *)
(* at DISPATCH_LEVEL between any two steps.                                *)
(*                                                                         *)
(* BthPort, the radio link and the remote sink are external: they are      *)
(* modelled from how the driver uses them.  The RTP counters and the AVDTP *)
(* transaction label are left out: no branch of the driver reads them.     *)
(***************************************************************************)
EXTENDS Naturals, Sequences, FiniteSets

CONSTANTS
  Codecs,           \* OWB_CODEC_* identifiers the service may ask for
  Configurable,     \* those of kCodecConfigs: SET_CONFIGURATION can be built
  SBC,              \* the mandatory codec, the fallback of select_codec
  SinkCaps,         \* what the sink may advertise: a set of sets of codecs
  Seids,            \* stream end-point ids of free audio sinks
  Handles,          \* L2CAP channel handles BthPort can hand out
  NULL,             \* handle 0, SEID 0, no configured codec, no packet
  ReconnectWorkers, \* system threads that may run ReconnectWorkItem
  AvdtpWorkers,     \* system threads that may run AvdtpWorkItem
  Faults,           \* what the environment may do: a subset of FaultKinds
  MaxDisconnects,   \* bound: links the remote closes
  MaxSwitches,      \* bound: codec switches the service asks for
  MaxInputs         \* bound: both together

\* "brb":    a BRB fails although its channel is open (radio, memory)
\* "page":   opening the signalling channel fails (link not ready)
\* "reject": the sink rejects a command or has no free audio sink
\* "link":   the remote closes the signalling channel
\* "media":  the remote closes the media channel alone
FaultKinds == {"brb", "page", "reject", "link", "media"}

ASSUME ConstantAssumption ==
  /\ Configurable \subseteq Codecs
  /\ SBC \in Configurable
  /\ SinkCaps \subseteq SUBSET Codecs
  /\ NULL \notin Seids \cup Handles \cup Codecs
  /\ Faults \subseteq FaultKinds
  /\ MaxDisconnects \in Nat
  /\ MaxSwitches \in Nat /\ MaxInputs \in Nat

ASSUME ThreadAssumption ==
  /\ ReconnectWorkers \cap AvdtpWorkers = {}
  /\ {"add", "ioctl"} \cap (ReconnectWorkers \cup AvdtpWorkers) = {}

Threads == {"add", "ioctl"} \cup ReconnectWorkers \cup AvdtpWorkers

ASSUME ThreadNullAssumption == NULL \notin Threads

AvdtpStates == {"Idle", "Connecting", "Discovering", "Configuring",
                "Configured", "Open", "Streaming", "Closing"}

\* The AVDTP commands of the initiator, at the label that sends them.
Commands == {"DISCOVER", "GET_CAPABILITIES", "SET_CONFIGURATION",
             "OPEN", "START", "SUSPEND"}

\* Where a thread can be: idle, EvtDeviceAdd not yet run, inside a BRB, or
\* about to write State = Connecting or to call AvdtpConnect.
Label == Commands \cup
         {"idle", "start", "OPEN_SIGNALING", "CONNECTING", "CONNECT", "OPEN_MEDIA",
          "READ", "SEND_MEDIA"}

VARIABLES
  State,                  \* Avdtp.State
  RemoteSeid,             \* Avdtp.RemoteSeid
  ActiveCodecId,          \* Avdtp.ActiveCodecId
  PendingCodecId,         \* Avdtp.PendingCodecId
  PreferredCodecId,
  SignalingChannelHandle,
  MediaChannelHandle,
  BthReady,               \* BthInterface acquired and RemoteBtAddress known
  PendingRecvLen,         \* TRUE iff the field is not 0
  AvdtpWorkBuf,           \* packet of the last BRB IN
  avdtpQueued,            \* AvdtpWorkItem is in the work queue
  reconnectQueued,        \* ReconnectWorkItem is in the work queue
  BrbLock,                \* holder of the wait lock, or NULL
  pc,                     \* label of each thread
  brb,                    \* BRB of each thread
  sigLive, mediaLive,     \* channels open in BthPort (external)
  tx, rx,                 \* per channel: commands under way, packets to read
  sinkCodec,              \* configuration the sink accepted last (external)
  sinkState,              \* stream state of the sink (external)
  disconnects, switches   \* how often the bounded inputs happened

avdtpVars == <<State, RemoteSeid, ActiveCodecId, PendingCodecId>>
chanVars  == <<SignalingChannelHandle, MediaChannelHandle>>
recvVars  == <<PendingRecvLen, AvdtpWorkBuf, avdtpQueued>>
bthVars   == <<sigLive, mediaLive, tx, rx, sinkCodec, sinkState>>
inputVars == <<PreferredCodecId, disconnects, switches>>
vars == <<avdtpVars, chanVars, recvVars, bthVars, inputVars,
          BthReady, reconnectQueued, BrbLock, pc, brb>>

Packets == [signal : Commands, accept : BOOLEAN,
            seid : Seids \cup {NULL}, caps : SUBSET Codecs]

CommandMsgs == [signal : Commands, codec : Codecs \cup {NULL}]

Brbs == [phase : {"none", "wait", "inflight", "ok", "fail"},
         handle : Handles \cup {NULL}, codec : Codecs \cup {NULL}]

SinkStates == {"idle", "configured", "open", "streaming"}

NoBrb == [phase |-> "none", handle |-> NULL, codec |-> NULL]

TypeOK ==
  /\ State \in AvdtpStates
  /\ RemoteSeid \in Seids \cup {NULL}
  /\ ActiveCodecId \in Codecs /\ PendingCodecId \in Codecs
  /\ PreferredCodecId \in Codecs
  /\ SignalingChannelHandle \in Handles \cup {NULL}
  /\ MediaChannelHandle \in Handles \cup {NULL}
  /\ BthReady \in BOOLEAN /\ PendingRecvLen \in BOOLEAN
  /\ AvdtpWorkBuf \in Packets \cup {NULL}
  /\ avdtpQueued \in BOOLEAN /\ reconnectQueued \in BOOLEAN
  /\ BrbLock \in Threads \cup {NULL}
  /\ pc \in [Threads -> Label]
  /\ brb \in [Threads -> Brbs]
  /\ sigLive \in SUBSET Handles /\ mediaLive \in SUBSET Handles
  /\ tx \in [Handles -> Seq(CommandMsgs)]
  /\ rx \in [Handles -> Seq(Packets)]
  /\ sinkCodec \in Codecs \cup {NULL} /\ sinkState \in SinkStates
  /\ disconnects \in 0..MaxDisconnects /\ switches \in 0..MaxSwitches

-----------------------------------------------------------------------------
(***************************************************************************)
(* Calls.  Enter puts thread t at label l with a BRB that either waits for *)
(* BrbLock or has failed before it was submitted; Return ends the thread's *)
(* callback.                                                               *)
(***************************************************************************)
Enter(t, l, phase, h, c) ==
  /\ pc'  = [pc EXCEPT ![t] = l]
  /\ brb' = [brb EXCEPT ![t] = [phase |-> phase, handle |-> h, codec |-> c]]

\* AvdtpSendCommand on the channel h read from the extension: a closed
\* channel or a missing interface fails before any BRB is submitted.
AvdtpSendCommand(t, signal, h, c) ==
  Enter(t, signal, IF BthReady /\ h # NULL THEN "wait" ELSE "fail", h, c)

\* The code of t goes on at l, outside any BRB.
Continue(t, l) ==
  /\ pc'  = [pc EXCEPT ![t] = l]
  /\ brb' = [brb EXCEPT ![t] = NoBrb]

Return(t) == Continue(t, "idle")

L2capOpenSignalingChannel(t) ==
  IF BthReady THEN Enter(t, "OPEN_SIGNALING", "wait", NULL, NULL) ELSE Return(t)

Returned(t, l, phase) == pc[t] = l /\ brb[t].phase = phase

\* Mutant: no SBC fallback.
select_codec_NoFallback(preferred, caps) ==
  IF preferred \in caps \cap Configurable THEN preferred ELSE NULL

\* Mutant: trusts the sink's list without looking at kCodecConfigs.
select_codec_AnyAdvertised(preferred, caps) ==
  IF preferred \in caps THEN preferred ELSE SBC

select_codec(preferred, caps) ==
  IF preferred \in caps \cap Configurable THEN preferred ELSE SBC

-----------------------------------------------------------------------------
(***************************************************************************)
(* L2capSubmitBrb: take the lock, submit the shared BrbRequest, wait for   *)
(* BthPort to complete it, release the lock.                               *)
(***************************************************************************)
\* Mutant: submits without waiting for the lock.
AcquireBrbLock_NoWait(t) ==
  /\ brb[t].phase = "wait"
  /\ BrbLock' = t
  /\ brb' = [brb EXCEPT ![t].phase = "inflight"]
  /\ UNCHANGED <<avdtpVars, chanVars, recvVars, bthVars, inputVars,
                 BthReady, reconnectQueued, pc>>

AcquireBrbLock(t) ==
  /\ brb[t].phase = "wait"
  /\ BrbLock = NULL
  /\ BrbLock' = t
  /\ brb' = [brb EXCEPT ![t].phase = "inflight"]
  /\ UNCHANGED <<avdtpVars, chanVars, recvVars, bthVars, inputVars,
                 BthReady, reconnectQueued, pc>>

\* Mutant: the error path returns without releasing the lock.
Completes_KeepsLock(t, phase, h) ==
  /\ brb[t].phase = "inflight"
  /\ BrbLock' = IF phase = "fail" THEN BrbLock ELSE NULL
  /\ brb' = [brb EXCEPT ![t].phase = phase, ![t].handle = h]
  /\ UNCHANGED <<avdtpVars, chanVars, PendingRecvLen, avdtpQueued, inputVars,
                 BthReady, reconnectQueued, pc>>

\* The BRB of t completes and t releases the lock.
Completes(t, phase, h) ==
  /\ brb[t].phase = "inflight"
  /\ BrbLock' = NULL
  /\ brb' = [brb EXCEPT ![t].phase = phase, ![t].handle = h]
  /\ UNCHANGED <<avdtpVars, chanVars, PendingRecvLen, avdtpQueued, inputVars,
                 BthReady, reconnectQueued, pc>>

CompleteOpenSignaling(t) ==
  /\ pc[t] = "OPEN_SIGNALING"
  /\ \E h \in Handles \ (sigLive \cup mediaLive) :
       /\ Completes(t, "ok", h)
       /\ sigLive' = sigLive \cup {h}
  /\ UNCHANGED <<mediaLive, tx, rx, sinkCodec, sinkState, AvdtpWorkBuf>>

CompleteOpenMedia(t) ==
  /\ pc[t] = "OPEN_MEDIA"
  /\ \E h \in Handles \ (sigLive \cup mediaLive) :
       /\ Completes(t, "ok", h)
       /\ mediaLive' = mediaLive \cup {h}
  /\ UNCHANGED <<sigLive, tx, rx, sinkCodec, sinkState, AvdtpWorkBuf>>

CompleteSendSignaling(t) ==
  /\ pc[t] \in Commands
  /\ LET h == brb[t].handle IN
       /\ h \in sigLive
       /\ Completes(t, "ok", h)
       /\ tx' = [tx EXCEPT ![h] =
                   Append(@, [signal |-> pc[t], codec |-> brb[t].codec])]
  /\ UNCHANGED <<sigLive, mediaLive, rx, sinkCodec, sinkState, AvdtpWorkBuf>>

\* A read on an open channel stays in flight until there is a packet.
CompleteRead(t) ==
  /\ pc[t] = "READ"
  /\ LET h == brb[t].handle IN
       /\ h \in sigLive
       /\ rx[h] # << >>
       /\ Completes(t, "ok", h)
       /\ AvdtpWorkBuf' = Head(rx[h])
       /\ rx' = [rx EXCEPT ![h] = Tail(@)]
  /\ UNCHANGED <<sigLive, mediaLive, tx, sinkCodec, sinkState>>

CompleteSendMedia(t) ==
  /\ pc[t] = "SEND_MEDIA"
  /\ brb[t].handle \in mediaLive
  /\ Completes(t, "ok", brb[t].handle)
  /\ UNCHANGED <<bthVars, AvdtpWorkBuf>>

\* A BRB fails because its channel is gone, or because the link faults.
BrbFails(t) ==
  /\ \/ "brb" \in Faults
     \/ "page" \in Faults /\ pc[t] = "OPEN_SIGNALING"
     \/ pc[t] \in Commands \cup {"READ"} /\ brb[t].handle \notin sigLive
     \/ pc[t] = "SEND_MEDIA" /\ brb[t].handle \notin mediaLive
     \/ /\ pc[t] \in {"OPEN_SIGNALING", "OPEN_MEDIA"}
        /\ Handles \subseteq sigLive \cup mediaLive
  /\ Completes(t, "fail", brb[t].handle)
  /\ UNCHANGED <<bthVars, AvdtpWorkBuf>>

CompleteBrb(t) ==
  \/ CompleteOpenSignaling(t)
  \/ CompleteOpenMedia(t)
  \/ CompleteSendSignaling(t)
  \/ CompleteRead(t)
  \/ CompleteSendMedia(t)
  \/ BrbFails(t)

-----------------------------------------------------------------------------
(***************************************************************************)
(* EvtDeviceAdd, the reconnect timer and its work item.                    *)
(***************************************************************************)
\* EvtDeviceAdd, once every WDF object is created: it has read the address
\* and the BthPort interface, either of which may be missing, and opens the
\* signalling channel, best-effort.
OwbEvtDeviceAdd ==
  /\ pc["add"] = "start"
  /\ \E ready \in BOOLEAN :
       /\ BthReady' = ready
       /\ IF ready THEN Enter("add", "OPEN_SIGNALING", "wait", NULL, NULL)
                   ELSE Return("add")
  /\ UNCHANGED <<avdtpVars, chanVars, recvVars, bthVars, inputVars,
                 reconnectQueued, BrbLock>>

\* The timer starts, and the IOCTL queue is powered, once EvtDeviceAdd is over.
Added == pc["add"] = "idle"

\* Mutant: waits for the wrong state.
OwbShouldReconnect_Connecting ==
  BthReady /\ SignalingChannelHandle = NULL /\ State = "Connecting"

OwbShouldReconnect ==
  BthReady /\ SignalingChannelHandle = NULL /\ State = "Idle"

\* DISPATCH_LEVEL.  Enqueueing a queued work item has no effect.
OwbReconnectTimer ==
  /\ Added
  /\ OwbShouldReconnect
  /\ reconnectQueued' = TRUE
  /\ UNCHANGED <<avdtpVars, chanVars, recvVars, bthVars, inputVars,
                 BthReady, BrbLock, pc, brb>>

\* Mutant: does not look again at the condition the timer saw.
OwbReconnectWorkCallback_NoRecheck(t) ==
  /\ reconnectQueued
  /\ pc[t] = "idle"
  /\ reconnectQueued' = FALSE
  /\ L2capOpenSignalingChannel(t)
  /\ UNCHANGED <<avdtpVars, chanVars, recvVars, bthVars, inputVars,
                 BthReady, BrbLock>>

\* Mutant: the condition of the early return is inverted.
OwbReconnectWorkCallback_Inverted(t) ==
  /\ reconnectQueued
  /\ pc[t] = "idle"
  /\ reconnectQueued' = FALSE
  /\ IF OwbShouldReconnect THEN UNCHANGED <<pc, brb>>
                           ELSE L2capOpenSignalingChannel(t)
  /\ UNCHANGED <<avdtpVars, chanVars, recvVars, bthVars, inputVars,
                 BthReady, BrbLock>>

OwbReconnectWorkCallback(t) ==
  /\ reconnectQueued
  /\ pc[t] = "idle"
  /\ reconnectQueued' = FALSE
  /\ IF OwbShouldReconnect THEN L2capOpenSignalingChannel(t)
                           ELSE UNCHANGED <<pc, brb>>
  /\ UNCHANGED <<avdtpVars, chanVars, recvVars, bthVars, inputVars,
                 BthReady, BrbLock>>

\* The rest of L2capOpenSignalingChannel: publish the handle, or give up
\* until the next timer tick.  The remote may disconnect before the handle
\* is stored, before State is written and before AvdtpConnect reads either.
OpenSignalingReturns(t) ==
  /\ \/ /\ Returned(t, "OPEN_SIGNALING", "ok")
        /\ SignalingChannelHandle' = brb[t].handle
        /\ Continue(t, "CONNECTING")
     \/ /\ Returned(t, "OPEN_SIGNALING", "fail")
        /\ UNCHANGED SignalingChannelHandle
        /\ Return(t)
  /\ UNCHANGED <<avdtpVars, MediaChannelHandle, recvVars, bthVars, inputVars,
                 BthReady, reconnectQueued, BrbLock>>

SetConnecting(t) ==
  /\ pc[t] = "CONNECTING"
  /\ State' = "Connecting"
  /\ Continue(t, "CONNECT")
  /\ UNCHANGED <<RemoteSeid, ActiveCodecId, PendingCodecId, chanVars, recvVars,
                 bthVars, inputVars, BthReady, reconnectQueued, BrbLock>>

\* Refused in any other state, which a late write of State may have made.
AvdtpConnect(t) ==
  /\ pc[t] = "CONNECT"
  /\ IF State \in {"Idle", "Connecting"}
     THEN AvdtpSendCommand(t, "DISCOVER", SignalingChannelHandle, NULL)
     ELSE Return(t)
  /\ UNCHANGED <<avdtpVars, chanVars, recvVars, bthVars, inputVars,
                 BthReady, reconnectQueued, BrbLock>>

\* The end of AvdtpConnect.
DiscoverReturns(t) ==
  /\ \/ Returned(t, "DISCOVER", "ok") /\ State' = "Discovering"
     \/ Returned(t, "DISCOVER", "fail") /\ State' = State
  /\ Return(t)
  /\ UNCHANGED <<RemoteSeid, ActiveCodecId, PendingCodecId, chanVars, recvVars,
                 bthVars, inputVars, BthReady, reconnectQueued, BrbLock>>

-----------------------------------------------------------------------------
(***************************************************************************)
(* The AVDTP work item: read one packet, run its handler.                  *)
(***************************************************************************)
OwbAvdtpWorkCallback(t) ==
  /\ avdtpQueued
  /\ pc[t] = "idle"
  /\ avdtpQueued' = FALSE
  /\ IF BthReady /\ PendingRecvLen
     THEN Enter(t, "READ", "wait", SignalingChannelHandle, NULL)
     ELSE UNCHANGED <<pc, brb>>
  /\ PendingRecvLen' = (PendingRecvLen /\ ~BthReady)
  /\ UNCHANGED <<avdtpVars, chanVars, AvdtpWorkBuf, bthVars, inputVars,
                 BthReady, reconnectQueued, BrbLock>>

\* What no handler touches.
HandlerFrame == UNCHANGED <<recvVars, bthVars, inputVars, BthReady,
                            reconnectQueued, BrbLock>>

Accepted(t, signal) ==
  /\ Returned(t, "READ", "ok")
  /\ AvdtpWorkBuf.accept
  /\ AvdtpWorkBuf.signal = signal

\* A failed read, a reject, a response without a handler, and a DISCOVER
\* response without a free audio sink all end the callback.
ReadDropped(t) ==
  /\ \/ Returned(t, "READ", "fail")
     \/ Returned(t, "READ", "ok") /\ ~AvdtpWorkBuf.accept
     \/ Accepted(t, "SUSPEND")
     \/ Accepted(t, "DISCOVER") /\ AvdtpWorkBuf.seid = NULL
  /\ Return(t)
  /\ UNCHANGED <<avdtpVars, chanVars>>
  /\ HandlerFrame

HandleDiscoverResponse(t) ==
  /\ Accepted(t, "DISCOVER")
  /\ AvdtpWorkBuf.seid # NULL
  /\ RemoteSeid' = AvdtpWorkBuf.seid
  /\ State' = "Configuring"
  /\ AvdtpSendCommand(t, "GET_CAPABILITIES", SignalingChannelHandle, NULL)
  /\ UNCHANGED <<ActiveCodecId, PendingCodecId, chanVars>>
  /\ HandlerFrame

HandleGetCapabilitiesResponse(t) ==
  /\ Accepted(t, "GET_CAPABILITIES")
  /\ AvdtpSendCommand(t, "SET_CONFIGURATION", SignalingChannelHandle,
                      select_codec(PreferredCodecId, AvdtpWorkBuf.caps))
  /\ UNCHANGED <<avdtpVars, chanVars>>
  /\ HandlerFrame

SetConfigurationReturns(t) ==
  /\ \/ /\ Returned(t, "SET_CONFIGURATION", "ok")
        /\ PendingCodecId' = brb[t].codec
        /\ State' = "Configured"
     \/ /\ Returned(t, "SET_CONFIGURATION", "fail")
        /\ UNCHANGED <<PendingCodecId, State>>
  /\ Return(t)
  /\ UNCHANGED <<RemoteSeid, ActiveCodecId, chanVars>>
  /\ HandlerFrame

\* Mutant: activates the preference instead of what was sent.
HandleSetConfigurationResponse_Preferred(t) ==
  /\ Accepted(t, "SET_CONFIGURATION")
  /\ ActiveCodecId' = select_codec(PreferredCodecId, Codecs)
  /\ AvdtpSendCommand(t, "OPEN", SignalingChannelHandle, NULL)
  /\ UNCHANGED <<State, RemoteSeid, PendingCodecId, chanVars>>
  /\ HandlerFrame

HandleSetConfigurationResponse(t) ==
  /\ Accepted(t, "SET_CONFIGURATION")
  /\ ActiveCodecId' = PendingCodecId
  /\ AvdtpSendCommand(t, "OPEN", SignalingChannelHandle, NULL)
  /\ UNCHANGED <<State, RemoteSeid, PendingCodecId, chanVars>>
  /\ HandlerFrame

OpenReturns(t) ==
  /\ \/ Returned(t, "OPEN", "ok") /\ State' = "Open"
     \/ Returned(t, "OPEN", "fail") /\ State' = State
  /\ Return(t)
  /\ UNCHANGED <<RemoteSeid, ActiveCodecId, PendingCodecId, chanVars>>
  /\ HandlerFrame

HandleOpenResponse(t) ==
  /\ Accepted(t, "OPEN")
  /\ Enter(t, "OPEN_MEDIA", "wait", NULL, NULL)
  /\ UNCHANGED <<avdtpVars, chanVars>>
  /\ HandlerFrame

\* No START without a media channel: a failed open goes back to Idle.
OpenMediaReturns(t) ==
  /\ \/ /\ Returned(t, "OPEN_MEDIA", "ok")
        /\ MediaChannelHandle' = brb[t].handle
        /\ AvdtpSendCommand(t, "START", SignalingChannelHandle, NULL)
        /\ State' = State
     \/ /\ Returned(t, "OPEN_MEDIA", "fail")
        /\ State' = "Idle"
        /\ Return(t)
        /\ UNCHANGED MediaChannelHandle
  /\ UNCHANGED <<RemoteSeid, ActiveCodecId, PendingCodecId,
                 SignalingChannelHandle>>
  /\ HandlerFrame

HandleStartResponse(t) ==
  /\ Accepted(t, "START")
  /\ State' = "Streaming"
  /\ Return(t)
  /\ UNCHANGED <<RemoteSeid, ActiveCodecId, PendingCodecId, chanVars>>
  /\ HandlerFrame

\* The handlers ignore whether GET_CAPABILITIES and START were sent.
ResultIgnored(t) ==
  /\ pc[t] \in {"GET_CAPABILITIES", "START"}
  /\ brb[t].phase \in {"ok", "fail"}
  /\ Return(t)
  /\ UNCHANGED <<avdtpVars, chanVars>>
  /\ HandlerFrame

-----------------------------------------------------------------------------
(***************************************************************************)
(* The IOCTL queue, one request at a time.                                 *)
(***************************************************************************)
\* SET_CODEC_CONFIG with a "sw" key: AvdtpSetPreferredCodec.
AvdtpSetPreferredCodec ==
  /\ Added /\ pc["ioctl"] = "idle"
  /\ switches < MaxSwitches /\ switches + disconnects < MaxInputs
  /\ switches' = switches + 1
  /\ PreferredCodecId' \in Codecs
  /\ IF State = "Streaming"
     THEN AvdtpSendCommand("ioctl", "SUSPEND", SignalingChannelHandle, NULL)
     ELSE UNCHANGED <<pc, brb>>
  /\ UNCHANGED <<avdtpVars, chanVars, recvVars, bthVars, disconnects,
                 BthReady, reconnectQueued, BrbLock>>

\* Back to Idle and on to AvdtpConnect, or the SUSPEND error is returned.
SuspendReturns ==
  /\ \/ /\ Returned("ioctl", "SUSPEND", "ok")
        /\ State' = "Idle"
        /\ Continue("ioctl", "CONNECT")
     \/ /\ Returned("ioctl", "SUSPEND", "fail")
        /\ State' = State
        /\ Return("ioctl")
  /\ UNCHANGED <<RemoteSeid, ActiveCodecId, PendingCodecId, chanVars>>
  /\ HandlerFrame

\* Mutant: sends as soon as the stream is open.
L2capSendMediaFrame_WhenOpen ==
  /\ Added /\ pc["ioctl"] = "idle"
  /\ State \in {"Open", "Streaming"} /\ BthReady
  /\ Enter("ioctl", "SEND_MEDIA", "wait", MediaChannelHandle, NULL)
  /\ UNCHANGED <<avdtpVars, chanVars>>
  /\ HandlerFrame

\* SEND_AUDIO_FRAME: only while Streaming, on whatever handle is there.
L2capSendMediaFrame ==
  /\ Added /\ pc["ioctl"] = "idle"
  /\ State = "Streaming" /\ BthReady
  /\ Enter("ioctl", "SEND_MEDIA", "wait", MediaChannelHandle, NULL)
  /\ UNCHANGED <<avdtpVars, chanVars>>
  /\ HandlerFrame

SendMediaReturns ==
  /\ pc["ioctl"] = "SEND_MEDIA"
  /\ brb["ioctl"].phase \in {"ok", "fail"}
  /\ Return("ioctl")
  /\ UNCHANGED <<avdtpVars, chanVars>>
  /\ HandlerFrame

-----------------------------------------------------------------------------
(***************************************************************************)
(* BthPort indications and the remote sink (external).                     *)
(***************************************************************************)
Response(signal, accept, seid, caps) ==
  [signal |-> signal, accept |-> accept, seid |-> seid, caps |-> caps]

\* The stream states in which the sink may accept a command, and the state
\* it then enters.  SET_CONFIGURATION is accepted in any state: a switch
\* reconfigures a stream that is still open.
AcceptedIn(signal) ==
  CASE signal = "OPEN"    -> {"configured"}
    [] signal = "START"   -> {"open"}
    [] signal = "SUSPEND" -> {"streaming"}
    [] OTHER              -> SinkStates

SinkStateAfter(signal) ==
  CASE signal = "SET_CONFIGURATION"   -> "configured"
    [] signal \in {"OPEN", "SUSPEND"} -> "open"
    [] signal = "START"               -> "streaming"
    [] OTHER                          -> sinkState

\* What the sink may answer to a command.
Accepts(signal) ==
  CASE signal = "DISCOVER" -> {Response(signal, TRUE, s, {}) : s \in Seids}
    [] signal = "GET_CAPABILITIES" ->
         {Response(signal, TRUE, NULL, c) : c \in SinkCaps}
    [] OTHER -> {Response(signal, TRUE, NULL, {})}

Refusals(signal) ==
  {Response(signal, FALSE, NULL, {})} \cup
  {Response(d, TRUE, NULL, {}) : d \in {signal} \cap {"DISCOVER"}}

Responses(signal) ==
  (IF sinkState \in AcceptedIn(signal) THEN Accepts(signal) ELSE {}) \cup
  (IF sinkState \notin AcceptedIn(signal) \/ "reject" \in Faults
   THEN Refusals(signal) ELSE {})

\* The sink answers the next command on channel h, and BthPort indicates
\* the packet: IndicationRecvPacket sets PendingRecvLen, enqueues the work.
IndicationRecvPacket(h) ==
  /\ h \in sigLive /\ tx[h] # << >>
  /\ LET cmd == Head(tx[h]) IN
       \E r \in Responses(cmd.signal) :
         /\ rx' = [rx EXCEPT ![h] = Append(@, r)]
         /\ sinkCodec' = IF r.accept /\ cmd.signal = "SET_CONFIGURATION"
                         THEN cmd.codec ELSE sinkCodec
         /\ sinkState' = IF r.accept THEN SinkStateAfter(cmd.signal)
                                     ELSE sinkState
  /\ tx' = [tx EXCEPT ![h] = Tail(@)]
  /\ PendingRecvLen' = TRUE
  /\ avdtpQueued' = TRUE
  /\ UNCHANGED <<avdtpVars, chanVars, AvdtpWorkBuf, inputVars, sigLive,
                 mediaLive, BthReady, reconnectQueued, BrbLock, pc, brb>>

\* The remote closes the signalling channel: the link and its channels are
\* gone, and IndicationRemoteDisconnect clears the handles and the state.
IndicationRemoteDisconnect ==
  /\ "link" \in Faults
  /\ sigLive # {}
  /\ disconnects < MaxDisconnects /\ switches + disconnects < MaxInputs
  /\ disconnects' = disconnects + 1
  /\ sigLive' = {} /\ mediaLive' = {}
  /\ tx' = [h \in Handles |-> << >>] /\ rx' = [h \in Handles |-> << >>]
  /\ sinkCodec' = NULL /\ sinkState' = "idle"
  /\ SignalingChannelHandle' = NULL
  /\ MediaChannelHandle' = NULL
  /\ State' = "Idle"
  /\ UNCHANGED <<RemoteSeid, ActiveCodecId, PendingCodecId, PreferredCodecId,
                 switches, recvVars, BthReady, reconnectQueued, BrbLock,
                 pc, brb>>

\* The remote closes the media channel alone: the driver registered no
\* callback for it and is not told.
MediaClosed ==
  /\ "media" \in Faults
  /\ \E h \in mediaLive : mediaLive' = mediaLive \ {h}
  /\ UNCHANGED <<avdtpVars, chanVars, recvVars, sigLive, tx, rx, sinkCodec,
                 sinkState, inputVars, BthReady, reconnectQueued, BrbLock,
                 pc, brb>>

-----------------------------------------------------------------------------
Init ==
  /\ State = "Idle" /\ RemoteSeid = NULL
  /\ ActiveCodecId = SBC /\ PendingCodecId = SBC /\ PreferredCodecId = SBC
  /\ SignalingChannelHandle = NULL /\ MediaChannelHandle = NULL
  /\ BthReady = FALSE
  /\ PendingRecvLen = FALSE /\ AvdtpWorkBuf = NULL
  /\ avdtpQueued = FALSE /\ reconnectQueued = FALSE
  /\ BrbLock = NULL
  /\ pc = [t \in Threads |-> IF t = "add" THEN "start" ELSE "idle"]
  /\ brb = [t \in Threads |-> NoBrb]
  /\ sigLive = {} /\ mediaLive = {}
  /\ tx = [h \in Handles |-> << >>] /\ rx = [h \in Handles |-> << >>]
  /\ sinkCodec = NULL /\ sinkState = "idle"
  /\ disconnects = 0 /\ switches = 0

\* One step of the callback thread t is running.
HandlePacket(t) ==
  \/ ReadDropped(t)
  \/ HandleDiscoverResponse(t)
  \/ HandleGetCapabilitiesResponse(t)
  \/ HandleSetConfigurationResponse(t)
  \/ HandleOpenResponse(t)
  \/ HandleStartResponse(t)

CommandReturns(t) ==
  \/ DiscoverReturns(t)
  \/ SetConfigurationReturns(t)
  \/ OpenReturns(t)
  \/ OpenMediaReturns(t)
  \/ ResultIgnored(t)

SubmitBrb(t) == AcquireBrbLock(t) \/ CompleteBrb(t)

Run(t) ==
  \/ OpenSignalingReturns(t) \/ SetConnecting(t) \/ AvdtpConnect(t)
  \/ HandlePacket(t) \/ CommandReturns(t)

Next ==
  \/ OwbEvtDeviceAdd
  \/ OwbReconnectTimer
  \/ \E t \in ReconnectWorkers : OwbReconnectWorkCallback(t)
  \/ \E t \in AvdtpWorkers : OwbAvdtpWorkCallback(t)
  \/ \E t \in Threads : SubmitBrb(t)
  \/ \E t \in Threads : Run(t)
  \/ AvdtpSetPreferredCodec
  \/ SuspendReturns
  \/ L2capSendMediaFrame
  \/ SendMediaReturns
  \/ \E h \in Handles : IndicationRecvPacket(h)
  \/ IndicationRemoteDisconnect
  \/ MediaClosed

Spec == Init /\ [][Next]_vars

(***************************************************************************)
(* Fairness.  The timer is periodic, queued work items run, BthPort        *)
(* completes every BRB it can complete, the wait lock starves nobody, and  *)
(* the sink answers.  The signalling channel can be opened again and again *)
(* until it works.  What the service asks for and what the remote closes   *)
(* are inputs: they may never happen.  Nor need the device be added: if a  *)
(* WDF object cannot be created, EvtDeviceAdd fails and WDF destroys it.   *)
(***************************************************************************)
Fairness ==
  /\ WF_vars(OwbReconnectTimer)
  /\ \A t \in ReconnectWorkers : WF_vars(OwbReconnectWorkCallback(t))
  /\ \A t \in AvdtpWorkers : WF_vars(OwbAvdtpWorkCallback(t))
  /\ \A t \in Threads : /\ SF_vars(AcquireBrbLock(t))
                         /\ WF_vars(CompleteBrb(t))
                         /\ WF_vars(Run(t))
  /\ \A t \in {"add"} \cup ReconnectWorkers : SF_vars(CompleteOpenSignaling(t))
  /\ WF_vars(SuspendReturns) /\ WF_vars(SendMediaReturns)
  /\ \A h \in Handles : WF_vars(IndicationRecvPacket(h))

FairSpec == Spec /\ Fairness

-----------------------------------------------------------------------------
(***************************************************************************)
(* Safety.                                                                 *)
(***************************************************************************)
\* L2capSubmitBrb: two threads never have the shared BrbRequest in flight,
\* whatever paths (reconnect, handlers, IOCTLs) submit at the same time.
BrbExclusive ==
  \A t, u \in Threads :
     brb[t].phase = "inflight" /\ brb[u].phase = "inflight" => t = u

\* BthPort accepts the frame of t on an open media channel.
Delivering(t) ==
  /\ pc[t] = "SEND_MEDIA" /\ brb[t].phase = "inflight"
  /\ brb[t].handle \in mediaLive

\* avdtp.c: while a frame is delivered, the codec the driver reports as
\* active is the one the sink accepted last, across codec switches,
\* rejected commands, failed sends and media channels closed by the remote,
\* on a link that was not lost.
NegotiatedCodec ==
  \A t \in Threads : Delivering(t) /\ disconnects = 0 => ActiveCodecId = sinkCodec

\* L2capSendMediaFrame: no frame is delivered to a sink that has not
\* accepted START, or has accepted SUSPEND since, on a link that was not lost.
MediaOnlyWhenStarted ==
  \A t \in Threads : Delivering(t) /\ disconnects = 0 => sinkState = "streaming"

\* avdtp_packets.c: only codecs of kCodecConfigs are ever configured, in the
\* driver's fields, in the SET_CONFIGURATION under way and at the sink,
\* although any codec can be preferred.
OnlyConfigurable ==
  /\ {ActiveCodecId, PendingCodecId} \subseteq Configurable
  /\ sinkCodec \in Configurable \cup {NULL}
  /\ \A t \in Threads :
       pc[t] = "SET_CONFIGURATION" => brb[t].codec \in Configurable
  /\ \A h \in Handles : \A i \in DOMAIN tx[h] :
       tx[h][i].codec \in Configurable \cup {NULL}

\* L2capOpenSignalingChannel: a signalling channel that is open in BthPort
\* is the one in SignalingChannelHandle, or its opener is about to store
\* it: reconnecting never loses one it could no longer close or use.
SignalingNotLeaked ==
  \A h \in sigLive :
    \/ h = SignalingChannelHandle
    \/ \E t \in Threads : /\ Returned(t, "OPEN_SIGNALING", "ok")
                          /\ brb[t].handle = h

(***************************************************************************)
(* Liveness.                                                               *)
(***************************************************************************)
NothingLost == [](disconnects = 0)

\* The whole handshake, from EvtDeviceAdd through the work items: with a
\* sink that accepts everything, a link that is not lost and no codec switch,
\* a driver that has its interface gets the sink to stream, however often the
\* first opens fail.
HandshakeCompletes ==
  NothingLost /\ [](switches = 0) => (BthReady ~> sinkState = "streaming")

\* OwbReconnectTimer, OwbReconnectWorkCallback: as long as the reconnect
\* condition holds, an attempt to open the channel follows.
ReconnectAttempted ==
  (Added /\ OwbShouldReconnect) ~>
    (~OwbShouldReconnect \/ \E t \in Threads : pc[t] = "OPEN_SIGNALING")

\* L2capSubmitBrb: nobody keeps BrbLock for ever while the link is up.
BrbLockReleased == NothingLost => (BrbLock # NULL ~> BrbLock = NULL)

(***************************************************************************)
(* What a comment says and the code does not do.                           *)
(***************************************************************************)
\* l2cap_stream.c, IndicationRemoteDisconnect: the timer will reopen the
\* channel and renegotiate.
LossIsReopened ==
  (Added /\ BthReady /\ SignalingChannelHandle = NULL) ~>
    (SignalingChannelHandle # NULL)
=============================================================================

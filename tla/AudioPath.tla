------------------------------ MODULE AudioPath ------------------------------
(***************************************************************************)
(* owb-service and the driver together: the requests of a FrameSource,     *)
(* which StreamPipeline implements, are what the driver's IOCTL queue      *)
(* works on.  The queue is sequential, so a frame and a codec switch that  *)
(* come from two threads of the service are handled one after the other,   *)
(* each to its end, while the driver's work items go on with AVDTP.        *)
(***************************************************************************)
EXTENDS A2dpDriver

VARIABLES
  codec, frame, tell,  \* as in FrameSource
  queue                \* the IOCTL queue: requests not completed, in order

sourceVars == <<codec, frame, tell>>
pathVars   == <<vars, sourceVars, queue>>

Source == INSTANCE FrameSource WITH First <- SBC, None <- NULL

PathInit == Init /\ Source!Init /\ queue = << >>

-----------------------------------------------------------------------------
(***************************************************************************)
(* The service's requests enter the queue, once there is a device to open. *)
(***************************************************************************)
SendAudioFrame ==
  /\ Added
  /\ Source!Hand
  /\ queue' = Append(queue, "frame")
  /\ UNCHANGED vars

SetCodecConfig ==
  /\ Added
  /\ switches < MaxSwitches /\ switches + disconnects < MaxInputs
  /\ Source!Switch
  /\ queue' = IF tell' # NULL THEN Append(queue, "tell") ELSE queue
  /\ UNCHANGED vars

Service == SendAudioFrame \/ SetCodecConfig

-----------------------------------------------------------------------------
(***************************************************************************)
(* OwbEvtIoDeviceControl, for the request at the head of the queue.        *)
(***************************************************************************)
At(kind) == queue # << >> /\ Head(queue) = kind

CompleteFrame == Source!Taken /\ queue' = Tail(queue)

\* Mutant: the request of a switch is not completed.
CompleteTell_Pended == UNCHANGED <<sourceVars, queue>>

\* The request is completed once the handler is through.
CompleteTell ==
  IF pc'["ioctl"] = "idle" THEN Source!Told /\ queue' = Tail(queue)
                           ELSE UNCHANGED <<sourceVars, queue>>

\* SEND_AUDIO_FRAME: given up at once unless Streaming, else sent; the codec
\* of the frame only chooses its framing.
FrameDropped ==
  /\ Added /\ At("frame")
  /\ pc["ioctl"] = "idle" /\ (State # "Streaming" \/ ~BthReady)
  /\ CompleteFrame
  /\ UNCHANGED vars

FrameSubmitted ==
  At("frame") /\ L2capSendMediaFrame /\ UNCHANGED <<sourceVars, queue>>

FrameReturns == SendMediaReturns /\ CompleteFrame

\* SET_CODEC_CONFIG with the key "switch".
TellSubmitted ==
  At("tell") /\ AvdtpSetPreferredCodec /\ PreferredCodecId' = tell /\ CompleteTell

TellReturns ==
  (SuspendReturns \/ AvdtpConnect("ioctl") \/ DiscoverReturns("ioctl")) /\ CompleteTell

Ioctl ==
  \/ FrameDropped \/ FrameSubmitted \/ FrameReturns
  \/ TellSubmitted \/ TellReturns

-----------------------------------------------------------------------------
\* The bound on the inputs keeps one for the request in the queue that the
\* handler has not begun with.
Reserved == IF tell # NULL /\ ~(At("tell") /\ pc["ioctl"] # "idle") THEN 1 ELSE 0

\* The rest of the driver.
Driver ==
  /\ \/ OwbEvtDeviceAdd \/ OwbReconnectTimer
     \/ \E t \in ReconnectWorkers : OwbReconnectWorkCallback(t)
     \/ \E t \in AvdtpWorkers : OwbAvdtpWorkCallback(t)
     \/ \E t \in Threads : SubmitBrb(t)
     \/ \E t \in Threads \ {"ioctl"} : Run(t)
     \/ \E h \in Handles : IndicationRecvPacket(h)
     \/ switches + disconnects + Reserved < MaxInputs /\ IndicationRemoteDisconnect
     \/ MediaClosed
  /\ UNCHANGED <<sourceVars, queue>>

PathNext == Ioctl \/ Service \/ Driver

PathSpec == PathInit /\ [][PathNext]_pathVars

(***************************************************************************)
(* Fairness: the driver's own, and the queue's handler runs.               *)
(***************************************************************************)
PathFairness == Fairness /\ WF_pathVars(Ioctl)

PathFairSpec == PathSpec /\ PathFairness

-----------------------------------------------------------------------------
\* OwbEvtIoDeviceControl, L2capSubmitBrb, avdtp.c: every request of the
\* service comes back, whatever work item holds BrbLock and in whatever state
\* AVDTP is, as long as the link is not lost.  drain() holds codec_mtx across
\* a frame's request, so this is what keeps a codec switch, the IPC thread
\* and the service's shutdown from blocking in StreamPipeline.
RequestsReturn ==
  NothingLost => (frame # NULL ~> frame = NULL) /\ (tell # NULL ~> tell = NULL)

(***************************************************************************)
(* What the design says and the code does not do.                          *)
(***************************************************************************)
\* openwinblue-design.md, codec priorities: the SBC fallback always works, so
\* once the driver knows the service's codec, the frames a sink gets are of
\* the codec it was configured with.
FallbackWorks ==
  \A t \in Threads :
    Delivering(t) /\ tell = NULL /\ PreferredCodecId = codec => frame = sinkCodec
=============================================================================

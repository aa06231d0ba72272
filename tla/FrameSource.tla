----------------------------- MODULE FrameSource -----------------------------
(***************************************************************************)
(* What owb-service promises the driver: one frame at a time, of the codec *)
(* that is current when it is handed over; a codec switch never overlaps a *)
(* frame, and the driver is told of one switch at a time, of the codec     *)
(* that was switched to, if it is told at all.                             *)
(*                                                                         *)
(* StreamPipeline implements this module; AudioPath puts it in front of    *)
(* the driver's model in place of the whole service.                       *)
(***************************************************************************)
CONSTANTS Codecs, First, None

VARIABLES
  codec,   \* the codec of the encoder, as codec_id() gives it
  frame,   \* codec of the frame in OWB_IOCTL_SEND_AUDIO_FRAME, or None
  tell     \* codec in OWB_IOCTL_SET_CODEC_CONFIG, or None

vars == <<codec, frame, tell>>

Init == codec = First /\ frame = None /\ tell = None

\* A2dpStream::send_frame is called, and returns.
Hand == frame = None /\ frame' = codec /\ UNCHANGED <<codec, tell>>

Taken == frame # None /\ frame' = None /\ UNCHANGED <<codec, tell>>

\* A switch, and A2dpStream::set_codec_config if the device is open.
Switch ==
  /\ frame = None /\ tell = None
  /\ codec' \in Codecs
  /\ tell' \in {codec', None}
  /\ UNCHANGED frame

Told == tell # None /\ tell' = None /\ UNCHANGED <<codec, frame>>

Next == Hand \/ Taken \/ Switch \/ Told

Spec == Init /\ [][Next]_vars

\* DeviceIoControl returns.
FairSpec == Spec /\ WF_vars(Taken) /\ WF_vars(Told)
=============================================================================

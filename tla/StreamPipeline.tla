--------------------------- MODULE StreamPipeline ---------------------------
(***************************************************************************)
(* The audio path of owb-service: the thread of StreamPipeline that reads  *)
(* PCM, encodes it and hands the frames to the driver; the IPC thread that *)
(* swaps or reconfigures the encoder meanwhile; and run_service, which     *)
(* builds and tears down both around one A2dpStream handle.                *)
(*                                                                         *)
(* PCM is a number of interleaved stereo samples.  A call that can block   *)
(* (a mutex, DeviceIoControl, thread::join) is a label; what lies between  *)
(* two of them is one step.  The driver, the capture endpoint and the      *)
(* codec libraries are external.                                           *)
(***************************************************************************)
EXTENDS Naturals

CONSTANTS
  Codecs, SBC,   \* the OWB_CODEC_* ids and the one the service starts with
  Encodable,     \* codecs whose library can produce a frame
  Frames,        \* input_frame_samples() a codec can have; 0: takes a blob
  Channels,      \* channels of the capture endpoint
  MixRates,      \* rates the capture endpoint may run at
  SbcRates,      \* rates freq_to_sbc knows
  kReadSamples, kBlobFeedMax, kBlock, kAccumHardCap,
  MaxSwitches    \* bound: codec switches asked for over IPC

ASSUME ConstantAssumption ==
  /\ SBC \in Codecs /\ Encodable \subseteq Codecs /\ "none" \notin Codecs
  /\ \A c \in Codecs : Frames[c] \subseteq Nat /\ Frames[c] # {}
  /\ {Channels, kReadSamples, kBlobFeedMax, kBlock, kAccumHardCap} \subseteq Nat \ {0}
  /\ 44100 \in SbcRates
  /\ MaxSwitches \in Nat

Rates == MixRates \cup SbcRates

\* sample_rate() of a capture that has not started.
DefaultRate == 44100

VARIABLES
  main,       \* label of run_service
  capturing, rate,     \* AudioCapture: running_, sample_rate_
  driver,     \* the device behind \\.\OpenWinBlue exists (external)
  device,     \* A2dpStream's handle: "closed", "open", or "dead" once the
              \* device it was opened on is gone
  running, streaming, codec_id, codec_mtx, codec, accum, \* StreamPipeline::Impl
  run,        \* label of the pipeline's thread
  id, fs,     \* locals of drain()
  frame,      \* the frame drain() is sending
  ipc, want,  \* label of the IPC thread and the codec it switches to
  switches

serviceVars == <<main, capturing, rate>>
encoderVars == <<codec_id, codec>>
runVars     == <<streaming, accum, run, id, fs, frame>>
ipcVars     == <<ipc, want, switches>>
vars == <<serviceVars, driver, device, running, codec_mtx, encoderVars, runVars, ipcVars>>

NoFrame == [id |-> SBC, by |-> SBC, fed |-> 0, size |-> 0, freq |-> 0]

Encoders == [id : Codecs, freq : Rates, mono : BOOLEAN, size : Nat]
EncodedFrames ==
  [id : Codecs, by : Codecs, fed : 1..kAccumHardCap, size : Nat, freq : Rates]

ServiceType ==
  /\ main \in {"built", "captured", "opened", "piped", "serving", "retire",
               "stop", "join", "close", "uncapture", "done"}
  /\ capturing \in BOOLEAN /\ rate \in Rates
  /\ driver \in BOOLEAN /\ device \in {"closed", "open", "dead"}
  /\ running \in BOOLEAN

EncoderType ==
  /\ codec_id \in Codecs
  /\ codec_mtx \in {"free", "run", "ipc"}
  /\ codec \in Encoders /\ codec.size \in Frames[codec.id]

RunType ==
  /\ streaming \in BOOLEAN
  /\ accum \in 0..kAccumHardCap
  /\ run \in {"none", "while", "open", "read", "lock", "encode", "send", "ended"}
  /\ id \in Codecs /\ fs \in Nat
  /\ frame \in EncodedFrames \cup {NoFrame}

IpcType ==
  /\ ipc \in {"idle", "lock", "create", "publish", "ioctl"}
  /\ want \in Codecs
  /\ switches \in 0..MaxSwitches

TypeOK == ServiceType /\ EncoderType /\ RunType /\ IpcType

-----------------------------------------------------------------------------
(***************************************************************************)
(* The encoder.                                                            *)
(***************************************************************************)
\* The rate an encoder really runs at when it is told "freq" = hz.
freq_to_sbc(c, hz) == IF c = SBC /\ hz \notin SbcRates THEN 44100 ELSE hz

\* CodecFactory::create followed by set_param("freq"); an id the factory does
\* not know is SBC, but the IPC server only passes on known ones.
Created(c, hz) ==
  [id : {c}, freq : {freq_to_sbc(c, hz)}, mono : {FALSE}, size : Frames[c]]

Init ==
  /\ main = "built" /\ capturing = FALSE /\ rate = DefaultRate
  /\ driver \in BOOLEAN /\ device = "closed"
  /\ running = FALSE /\ streaming = FALSE
  /\ codec_id = SBC /\ codec_mtx = "free" /\ codec \in Created(SBC, DefaultRate)
  /\ accum = 0
  /\ run = "none" /\ id = SBC /\ fs = 0 /\ frame = NoFrame
  /\ ipc = "idle" /\ want = SBC /\ switches = 0

-----------------------------------------------------------------------------
(***************************************************************************)
(* StreamPipeline::Impl::run() and drain().                                *)
(***************************************************************************)
RunFrame == UNCHANGED <<serviceVars, driver, running, encoderVars, ipcVars>>

run_While ==
  /\ run = "while"
  /\ IF running THEN run' = "open" /\ UNCHANGED streaming
                ELSE run' = "ended" /\ streaming' = FALSE
  /\ UNCHANGED <<device, codec_mtx, accum, id, fs, frame>>
  /\ RunFrame

\* Mutant: waits for the device without looking at running again.
run_Open_Retries ==
  /\ run = "open"
  /\ \/ device # "closed" /\ run' = "read" /\ UNCHANGED <<device, streaming>>
     \/ device = "closed" /\ driver
        /\ device' = "open" /\ run' = "read" /\ UNCHANGED streaming
     \/ device = "closed" /\ streaming' = FALSE /\ UNCHANGED <<run, device>>
  /\ UNCHANGED <<codec_mtx, accum, id, fs, frame>>
  /\ RunFrame

\* "if (!sink->is_open() && !sink->open())": CreateFile may fail on a device
\* that is there (another process has it).
run_Open ==
  /\ run = "open"
  /\ \/ device # "closed" /\ run' = "read" /\ UNCHANGED <<device, streaming>>
     \/ device = "closed" /\ driver
        /\ device' = "open" /\ run' = "read" /\ UNCHANGED streaming
     \/ device = "closed" /\ streaming' = FALSE /\ run' = "while" /\ UNCHANGED device
  /\ UNCHANGED <<codec_mtx, accum, id, fs, frame>>
  /\ RunFrame

\* AudioCapture::read: the frames one call can return, at most kReadSamples
\* samples in the endpoint's own interleaving.
read == 1..(kReadSamples \div Channels)

\* Interleaved stereo samples kept of, or made from, n frames.
to_stereo(n) == 2 * n

\* Mutant: the accumulator has no cap.
run_Read_NoCap ==
  /\ run = "read"
  /\ \/ run' = "while" /\ UNCHANGED accum
     \/ /\ capturing
        /\ \E n \in read : accum' = accum + to_stereo(n)
        /\ run' = "lock"
  /\ UNCHANGED <<streaming, device, codec_mtx, id, fs, frame>>
  /\ RunFrame

\* source->read(): nothing there or an error, or some frames.
run_Read ==
  /\ run = "read"
  /\ \/ run' = "while" /\ UNCHANGED accum
     \/ /\ capturing
        /\ \E n \in read :
             accum' = IF accum + to_stereo(n) > kAccumHardCap
                      THEN 0 ELSE accum + to_stereo(n)
        /\ run' = "lock"
  /\ UNCHANGED <<streaming, device, codec_mtx, id, fs, frame>>
  /\ RunFrame

drain_Lock ==
  /\ run = "lock"
  /\ codec_mtx = "free" /\ codec_mtx' = "run"
  /\ id' = codec_id /\ fs' = codec.size
  /\ run' = "encode"
  /\ UNCHANGED <<streaming, device, accum, frame>>
  /\ RunFrame

\* The samples the next encode() call is given: one frame, or for a codec
\* without frames a bounded number of whole blocks.
Chunk ==
  LET blob == IF accum < kBlobFeedMax THEN accum ELSE kBlobFeedMax
  IN  IF fs > 0 THEN IF accum >= fs THEN fs ELSE 0
                ELSE blob - (blob % kBlock)

Unlock == codec_mtx' = "free" /\ run' = "while"

\* Mutant: the early return for want of samples leaves the mutex locked.
drain_Return_KeepsLock ==
  /\ run = "encode" /\ Chunk = 0
  /\ run' = "while"
  /\ UNCHANGED <<codec_mtx, streaming, device, accum, id, fs, frame>>
  /\ RunFrame

drain_Return ==
  /\ run = "encode" /\ Chunk = 0
  /\ Unlock
  /\ UNCHANGED <<streaming, device, accum, id, fs, frame>>
  /\ RunFrame

\* After a chunk: the next frame, or for a blob the end of drain().
NextChunk ==
  IF fs > 0 THEN run' = "encode" /\ UNCHANGED codec_mtx ELSE Unlock

\* encode() fails, or has no output yet: the samples are gone all the same.
drain_EncodeFails ==
  /\ run = "encode" /\ Chunk > 0
  /\ accum' = accum - Chunk
  /\ NextChunk
  /\ UNCHANGED <<streaming, device, id, fs, frame>>
  /\ RunFrame

Encoded ==
  [id |-> id, by |-> codec.id, fed |-> Chunk, size |-> codec.size, freq |-> codec.freq]

\* Mutant: sends the frame after it has unlocked.
drain_Encode_Unlocks ==
  /\ run = "encode" /\ Chunk > 0 /\ codec.id \in Encodable
  /\ frame' = Encoded
  /\ run' = "send"
  /\ codec_mtx' = "free"
  /\ UNCHANGED <<streaming, device, accum, id, fs>>
  /\ RunFrame

drain_Encode ==
  /\ run = "encode" /\ Chunk > 0 /\ codec.id \in Encodable
  /\ frame' = Encoded
  /\ run' = "send"
  /\ UNCHANGED <<codec_mtx, streaming, device, accum, id, fs>>
  /\ RunFrame

\* A2dpStream::send_frame returns; drain() does not look at the result.
drain_Send ==
  /\ run = "send"
  /\ streaming' = TRUE
  /\ accum' = accum - frame.fed
  /\ frame' = NoFrame
  /\ NextChunk
  /\ UNCHANGED <<device, id, fs>>
  /\ RunFrame

-----------------------------------------------------------------------------
(***************************************************************************)
(* The calls of the IPC thread.                                            *)
(***************************************************************************)
IpcFrame == UNCHANGED <<serviceVars, driver, device, running, runVars>>

switch_codec ==
  /\ ipc = "idle" /\ main \in {"serving", "retire"}
  /\ switches < MaxSwitches
  /\ want' \in Codecs
  /\ switches' = switches + 1
  /\ ipc' = "lock"
  /\ UNCHANGED <<codec_mtx, encoderVars>>
  /\ IpcFrame

\* Mutant: rebuilds the codec without the mutex.
rebuild_codec_Lock_NoLock ==
  /\ ipc = "lock"
  /\ ipc' = "create"
  /\ UNCHANGED <<codec_mtx, encoderVars, want, switches>>
  /\ IpcFrame

rebuild_codec_Lock ==
  /\ ipc = "lock"
  /\ codec_mtx = "free" /\ codec_mtx' = "ipc"
  /\ ipc' = "create"
  /\ UNCHANGED <<encoderVars, want, switches>>
  /\ IpcFrame

rebuild_codec_Create ==
  /\ ipc = "create"
  /\ codec' \in Created(want, rate)
  /\ ipc' = "publish"
  /\ UNCHANGED <<codec_mtx, codec_id, want, switches>>
  /\ IpcFrame

\* codec_id is written last; then the driver is told, if its handle is open.
rebuild_codec_Publish ==
  /\ ipc = "publish"
  /\ codec_id' = want
  /\ codec_mtx' = "free"
  /\ ipc' = IF device = "closed" THEN "idle" ELSE "ioctl"
  /\ UNCHANGED <<codec, want, switches>>
  /\ IpcFrame

\* Mutant: asks again until the driver has taken the switch.
set_codec_config_Retries ==
  /\ ipc = "ioctl"
  /\ ipc' = IF device = "open" THEN "idle" ELSE "ioctl"
  /\ UNCHANGED <<codec_mtx, encoderVars, want, switches>>
  /\ IpcFrame

\* A2dpStream::set_codec_config returns.
set_codec_config ==
  /\ ipc = "ioctl"
  /\ ipc' = "idle"
  /\ UNCHANGED <<codec_mtx, encoderVars, want, switches>>
  /\ IpcFrame

pipeline_can_feed(key, value) ==
  /\ key = "freq" => value = rate
  /\ key = "mode" => value # "mono"

\* What the codecs' set_param make of a parameter; "layout" stands for the
\* SBC subbands and blocks, which change input_frame_samples().
Reconfigured(key, value) ==
  CASE key = "freq" -> {[codec EXCEPT !.freq = freq_to_sbc(codec.id, value)]}
    [] key = "mode" -> IF codec.id = SBC THEN {[codec EXCEPT !.mono = (value = "mono")]}
                                         ELSE {codec}
    [] key = "layout" -> {[codec EXCEPT !.size = f] : f \in Frames[codec.id]}

Params == {<<"freq", r>> : r \in Rates} \cup {<<"layout", "any">>} \cup
          {<<"mode", m>> : m \in {"mono", "stereo"}}

\* The critical section is one step: nothing in it waits.
set_codec_param ==
  /\ ipc = "idle" /\ main \in {"serving", "retire"} /\ codec_mtx = "free"
  /\ \E p \in Params :
       pipeline_can_feed(p[1], p[2]) /\ codec' \in Reconfigured(p[1], p[2])
  /\ UNCHANGED <<codec_mtx, codec_id, ipcVars>>
  /\ IpcFrame

-----------------------------------------------------------------------------
(***************************************************************************)
(* run_service, and the destructors it ends with when it gives up.         *)
(***************************************************************************)
MainFrame == UNCHANGED <<driver, codec_mtx, encoderVars, accum, id, fs, frame, ipcVars>>

\* A start that fails after GetMixFormat has already set the rate.
capture_start ==
  /\ main = "built" /\ main' = "captured"
  /\ \/ capturing' = TRUE /\ rate' \in MixRates
     \/ capturing' = FALSE /\ rate' \in MixRates \cup {rate}
  /\ UNCHANGED <<device, running, run, streaming>>
  /\ MainFrame

a2dp_open ==
  /\ main = "captured" /\ main' = "opened"
  /\ device' \in IF driver THEN {"open", "closed"} ELSE {"closed"}
  /\ UNCHANGED <<capturing, rate, running, run, streaming>>
  /\ MainFrame

start ==
  /\ main = "opened" /\ main' = "piped"
  /\ running' = TRUE /\ run' = "while"
  /\ UNCHANGED <<capturing, rate, device, streaming>>
  /\ MainFrame

\* If it fails, run_service stops the pipeline and returns.
ipc_start ==
  /\ main = "piped" /\ main' \in {"serving", "stop"}
  /\ UNCHANGED <<capturing, rate, device, running, run, streaming>>
  /\ MainFrame

\* g_running is cleared and ipc.stop() called.
ipc_stop ==
  /\ main = "serving" /\ main' = "retire"
  /\ UNCHANGED <<capturing, rate, device, running, run, streaming>>
  /\ MainFrame

ipc_join ==
  /\ main = "retire" /\ ipc = "idle" /\ main' = "stop"
  /\ UNCHANGED <<capturing, rate, device, running, run, streaming>>
  /\ MainFrame

stop ==
  /\ main = "stop" /\ main' = "join"
  /\ running' = FALSE
  /\ UNCHANGED <<capturing, rate, device, run, streaming>>
  /\ MainFrame

\* Mutant: does not join the thread.
stop_Join_NoWait ==
  /\ main = "join" /\ main' = "close"
  /\ streaming' = FALSE
  /\ UNCHANGED <<capturing, rate, device, running, run>>
  /\ MainFrame

stop_Join ==
  /\ main = "join" /\ run = "ended" /\ main' = "close"
  /\ streaming' = FALSE
  /\ UNCHANGED <<capturing, rate, device, running, run>>
  /\ MainFrame

a2dp_close ==
  /\ main = "close" /\ main' = "uncapture"
  /\ device' = "closed"
  /\ UNCHANGED <<capturing, rate, running, run, streaming>>
  /\ MainFrame

capture_stop ==
  /\ main = "uncapture" /\ main' = "done"
  /\ capturing' = FALSE
  /\ UNCHANGED <<rate, device, running, run, streaming>>
  /\ MainFrame

-----------------------------------------------------------------------------
\* The device appears, or is removed under the handle that is open on it
\* (external).
PnP ==
  /\ driver' = ~driver
  /\ device' = IF driver /\ device = "open" THEN "dead" ELSE device
  /\ UNCHANGED <<serviceVars, running, codec_mtx, encoderVars, runVars, ipcVars>>

Run ==
  \/ run_While \/ run_Open \/ run_Read
  \/ drain_Lock \/ drain_Return \/ drain_EncodeFails \/ drain_Encode \/ drain_Send

Switching ==
  \/ rebuild_codec_Lock \/ rebuild_codec_Create \/ rebuild_codec_Publish
  \/ set_codec_config

TearDown == ipc_join \/ stop \/ stop_Join \/ a2dp_close \/ capture_stop

Next ==
  \/ Run \/ Switching \/ switch_codec \/ set_codec_param
  \/ capture_start \/ a2dp_open \/ start \/ ipc_start \/ ipc_stop
  \/ TearDown \/ PnP

Spec == Init /\ [][Next]_vars

(***************************************************************************)
(* Fairness: each thread runs when it can and DeviceIoControl returns; a   *)
(* mutex that is released again and again is granted in the end (the       *)
(* pipeline's thread sleeps or reads between two drains).                  *)
(***************************************************************************)
Fairness ==
  /\ WF_vars(Run) /\ WF_vars(Switching) /\ WF_vars(TearDown)
  /\ SF_vars(drain_Lock) /\ SF_vars(rebuild_codec_Lock)

FairSpec == Spec /\ Fairness

-----------------------------------------------------------------------------
\* drain, rebuild_codec, set_param: a frame is tagged with the codec that
\* encoded it, from exactly the samples that encoder takes at the time
\* and never by a mono one, whatever the IPC thread does to the encoder in between.
FrameTagged ==
  run = "send" =>
    /\ frame.id = frame.by /\ ~codec.mono
    /\ IF frame.size > 0 THEN frame.fed = frame.size
       ELSE frame.fed % kBlock = 0 /\ frame.fed <= kBlobFeedMax

\* set_codec_id: it is a cut in the stream.  From the moment codec_id() gives
\* the new codec no frame of the old one is handed to the driver any more.
SwitchIsACut == run = "send" => frame.id = codec_id

\* A2dpStream::close, run_service: the handle is closed when nobody is inside
\* a DeviceIoControl on it, and nobody opens it again afterwards.
HandleClosedLast ==
  /\ run = "send" \/ ipc = "ioctl" => device # "closed"
  /\ main \in {"uncapture", "done"} => device = "closed"

\* StreamPipeline::set_codec_id: a switch gets the mutex from a pipeline that
\* never pauses, and returns.
SwitchReturns == ipc # "idle" ~> ipc = "idle"

\* run_service: the shutdown sequence gets to its end, whatever the pipeline
\* and the IPC thread are waiting for when it begins.
ShutdownEnds == main = "retire" ~> main = "done"

\* drain, set_codec_id, A2dpStream: seen from the driver the service is a
\* FrameSource.  Its frames come one at a time and are of the codec that is
\* current, a switch never overlaps a frame, every request returns.
Source == INSTANCE FrameSource WITH
  First <- SBC, None <- "none", codec <- codec_id,
  frame <- IF run = "send" THEN frame.id ELSE "none",
  tell  <- IF ipc = "ioctl" THEN want ELSE "none"

ImplementsFrameSource == Source!FairSpec

(***************************************************************************)
(* What a comment says and the code does not do.                           *)
(***************************************************************************)
\* stream_pipeline.cpp, pipeline_can_feed: the encoder runs at the rate of
\* the samples it is fed.
EncodesAtCaptureRate == run = "send" => frame.freq = rate
=============================================================================

# OpenWinBlue: TLA+ models

OpenWinBlue replaces the Windows A2DP source driver so that a headset can be
fed with codecs Windows does not offer. This directory models the parts of it
where several threads, a remote device or another process take steps in an
order no test fixes, and the pure code whose edges decide what reaches the
headset. TLC checks the models on small instances; TLAPS proves the central
safety properties for every instance. Paths are relative to the repository root.

## 1. The system

```
 GUI (C#)  --named pipe-->  owb-service (C++)  --IOCTL-->  owb_a2dp.sys (C)
 IpcClientService           IpcServer                      IOCTL queue
 DevicesViewModel           StreamPipeline <- capture      AVDTP state machine
   |                        A2dpStream                     L2CAP / BthPort --> headset
   +--pnputil--> driver store
```

| Part | State it keeps | Operations | Hard because |
|---|---|---|---|
| AVDTP state machine (`driver/src/avdtp.c`) | `State`, remote SEID, active / pending / preferred codec | connect, one handler per response, codec preference | responses are handled by a work item while connect or an IOCTL is still inside its own send; State is written after blocking sends |
| Packet code (`driver/src/avdtp_packets.c`) | none | find a free sink, select a codec, build SET_CONFIGURATION | lengths come from the remote, packets may be cut |
| L2CAP (`driver/src/l2cap_stream.c`) | two channel handles, `PendingRecvLen`, the shared BRB request and `BrbLock`, the RTP counters | open signalling / media, send, read, media frames, indication callback | one request shared by all threads; indications at DISPATCH_LEVEL at any moment; no notice when the media channel closes |
| Device add, timer, work items (`driver/src/owb_a2dp.c`) | timer, two work items, read buffer | add, timer tick, reconnect, read-and-handle | condition checked in the timer, used later in the work item |
| IOCTL queue (`driver/src/ioctl.c`) | the request being handled | send frame, set codec, get state | runs against the work items and waits for the same lock |
| IPC server (`service/src/ipc_server.cpp`) | `running`, `serving`, pipe and event handles | start, serve_one, stop | stop() on another thread cancels overlapped I/O and closes handles; clients vanish anywhere |
| Stream pipeline (`service/src/stream_pipeline.cpp`) | encoder, its id, accumulator, flags | run / drain, set_codec_id, set_codec_param, start, stop | the encoder is replaced under the thread that uses it; the lock is held across IOCTLs |
| A2dpStream (`service/src/a2dp_stream.cpp`) | device handle | open, close, IOCTL wrappers | two users, one of which reopens by itself |
| Codecs, LATM (`service/codecs`) | encoder state | encode, set_param, latm_pack | encoders hold samples back; lengths at the escape value |
| Service process (`service/src/main.cpp`, `hfp_guard.cpp`) | `g_running`, SCM status, COM objects | wmain, service_main, control handler, run_service | status written by two threads; any start may fail; COM must outlive its objects |
| GUI client (`gui/OpenWinBlue/Services/IpcClientService.cs`) | session, lock, task, cancellation | connect, poll, send, stop | a send races a poll and a session being torn down; Stop waits for a task that waits for the UI thread |
| Driver installation (`gui/OpenWinBlue/ViewModels/DevicesViewModel.cs`, `Services/Owb*`, `Pnp*`) | device list, message; the Windows driver store | refresh, install, activate, restore | tasks, refreshes and plug events between any two pnputil calls, each of which can fail |

Interactions: the GUI's requests become calls of the IPC thread into
StreamPipeline (`set_codec_id`, `set_codec_param`) and into the driver
(`OWB_IOCTL_SET_CODEC_CONFIG`); the pipeline's thread turns PCM into
`OWB_IOCTL_SEND_AUDIO_FRAME`; the driver talks AVDTP to the headset. Codec
choice lives in three places (encoder, driver preference, sink configuration)
that are updated one after the other.

What has to be right: one BRB at a time; no frame to a sink that is not
started, and the reported codec is the one the sink accepted; no lost channel;
the handshake, the reconnect and every request make progress; no handle, pipe
or COM object used after it is gone; a reply answers its request; a frame
carries the id of the encoder that made it and decodes to what was encoded;
what the user is told is so; stop and shutdown end. The hazards behind each are
listed with their lines in `PROJECT.json`.

## 2. Modules

| Module | Models | Run with | Proved in |
|---|---|---|---|
| `A2dpDriver` | the driver: AVDTP, L2CAP, timer, work items, IOCTLs, against an external BthPort and sink | `MCA2dpDriver` | `A2dpDriverProofs` |
| `AvdtpPackets` | `avdtp_packets.c` and the header check of `AvdtpHandleSignalingPacket`, in bytes | `MCAvdtpPackets` | `AvdtpPacketsProofs` |
| `MediaPackets` | encode, LATM, RTP and payload framing, counters and their reset | itself | `MediaPacketsProofs` |
| `StreamPipeline` | pipeline thread, encoder swap, device handle, service body | `MCStreamPipeline` | `StreamPipelineProofs` |
| `FrameSource` | abstract: what the service promises the driver | implemented by `StreamPipeline`, used in `AudioPath` | `StreamPipelineProofs` |
| `AudioPath` | service and driver together, through the IOCTL queue | `MCAudioPath` | |
| `IpcServer` | the pipe server, sessions, stop, against any client | `MCIpcServer` | `IpcServerProofs` |
| `IpcClient` | the GUI's client, its task and the UI thread, against any service | `MCIpcClient` | `IpcClientProofs` |
| `RequestReply` | abstract: what both ends of the pipe promise each other | implemented by `IpcServer` and by `IpcClient` | `IpcServerProofs`, `IpcClientProofs` |
| `ServiceLifecycle` | wmain, service_main, control handler, run_service, HfpGuard | itself | `ServiceLifecycleProofs` |
| `DriverStore` | DevicesViewModel, its tasks, OwbDriverStore, the list | `MCDriverStore` | `DriverStoreProofs` |

A definition whose name ends in `_Something` and whose comment begins with
"Mutant" is the same definition with a bug; it is used by no specification and
documents what the corresponding property would catch.

### A2dpDriver

Threads are `EvtDeviceAdd`, the workers of the two work items and the
sequential IOCTL queue. Each is at a label `pc[t]`, usually the BRB it has
submitted; `brb[t].phase` says whether that BRB waits for `BrbLock`, is in
flight or has returned. `AcquireBrbLock` and `CompleteBrb` are
`L2capSubmitBrb`; the code from one BRB to the next is one step and named
after the function it belongs to: `HandleOpenResponse` and `OpenMediaReturns`,
and so on. Splitting at the BRBs is what makes the late write
`State = AvdtpStateDiscovering` (avdtp.c:65) a step of its own. Two labels are
outside any BRB, because other threads and the indications can step in there:
after the signalling handle is stored and before `State = Connecting`
(`SetConnecting`), and before `AvdtpConnect` tests the state, which it does for
both its callers. `DiscoverReturns` is what follows its send.
`IndicationRecvPacket` and `IndicationRemoteDisconnect` are the callback.

External: BthPort (completes or fails a BRB, hands out channel handles), and a
sink that answers each command, accepting it only in the stream states that
allow it. A packet is its message kind with the SEIDs or codecs it carries.
`Faults` says what the environment may do: `page` (opening the signalling
channel fails), `brb` (any other BRB or allocation fails), `reject` (the sink
refuses), `link` (the link is lost), `media` (the media channel is closed by
the remote). `AvdtpWorkBuf` and `PendingRecvLen` are shared as in the code.

### AvdtpPackets and MediaPackets

Both work on sequences of numbers. `AvdtpPackets` takes one loop iteration per
step and records the offsets it reads; the sink's answer is kept beside its
bytes, so the outcome is compared with what the sink meant. Any byte string
short enough is a prefix of well-formed units, which is how the input is
enumerated.

`MediaPackets` follows one frame from the encoder to the headset. LATM is
written bit by bit with a byte of `ByteBits` bits, and read back by a decoder
that is not derived from the code. `hdr->seq_num = RtpSeqNum++` and
`RtpTimestamp += ts_incr` are split into loads and stores, between which the
disconnect indication may store its zeros. `pos` is a history variable that
counts the packets and the PCM they stand for.

### StreamPipeline, FrameSource and AudioPath

Three threads: `main` walks through `run_service`; `run` is the pipeline's
thread, with a label per blocking call; `ipc` is the IPC thread inside
`switch_codec`. PCM is a number of interleaved stereo samples, an encoder is
its codec, its rate, its channel mode and its `input_frame_samples()` (0 for
codecs that take a blob). `codec_mtx` is explicit and `rebuild_codec` has three
steps, so that a missing lock would show. `PnP` removes and adds the device
under an open handle.

`FrameSource` is what is left of this seen from the driver: a frame at a time,
of the current codec; a switch that never overlaps a frame and of which the
driver is told once, or not at all. The mapping is `codec_id`, the frame while
`run` is inside `send_frame`, and the codec while `ipc` is inside
`set_codec_config`. `AudioPath` puts a `FrameSource` in front of `A2dpDriver`:
two threads of the service append to the queue, the handler takes one request
to its end before the next, and the driver's work items go on meanwhile.

### IpcServer, IpcClient and RequestReply

One serving thread runs `while (serve_one()) {}`; every overlapped read, write
and connect is a label where the I/O is pending until it completes, the client
is gone, or `stop_event` cancels it. Any number of threads may be in `stop()`,
whose four parts (clear `running`, set the event, wait for `serving` to clear,
close the handles) are separate steps. `wait_until_idle` is a condition-variable
wait: a waiter that found `serving` set sleeps until notified. A second
`stop()` that finds `running` clear returns at once, as in the code. A switch
has two steps, the encoder (`set_codec_id`) and the driver
(`set_codec_config`), which may refuse after it has stored the preference.

`IpcClient` has two threads: the task of `RunLoop`, with a label for the test of
its loop, the lock, each read, each delay and `Dispatcher.Invoke` (a
cancellation between the test and the lock is seen one exchange later); and the UI thread, which sends,
draws, and stops the client. The service answers when it likes or never, closes
sessions, dies and is started again. `view` says which view model uses the
client: `DevicesViewModel`, whose view `MainWindow.xaml` hosts and whose Apply
sends one request, or `CodecViewModel` and `ControlsViewModel`, which are built
on the same client, hosted by no window, and send several requests and the AI
toggles.

`RequestReply` is one request under way, the next message its answer, a lost
session taking both. The server maps the client's side of the pipe onto it and
also meets its fairness (a request is answered or its session is lost); the
client meets the safety part with any service, so that a poll and a SetCodec on
the same pipe never read each other's reply.

### ServiceLifecycle

`service_main` and the control handler write `g_status` and hand it to the SCM
without a lock, so the write and the call are steps of their own for the two
reports that can meet (STOP_PENDING and STOPPED). Every `start()` may fail as
the code allows; `HfpGuard::start` may fail half-way, and the thread may be in a
COM apartment of somebody else, which the code takes for its own. The pipeline and the IPC
server are threads that end after they are told to, which is what
`ShutdownEnds` and `StopReturns` show of the detailed models.

### DriverStore

One paired device, a store of published names, two tasks, and a UI thread that
is idle, between the two pnputil calls of `Refresh`, or about to show the window:
the first `Refresh` runs in the constructor of the view model, before there is a
window to hear a `WM_DEVICECHANGE` (`hooked`). A call of pnputil fails in the two
ways the code tells apart: it throws, or it ends with an exit code, which
`/enum-devices` and `/enum-drivers` do not look at. Three history variables:
`clean[t]`, no other task has changed the store since `t` began; `scanned`, no
call failed in the last `Refresh`; `missed`, the device has changed and no window
heard it. Only the first window is modelled, not one opened again from the tray.

## 3. Runs

Deadlock checking is off everywhere: inputs are bounded, a stopped server, an
exited process and a finished shutdown are legal ends, and the driver
legitimately waits for the remote.

| Run | Instance | Shows |
|---|---|---|
| `A2dpDriver_session` | 3 codecs, one not configurable, two sinks, 3 handles, 2 inputs out of switches and link losses, failing BRBs, rejections, media channel closed | `NegotiatedCodec`, `MediaOnlyWhenStarted`, `OnlyConfigurable`, `BrbExclusive`, `SignalingNotLeaked`, `TypeOK` |
| `AudioPath_progress` | fairness; opening the channel fails, one switch or one link loss, frames all the time | `HandshakeCompletes`, `ReconnectAttempted`, `BrbLockReleased`, `RequestsReturn` |
| `AvdtpPackets_parse` | up to 3 units of 5 end points or 10 capabilities, cut after every octet, 7 preferred codecs | `ReadsInBounds`, `ConfigurationAgrees`, `TypeOK` |
| `MediaPackets_rtp` | 3 frames of 5 codecs, 2 sessions, 2 codec or parameter changes, 3-bit bytes, counters that wrap after 2 packets and 2048 samples | `PacketsDecode`, `TimestampsFollow` |
| `StreamPipeline_service` | fairness; 4 codecs (SBC with two layouts, a longer frame, a blob, the stub), 2 switches, every parameter | `FrameTagged`, `SwitchIsACut`, `HandleClosedLast`, `SwitchReturns`, `ShutdownEnds`, `ImplementsFrameSource`, `TypeOK` |
| `IpcServer_sessions` | fairness; 2 clients in turn, 1 stopping thread, 2 codecs, every request, a driver that refuses | `HandlesOpenInUse`, `RepliesPaired`, `AckedSwitchApplied`, `StopReturns`, `ImplementsRequestReply`, `TypeOK` |
| `IpcClient_gui` | fairness; 3 user actions, 2 starts of the service, 1 closed session, close and exit at any time | `SessionNotDisposed`, `AppliedIsCurrent`, `ImplementsRequestReply`, `UiNotBlocked`, `Reconnects`, `TypeOK` |
| `ServiceLifecycle_stop` | fairness; service and console mode, every failure, 2 controls | `ComOrder`, `StopEnds`, `TypeOK` |
| `DriverStore_tasks` | fairness; 2 names, 2 tasks, 1 plug event or scan at any time, 1 failing call of either kind | `ResultsTrue`, `ListSettles`, `TypeOK` |

Why the bounds are enough. `MaxInputs = 2` (with `MaxSwitches`,
`MaxDisconnects`) lets a preference arrive during the renegotiation another one
caused, and a loss race with a switch; three handles are a signalling channel,
a media channel and one too many. `MaxUnits = 3` is a unit before and one after
the one that matters. An escape of 7 with access units of 6, 7, 14 and 15 bytes
is one below, at and above each multiple, and a scratch buffer of 29 bytes
makes the longest packet not fit; `SeqSize = 2` and `TsSize = 2048` wrap within
`MaxFrames = 3`, and `MaxSessions = 2` is one cut session and the next. Two
clients are one that is cut and one that could find what was left. A frame of
2, 4 or 6 samples, a blob of 4 and a cap of 12 with reads of up to 8 reach
every branch of `drain` and the cap. `MaxActions = 3` is a selection, an Apply
(up to four requests) and one more thing done at once; `MaxStarts = 2` and
`MaxCloses = 1` lose the session in both ways. `MaxControls = 2` lets a second
control arrive while the first is handled. `MaxChanges = 1` and
`MaxFailures = 1` put one disturbance between any two calls, the second task
being the other disturbance.

What the properties do not claim, and why:

* The instances assume one worker per work item. With two `AvdtpWorkers` TLC
  refutes `NegotiatedCodec` and with two `ReconnectWorkers` `SignalingNotLeaked`:
  both rest on the framework running one instance of a work item at a time.
* `NegotiatedCodec` and `MediaOnlyWhenStarted` speak of a link that was not
  lost: a packet indicated in one session can be read in the next (the hazard
  at avdtp.c:118). `HandshakeCompletes`, `BrbLockReleased` and `RequestsReturn`
  are claimed for behaviours without a link loss (`NothingLost`): after one, a
  stale work item can hold the lock in a read that nothing answers.
* `TimestampsFollow` compares packets built in the session they are sent in and
  of the frame size the framing policy is written for.
* `ComOrder` exempts two paths and `StopEnds` one race, which the comments of
  the two properties describe: without the exemptions TLC refutes both.
* `SwitchReturns` assumes that a mutex released again and again is granted; it
  shows that every drain ends and releases it.
* `UiNotBlocked` is about the wait for the session's lock and for `Stop`. The read
  inside an exchange has no time-out.
* `AppliedIsCurrent` ends with the service that was asked.
* `ResultsTrue` says nothing of a task that another task has disturbed, nor of
  the result "nothing", which a failed `/enum-drivers` gives as well.
* `ListSettles` exempts a list whose last scan had a failing call, and a change of
  the device before there was a window: without the second exemption TLC refutes it.

### Where the code does not do what it says

Each of these runs checks one sentence of the repository and ends in a
counterexample; `PROJECT.json` quotes the sentence under `findings`.

| Run | Property | What happens |
|---|---|---|
| `A2dpDriver_reopen` | `LossIsReopened` | a disconnect between the store of the handle and the write of Connecting (l2cap_stream.c:137), or around that of Discovering (avdtp.c:65), leaves that state without a channel, which is never reopened |
| `StreamPipeline_rate` | `EncodesAtCaptureRate` | the first encoder runs at 44100 Hz whatever the capture does |
| `AudioPath_fallback` | `FallbackWorks` | a sink that was configured for SBC as the fallback is sent frames of the preferred codec |

### Met while modelling

Not kept as runs; each follows from the lines named.

* Driver: a handshake that fails after the signalling channel is open (avdtp.c:134)
  leaves Idle with a handle the reconnect condition excludes, and nothing
  retries. A preference that arrives outside Streaming (avdtp.c:157) is not
  applied later. `AvdtpConnect` refuses the renegotiation (avdtp.c:56) if the
  work item's late write of Discovering lands between the Idle of
  `AvdtpSetPreferredCodec` and its call: without any link loss the stream stays
  suspended and nothing retries. `ioctl.c:133` reports the internal state enum where
  `owb_ioctl.h:96` announces `OWB_STATE_*`. Two packets indicated before the
  work item runs are read as one. A frame for which no memory is left
  (l2cap_stream.c:287) does not advance the timestamp. A packet under way
  during the reset of the counters can start the next session at other values
  than 0. `ts_incr` is the one of 128 samples also for LDAC packets of several
  frames and SBC frames of other blocks and subbands, and the payload header
  says one frame for both (l2cap_stream.c:247, 299).
* Service: a switch the driver refuses has switched the encoder already
  (ipc_server.cpp:337), and a driver that refuses may have stored the preference
  all the same (avdtp.c:157). `run_service` calls `CoUninitialize` also for an
  apartment it did not make (main.cpp:46, 122). A client that leaves before `ConnectNamedPipe` ends the
  serving thread (ipc_server.cpp:161, main.cpp:102). The handle of a removed
  device stays open. `streaming` stays set after a switch to a codec that
  encodes nothing. A handler that writes `g_status` between service_main's
  write of STOPPED and its `SetServiceStatus` keeps the SCM at STOP_PENDING.
  When `ipc.start()` fails, or `HfpGuard::start()` fails half-way, COM objects
  are released after `CoUninitialize`. An AAC encoder that is full refuses input
  before it is drained (codec_aac.cpp:209). AAC stores a bitrate and does not
  apply it; the value of an IPC "switch" is not used.
* GUI: closing the window cancels the client for good, so a window opened again
  from the tray never connects; a cancellation after the test of the poll loop
  is followed by one more exchange (IpcClientService.cs:106);
  `SetConnected(false)` is never called; the noise-cancellation toggle of
  `DevicesView` sends nothing (only the toggles of `ControlsViewModel` do); the
  Apply button is only drawn again when the selection changes. Removing a
  package by a name that another task has deleted and another package has got
  since deletes that one. A `/enum-drivers` that ends with an error reads as an
  empty store (OwbDriverStore.cs:8): the device with the OpenWinBlue driver is
  listed as another's, and the removal reports that there was nothing to remove
  with the packages left. The first scan runs while the view model is built
  (App.xaml.cs:110), before the window has its hook (MainWindow.xaml.cs:26): a
  device that connects or leaves during it stays listed as it was until
  something else causes a scan. The result of a task is overwritten by the next
  refresh.

### Fairness

Driver: the periodic timer ticks, a queued work item runs, BthPort completes a
BRB it can complete and indicates what it received, and the sink answers.
That the device is added is not forced: if a WDF object cannot be created,
`EvtDeviceAdd` fails and there is no device. Strong fairness is used twice: for `BrbLock` (a wait lock queues its waiters)
and for opening the signalling channel, which is retried by the timer and is
assumed to work in the end if it is tried again and again. `AudioPath` adds
that the queue's handler runs; the service's requests start once the device is
added, as there is nothing to open before. Inputs (requests, disconnects) are never forced.
Server: the serving thread and a stopping thread run when they can, and a
client that has sent half a request sends the rest and reads its reply; nobody
has to connect, ask or stop. Pipeline: threads run, DeviceIoControl returns
(what `RequestsReturn` shows of the driver), and a mutex that is released over
and over is granted in the end: the pipeline's thread sleeps or calls into
WASAPI between two drains. Client: the task and the UI thread run, and a lock
or a dispatcher that is free again and again is granted; the service owes
nothing, except in `Reconnects`, whose premise says that it answers.
Lifecycle: every thread runs, and one that was told to stop ends. Driver store:
the dispatcher empties its queue, grants a waiting `Invoke` in the end, and the
pool runs its tasks.

## 4. Proofs

Every theorem holds for all values of the constants that satisfy the named
ASSUMEs of the module. In each module a few inductive invariants carry the
properties; each is a conjunction of parts named for what they say, and there is
a lemma for each action, or family of actions, that keeps it.

| Module | Inductive invariant | Properties that follow |
|---|---|---|
| `A2dpDriverProofs` | `IndInv` | `TypeOK`, `BrbExclusive`, `OnlyConfigurable` |
| | `OpenInv`, `TalkInv` | `SignalingNotLeaked`, `NegotiatedCodec`, `MediaOnlyWhenStarted` |
| `AvdtpPacketsProofs` | `SafeInv`, `MeaningInv` | `TypeOK`, `ReadsInBounds`, `ConfigurationAgrees` |
| `MediaPacketsProofs` | `IndInv` | `TypeOK`, `PacketsDecode`, `TimestampsFollow` |
| `StreamPipelineProofs` | `IndInv` | `TypeOK`, `FrameTagged`, `SwitchIsACut`, `HandleClosedLast`, `FrameSource` without its fairness |
| `IpcServerProofs` | `StopInv`, `SessionInv`, `AckInv` | `HandlesOpenInUse`, `TypeOK`, `RepliesPaired`, `AckedSwitchApplied`, `RequestReply` without its fairness |
| `IpcClientProofs` | `ClientInv` | `TypeOK`, `SessionNotDisposed`, `AppliedIsCurrent`, `ImplementsRequestReply` |
| `ServiceLifecycleProofs` | `LifeInv` | `TypeOK`, `ComOrder` |
| `DriverStoreProofs` | `StoreInv` | `TypeOK`, `ResultsTrue` |

* `A2dpDriverProofs`. `IndInv` adds to the types that a worker past its read
  holds a packet and that a thread sending SET_CONFIGURATION carries a codec
  (`TypeInv`); that the thread whose BRB is in flight is the owner of `BrbLock`
  (`LockInv`), from which exclusion follows; and that whatever can become the
  active codec (the pending one, the SET_CONFIGURATION of a thread or on the
  wire, the sink's) is configurable (`CodecInv`). The number of threads,
  work-item instances and faults is arbitrary. Assumption: `NULL` is not a
  thread.
* `A2dpDriverProofs`, a session. A channel is only opened while there is none, by
  `EvtDeviceAdd` or by the reconnect work item, never both (`OpenerInv`,
  `NoChannelInv`): with one instance of that work item `SignalingNotLeaked`
  follows, for every fault. The other two properties need to know where the
  handshake is. `Talk` says that its next step is in one place: in the hands of
  one thread, on the wire, or in a reply to be read (`OneTalk`); that this
  place agrees with what the driver and the sink take as accepted, SUSPEND and
  the late writes of `PendingCodecId` and `State` included (`StageInv`); and
  that in Streaming it is nowhere but in a SUSPEND (`LiveInv`). It holds until
  the link is lost, which is the premise the two properties have themselves.
  The hypotheses `OneReconnectWorker` and `OneAvdtpWorker` are what the
  framework guarantees for a work item; TLC refutes the properties without them.
* `AvdtpPacketsProofs` is about responses of any number of units with any
  content, cut anywhere. `SafeInv` is enough for the reads: the index is inside
  the payload, is reset between packets, and a length octet is only followed
  after it was compared with what is left. `ConfigurationAgrees` needs
  `MeaningInv`: what arrived is the beginning of what the sink wrote; the loop
  stands at the beginning of one of its units; and no unit before is what the
  loop looks for. That requires what `Concat` computes for every sequence, by
  induction over its length (`Joins`, `Prefix`, `Placed`). The induction
  theorems of the library take a predicate as a parameter, which the provers
  cannot instantiate; `SetInduction` states induction for a *set* of numbers
  instead and is proved from the well-foundedness of `<`. `NamingAssumption`
  says when a capability offers a codec: its category, media type and
  identifying octets are the codec's. It defines the name the model attaches to
  a capability, and restricts no bytes.
* `MediaPacketsProofs`, for bytes of any width from two bits up, access units of
  any length and content, and counters of any size. `RoundTrip` says that the
  headset's reader finds in the packet of `latm_pack` what the encoder emitted.
  A number is read as it was put because reading a bit doubles what was read
  and dividing by twice a power of two drops one bit (`PutValue`, `DivTwice`,
  `Pow2Steps`); a byte of `put_bytes` stands where the reader looks (`BytesAt`,
  `PutBytes`); joining bits leaves the bits before in place and moves those
  after by a known distance (`Carries`, `BitsJoin`); and the length is its
  quotient by the escape, one escape byte for each, and a rest that is never the
  escape (`InfoBytes`). The padding is less than a byte, so the reader does not
  count it. `Pow2` and `Value` are recursive functions; their values come from
  the induction over a set of numbers that `AvdtpPacketsProofs` uses too. With
  `RoundTrip`, `PacketsDecode` needs that what is under way is a frame of its
  codec (`FrameInv`). `TimestampsFollow` is not inductive: `ClockInv` adds that
  while the link is up the distance of the counters from the packets and the
  PCM built (`Numbered`, `Timed`) is the one in the header of the session's last
  packet and in that of the frame under way. Both advance by the same amount
  modulo the size (`AheadShift`), and two headers at the same distance differ
  by what was built between them (`AheadSwap`). A reset only happens without a
  channel, and a frame cut by it is of an earlier session (`SessionInv`); it
  can put the counters anywhere, but only before there is a packet of the new
  session to compare with.
* `StreamPipelineProofs`, for all codecs, frame sizes and buffer sizes. `IndInv`
  adds who holds the mutex at which label, that `codec_id` names the installed
  codec except between the two writes of `rebuild_codec`, that the locals of
  `drain` describe the installed codec while it runs, and in which phases of
  `run_service` the two threads can be active. `Implements` maps every step to
  a step of `FrameSource` or a stutter.
* `IpcServerProofs`. `HandlesOpenInUse`, for any number of stopping threads, is
  not inductive: `StopInv` adds that `serving` is set exactly between
  `enter_serve` and `leave_serve`, that a thread in `stop()` has cleared
  `running` and, once about to close, has seen `serving` clear, and that handles
  are open while the server runs or serves. Entering needs `running`, which
  never becomes true again: that is why nobody can enter between the wait and
  the close. `SessionInv` says what is in the pipe: nothing of another session
  (`PipeInv`, `ContentInv`), and of this one what the label of the server and
  the state of the client call for (`StageInv`). Pairing and the refinement
  follow. `AckInv` adds to `AckedSwitchApplied` that a switch that is at the
  driver has been made at the encoder.
* `IpcClientProofs`. The lock is held exactly during an exchange (`LockInv`),
  the session refers to an open pipe exactly between Attach and Detach
  (`PipeInv`), the pipe holds at most the request of the lock's holder or the
  reply to it (`TrafficInv`), and what the view shows, or is about to show, is
  the codec the service has taken (`RequestInv`, `CodecInv`). Assumption: the
  names for "no codec" and for the AI panel are not codecs.
* `ServiceLifecycleProofs`. The guard is active exactly while its notifier is
  registered and referenced twice (`GuardInv`), and on the way down guard,
  capture and COM go in this order (`DownInv`).
* `DriverStoreProofs`, for any number of tasks. A task that no other has
  disturbed knows a superset of the packages that are left while it deletes,
  and its verdict is still true when it is shown (`Undisturbed`).

Every invariant of a passing run is also a theorem; the types of `MediaPackets`
are only a theorem. Left to TLC: liveness under
fairness (every `~>` and `<>`, and the fair part of the refinements), which is
outside this prover's reach as is ENABLED, and with it the composition in
`AudioPath`, whose properties are all liveness.

## 5. Not modelled

* Signal processing: the codec libraries, the AI stages, sample conversion.
  Nothing in the code's control depends on a sample.
* COM plumbing other than the lifetime of its objects; logging and tracing.
* Power management and device removal: the driver registers no callback.
* `OWB_IOCTL_GET_RF_QUALITY`, which returns constants, and the buffer-length
  checks of the IOCTLs, which the framework makes.
* The words of pnputil's output (`PnputilParser`) and the turning on of test
  signing, which ends in a reboot.
* `DriverViewModel` and its view, which `MainWindow.xaml` does not host;
  `StatusViewModel`, which only displays.
* Installer, CI, tools, third-party headers.

## 6. Open

* Hazards without a property are listed in `PROJECT.json` with the reason: the
  code goes wrong there (a stale work item after a link loss, a handshake that
  fails half-way, two indications read as one, a media channel opened over the
  old one, the serving thread that ends), so a property would only restate it.
  They are the places to change first; the model then takes the property.
* An LDAC packet of several frames and SBC frames of other layouts are outside
  `TimestampsFollow` until `OwbMediaFraming` is given the size of the frame.
* `FrameSource` is proved of the pipeline and used in `AudioPath`; a driver that
  registers power-management callbacks would have to be added there.

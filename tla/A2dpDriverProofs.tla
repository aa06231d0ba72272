-------------------------- MODULE A2dpDriverProofs --------------------------
(***************************************************************************)
(* Proofs about the driver, for any number of worker threads, codecs and   *)
(* channel handles.                                                        *)
(***************************************************************************)
EXTENDS A2dpDriver, TLAPS

\* What TypeOK needs to be inductive: a packet has been read wherever a
\* handler looks at it, and SET_CONFIGURATION carries a codec.
ReadsPacket ==
  \A t \in Threads : Returned(t, "READ", "ok") => AvdtpWorkBuf \in Packets

CarriesCodec ==
  \A t \in Threads : pc[t] = "SET_CONFIGURATION" => brb[t].codec \in Configurable

TypeInv == TypeOK /\ ReadsPacket /\ CarriesCodec

\* OnlyConfigurable, with every BRB in it.
CodecInv ==
  /\ OnlyConfigurable
  /\ \A t \in Threads : brb[t].codec \in Configurable \cup {NULL}

\* The thread whose BRB is in flight is the holder of the lock.
LockInv == \A t \in Threads : brb[t].phase = "inflight" => BrbLock = t

IndInv == TypeInv /\ LockInv /\ CodecInv

Phases == {"none", "wait", "inflight", "ok", "fail"}

-----------------------------------------------------------------------------
\* Sending to a channel extends a sequence.
LEMMA AppendType ==
  ASSUME NEW S, NEW s \in Seq(S), NEW e \in S
  PROVE  Append(s, e) \in Seq(S)
OBVIOUS

\* The named threads are threads.
LEMMA ThreadFacts ==
  /\ "add" \in Threads /\ "ioctl" \in Threads
  /\ ReconnectWorkers \subseteq Threads
  /\ AvdtpWorkers \subseteq Threads
BY DEF Threads

\* select_codec returns a codec of kCodecConfigs, whatever the sink says.
LEMMA SelectsConfigurable ==
  ASSUME NEW p, NEW caps
  PROVE  select_codec(p, caps) \in Configurable
BY ConstantAssumption DEF select_codec

\* A thread outside L2capSubmitBrb has a well-typed BRB.
LEMMA NoBrbType == NoBrb \in Brbs
BY DEF NoBrb, Brbs

\* Enter keeps the types of pc and brb, and changes only thread t.
LEMMA EnterType ==
  ASSUME TypeOK, NEW t \in Threads, NEW l \in Label, NEW p \in Phases,
         NEW h \in Handles \cup {NULL}, NEW c \in Codecs \cup {NULL},
         Enter(t, l, p, h, c)
  PROVE  /\ pc' \in [Threads -> Label]
         /\ brb' \in [Threads -> Brbs]
         /\ pc'[t] = l /\ brb'[t].phase = p
         /\ brb'[t].handle = h /\ brb'[t].codec = c
         /\ \A u \in Threads \ {t} : pc'[u] = pc[u] /\ brb'[u] = brb[u]
<1>1. [phase |-> p, handle |-> h, codec |-> c] \in Brbs
  BY DEF Brbs, Phases
<1>2. QED
  BY <1>1 DEF Enter, TypeOK

\* Continue likewise, and leaves thread t without a BRB.
LEMMA ContinueType ==
  ASSUME TypeOK, NEW t \in Threads, NEW l \in Label, Continue(t, l)
  PROVE  /\ pc' \in [Threads -> Label]
         /\ brb' \in [Threads -> Brbs]
         /\ pc'[t] = l /\ brb'[t] = NoBrb
         /\ \A u \in Threads \ {t} : pc'[u] = pc[u] /\ brb'[u] = brb[u]
BY NoBrbType DEF Continue, TypeOK

\* And so does Return.
LEMMA ReturnType ==
  ASSUME TypeOK, NEW t \in Threads, Return(t)
  PROVE  /\ pc' \in [Threads -> Label]
         /\ brb' \in [Threads -> Brbs]
         /\ pc'[t] = "idle" /\ brb'[t] = NoBrb
         /\ \A u \in Threads \ {t} : pc'[u] = pc[u] /\ brb'[u] = brb[u]
<1>1. "idle" \in Label
  BY DEF Label
<1>2. QED
  BY <1>1, ContinueType DEF Return

\* AvdtpSendCommand is an Enter.
LEMMA SendCommandEnters ==
  ASSUME NEW t \in Threads, NEW signal \in Commands,
         NEW h \in Handles \cup {NULL}, NEW c \in Codecs \cup {NULL},
         AvdtpSendCommand(t, signal, h, c)
  PROVE  \E p \in {"wait", "fail"} : Enter(t, signal, p, h, c)
BY DEF AvdtpSendCommand

\* A completion keeps the types, and changes only thread t.
LEMMA CompletesType ==
  ASSUME TypeOK, NEW t \in Threads, NEW p \in {"ok", "fail"},
         NEW h \in Handles \cup {NULL}, Completes(t, p, h)
  PROVE  /\ brb' \in [Threads -> Brbs]
         /\ brb'[t].phase = p /\ brb'[t].handle = h
         /\ brb'[t].codec = brb[t].codec
         /\ \A u \in Threads \ {t} : brb'[u] = brb[u]
<1>1. brb' = [brb EXCEPT ![t].phase = p, ![t].handle = h]
  BY DEF Completes
<1>2. brb[t] \in Brbs
  BY DEF TypeOK
<1>3. [brb[t] EXCEPT !.phase = p, !.handle = h] \in Brbs
  BY <1>2 DEF Brbs
<1>4. brb'[t] = [brb[t] EXCEPT !.phase = p, !.handle = h]
  BY <1>1 DEF TypeOK
<1>5. \A u \in Threads \ {t} : brb'[u] = brb[u]
  BY <1>1 DEF TypeOK
<1>6. brb' \in [Threads -> Brbs]
  BY <1>1, <1>3 DEF TypeOK
<1>7. QED
  BY <1>2, <1>4, <1>5, <1>6 DEF Brbs

-----------------------------------------------------------------------------
\* The fields AvdtpContextInit and EvtDeviceAdd leave have their types.
LEMMA InitTypeInv == Init => TypeInv
<1> SUFFICES ASSUME Init PROVE TypeInv
  OBVIOUS
<1>1. SBC \in Codecs
  BY ConstantAssumption
<1>2. pc \in [Threads -> Label]
  BY DEF Init, Label
<1>3. brb \in [Threads -> Brbs]
  BY NoBrbType DEF Init
<1>4. TypeOK
  <2>1. BthReady \in BOOLEAN /\ PendingRecvLen \in BOOLEAN
        /\ avdtpQueued \in BOOLEAN /\ reconnectQueued \in BOOLEAN
    BY Zenon DEF Init
  <2>2. /\ tx \in [Handles -> Seq(CommandMsgs)]
        /\ rx \in [Handles -> Seq(Packets)]
    BY DEF Init
  <2>3. disconnects \in 0..MaxDisconnects /\ switches \in 0..MaxSwitches
    BY ConstantAssumption DEF Init
  <2>4. /\ State \in AvdtpStates /\ sinkState \in SinkStates
        /\ AvdtpWorkBuf \in Packets \cup {NULL} /\ BrbLock \in Threads \cup {NULL}
        /\ RemoteSeid \in Seids \cup {NULL} /\ sinkCodec \in Codecs \cup {NULL}
        /\ SignalingChannelHandle \in Handles \cup {NULL}
        /\ MediaChannelHandle \in Handles \cup {NULL}
        /\ sigLive \in SUBSET Handles /\ mediaLive \in SUBSET Handles
    BY DEF Init, AvdtpStates, SinkStates
  <2>5. QED
    BY <1>1, <1>2, <1>3, <2>1, <2>2, <2>3, <2>4 DEF Init, TypeOK
<1>5. \A t \in Threads : pc[t] \in {"start", "idle"}
  BY DEF Init
<1>6. QED
  BY <1>4, <1>5 DEF TypeInv, ReadsPacket, CarriesCodec, Returned

\* L2capSubmitBrb preserves the types.
LEMMA SubmitTypeInv ==
  ASSUME TypeInv, NEW t \in Threads, SubmitBrb(t)
  PROVE  TypeInv'
<1> USE DEF TypeInv
<1>1. CASE AcquireBrbLock(t)
  <2>1. brb' = [brb EXCEPT ![t].phase = "inflight"] /\ brb[t] \in Brbs
    BY <1>1 DEF AcquireBrbLock, TypeOK
  <2>2. [brb[t] EXCEPT !.phase = "inflight"] \in Brbs
    BY <2>1 DEF Brbs
  <2>3. /\ brb' \in [Threads -> Brbs]
        /\ brb'[t] = [brb[t] EXCEPT !.phase = "inflight"]
        /\ \A u \in Threads \ {t} : brb'[u] = brb[u]
    BY <2>1, <2>2 DEF TypeOK
  <2>4. TypeOK'
    BY <1>1, <2>3 DEF AcquireBrbLock, TypeOK, avdtpVars, chanVars, recvVars,
                      bthVars, inputVars
  <2>5. UNCHANGED <<pc, AvdtpWorkBuf>>
    BY <1>1 DEF AcquireBrbLock, recvVars
  <2>6. brb'[t].phase = "inflight" /\ brb'[t].codec = brb[t].codec
    BY <2>1, <2>3 DEF Brbs
  <2>7. QED
    BY <2>3, <2>4, <2>5, <2>6 DEF ReadsPacket, CarriesCodec, Returned
<1>2. CASE CompleteBrb(t)
  <2>1. PICK p \in {"ok", "fail"}, h \in Handles \cup {NULL} : Completes(t, p, h)
    <3>1. brb[t].handle \in Handles \cup {NULL}
      BY DEF TypeOK, Brbs
    <3>2. QED
      BY <1>2, <3>1 DEF CompleteBrb, CompleteOpenSignaling, CompleteOpenMedia,
           CompleteSendSignaling, CompleteRead, CompleteSendMedia, BrbFails
  <2>2. /\ brb' \in [Threads -> Brbs]
        /\ brb'[t].codec = brb[t].codec
        /\ \A u \in Threads \ {t} : brb'[u] = brb[u]
    BY <2>1, CompletesType
  <2>3. /\ pc' = pc
        /\ UNCHANGED <<avdtpVars, chanVars, PendingRecvLen, avdtpQueued,
                       inputVars, BthReady, reconnectQueued>>
        /\ BrbLock' = NULL
    BY <2>1 DEF Completes
  <2>4. /\ sigLive' \in SUBSET Handles /\ mediaLive' \in SUBSET Handles
        /\ sinkCodec' = sinkCodec /\ sinkState' = sinkState
    BY <1>2 DEF CompleteBrb, CompleteOpenSignaling, CompleteOpenMedia,
         CompleteSendSignaling, CompleteRead, CompleteSendMedia, BrbFails,
         bthVars, TypeOK
  <2>5. tx' \in [Handles -> Seq(CommandMsgs)]
    <3>1. CASE CompleteSendSignaling(t)
      <4> DEFINE msg == [signal |-> pc[t], codec |-> brb[t].codec]
      <4>1. msg \in CommandMsgs
        BY <3>1 DEF CompleteSendSignaling, TypeOK, Brbs, CommandMsgs
      <4>2. \A g \in Handles : Append(tx[g], msg) \in Seq(CommandMsgs)
        BY <4>1, AppendType DEF TypeOK
      <4>3. QED
        BY <3>1, <4>2 DEF CompleteSendSignaling, TypeOK
    <3>2. CASE tx' = tx
      BY <3>2 DEF TypeOK
    <3>3. QED
      BY <1>2, <3>1, <3>2 DEF CompleteBrb, CompleteOpenSignaling,
           CompleteOpenMedia, CompleteRead, CompleteSendMedia, BrbFails, bthVars
  <2>6. /\ rx' \in [Handles -> Seq(Packets)]
        /\ AvdtpWorkBuf' = AvdtpWorkBuf \/ AvdtpWorkBuf' \in Packets
        /\ pc[t] = "READ" /\ brb'[t].phase = "ok" => AvdtpWorkBuf' \in Packets
    <3>1. CASE CompleteRead(t)
      <4>1. PICK c \in Handles : /\ rx[c] # << >> /\ AvdtpWorkBuf' = Head(rx[c])
                                 /\ rx' = [rx EXCEPT ![c] = Tail(@)]
        BY <3>1 DEF CompleteRead, TypeOK
      <4>2. rx[c] \in Seq(Packets)
        BY DEF TypeOK
      <4>3. Head(rx[c]) \in Packets /\ Tail(rx[c]) \in Seq(Packets)
        BY <4>1, <4>2
      <4>4. QED
        BY <4>1, <4>3 DEF TypeOK
    <3>2. CASE ~CompleteRead(t)
      <4>1. rx' = rx /\ AvdtpWorkBuf' = AvdtpWorkBuf
        BY <1>2, <3>2 DEF CompleteBrb, CompleteOpenSignaling, CompleteOpenMedia,
             CompleteSendSignaling, CompleteSendMedia, BrbFails, bthVars
      <4>2. pc[t] = "READ" => BrbFails(t)
        BY <1>2, <3>2 DEF CompleteBrb, CompleteOpenSignaling, CompleteOpenMedia,
             CompleteSendSignaling, CompleteSendMedia, Commands
      <4>3. brb[t].handle \in Handles \cup {NULL}
        BY DEF TypeOK, Brbs
      <4>4. pc[t] = "READ" => brb'[t].phase = "fail"
        BY <4>2, <4>3, CompletesType DEF BrbFails
      <4>5. QED
        BY <4>1, <4>4 DEF TypeOK
    <3>3. QED
      BY <3>1, <3>2
  <2>7. TypeOK'
    BY <2>2, <2>3, <2>4, <2>5, <2>6 DEF TypeOK, avdtpVars, chanVars, inputVars
  <2>8. ReadsPacket'
    BY <2>2, <2>3, <2>6 DEF ReadsPacket, Returned
  <2>9. CarriesCodec'
    BY <2>2, <2>3 DEF CarriesCodec
  <2>10. QED
    BY <2>7, <2>8, <2>9
<1>3. QED
  BY <1>1, <1>2 DEF SubmitBrb

-----------------------------------------------------------------------------
(***************************************************************************)
(* The other steps.  All of them leave the lock and the packet buffer      *)
(* alone, and those of a thread move that thread only.                     *)
(***************************************************************************)
Moves(t) ==
  /\ pc' \in [Threads -> Label]
  /\ brb' \in [Threads -> Brbs]
  /\ \A u \in Threads \ {t} : pc'[u] = pc[u] /\ brb'[u] = brb[u]
  /\ brb'[t].phase # "inflight"
  /\ pc'[t] = "READ" => brb'[t].phase # "ok"
  /\ pc'[t] = "SET_CONFIGURATION" => brb'[t].codec \in Configurable
  /\ brb'[t].codec \in Configurable \cup {NULL}

\* Entering a BRB that waits for the lock, or has failed, is a move.
LEMMA EnterMoves ==
  ASSUME TypeOK, NEW t \in Threads, NEW l \in Label, NEW p \in {"wait", "fail"},
         NEW h \in Handles \cup {NULL}, NEW c \in Configurable \cup {NULL},
         l = "SET_CONFIGURATION" => c \in Configurable,
         Enter(t, l, p, h, c)
  PROVE  Moves(t)
<1>1. p \in Phases /\ c \in Codecs \cup {NULL}
  BY ConstantAssumption DEF Phases
<1>2. QED
  BY <1>1, EnterType DEF Moves

\* Going on outside a BRB is a move, and so is returning from a callback.
LEMMA ContinueMoves ==
  ASSUME TypeOK, NEW t \in Threads, NEW l \in {"idle", "CONNECTING", "CONNECT"},
         Continue(t, l)
  PROVE  Moves(t)
<1>1. l # "SET_CONFIGURATION" /\ l # "READ" /\ l \in Label
  BY DEF Label
<1>2. NoBrb.phase = "none" /\ NoBrb.codec = NULL
  BY DEF NoBrb
<1>3. QED
  BY <1>1, <1>2, ContinueType DEF Moves

LEMMA ReturnMoves ==
  ASSUME TypeOK, NEW t \in Threads, Return(t)
  PROVE  Moves(t)
BY ContinueMoves DEF Return

\* Sending an AVDTP command is a move.
LEMMA SendCommandMoves ==
  ASSUME TypeOK, NEW t \in Threads, NEW signal \in Commands,
         NEW c \in Configurable \cup {NULL},
         signal = "SET_CONFIGURATION" => c \in Configurable,
         NEW h \in Handles \cup {NULL}, AvdtpSendCommand(t, signal, h, c)
  PROVE  Moves(t)
<1>1. c \in Codecs \cup {NULL} /\ signal \in Label
  BY ConstantAssumption DEF Label
<1>2. PICK p \in {"wait", "fail"} : Enter(t, signal, p, h, c)
  BY <1>1, SendCommandEnters
<1>3. QED
  BY <1>1, <1>2, EnterMoves

\* The fields of the device extension the handlers write.
Fields ==
  /\ State \in AvdtpStates
  /\ RemoteSeid \in Seids \cup {NULL}
  /\ {ActiveCodecId, PendingCodecId} \subseteq Configurable
  /\ SignalingChannelHandle \in Handles \cup {NULL}
  /\ MediaChannelHandle \in Handles \cup {NULL}

\* A step that moves thread t, or none, and writes no more than the fields.
HandlerStep(t) ==
  /\ Moves(t) \/ UNCHANGED <<pc, brb>>
  /\ UNCHANGED <<AvdtpWorkBuf, bthVars, disconnects, BrbLock>>
  /\ Fields'
  /\ PreferredCodecId' \in Codecs /\ switches' \in 0..MaxSwitches

Flags ==
  /\ BthReady \in BOOLEAN /\ PendingRecvLen \in BOOLEAN
  /\ avdtpQueued \in BOOLEAN /\ reconnectQueued \in BOOLEAN

\* The invariant gives the fields their types.
LEMMA FieldsHold == IndInv => Fields
BY DEF IndInv, TypeInv, TypeOK, CodecInv, OnlyConfigurable, Fields

\* A step of a handler preserves the invariant.
LEMMA HandlerPreserves ==
  ASSUME IndInv, NEW t \in Threads, HandlerStep(t), Flags'
  PROVE  IndInv'
<1> USE DEF IndInv, TypeInv
<1>1. Moves(t) \/ UNCHANGED <<pc, brb>>
  BY DEF HandlerStep
<1>2. pc' \in [Threads -> Label] /\ brb' \in [Threads -> Brbs]
  BY <1>1 DEF Moves, TypeOK
<1>3. UNCHANGED <<AvdtpWorkBuf, sigLive, mediaLive, tx, rx, sinkCodec,
                  sinkState, disconnects, BrbLock>>
  BY DEF HandlerStep, bthVars
<1>4. TypeOK'
  <2>1. Fields' /\ PreferredCodecId' \in Codecs /\ switches' \in 0..MaxSwitches
    BY DEF HandlerStep
  <2>2. QED
    BY <1>2, <1>3, <2>1, ConstantAssumption DEF Fields, Flags, TypeOK
<1>5. ReadsPacket'
  BY <1>1, <1>3 DEF Moves, ReadsPacket, Returned
<1>6. CarriesCodec'
  BY <1>1 DEF Moves, CarriesCodec
<1>7. LockInv'
  BY <1>1, <1>3 DEF Moves, LockInv
<1>8. \A u \in Threads : brb'[u].codec \in Configurable \cup {NULL}
  BY <1>1 DEF Moves, CodecInv
<1>9. CodecInv'
  BY <1>3, <1>6, <1>8 DEF HandlerStep, Fields, CodecInv, OnlyConfigurable,
                          CarriesCodec
<1>10. QED
  BY <1>4, <1>5, <1>6, <1>7, <1>9

\* A handler that writes none but its fields keeps the invariant.
LEMMA FramePreserves ==
  ASSUME IndInv, NEW t \in Threads, Moves(t), Fields', HandlerFrame
  PROVE  IndInv'
<1>1. UNCHANGED <<PendingRecvLen, AvdtpWorkBuf, avdtpQueued, bthVars, BthReady,
                  PreferredCodecId, disconnects, switches, reconnectQueued,
                  BrbLock>>
  BY DEF HandlerFrame, recvVars, inputVars
<1>2. Flags'
  <2>1. Flags
    BY DEF IndInv, TypeInv, TypeOK, Flags
  <2>2. QED
    BY <1>1, <2>1, Zenon DEF Flags
<1>3. PreferredCodecId' \in Codecs /\ switches' \in 0..MaxSwitches
  BY <1>1 DEF IndInv, TypeInv, TypeOK
<1>4. HandlerStep(t)
  BY <1>1, <1>3 DEF HandlerStep
<1>5. QED
  BY <1>2, <1>4, HandlerPreserves

\* The end of an open, of a read and of a command, in every handler.
LEMMA RunPreserves ==
  ASSUME IndInv, NEW t \in Threads, Run(t)
  PROVE  IndInv'
<1> USE FieldsHold
<1>t. TypeOK /\ brb[t] \in Brbs
  BY DEF IndInv, TypeInv, TypeOK
<1>h. brb[t].handle \in Handles \cup {NULL} /\ SignalingChannelHandle \in Handles \cup {NULL}
  BY <1>t DEF Brbs, TypeOK
<1>n. NULL \in Configurable \cup {NULL} /\ NULL \in Handles \cup {NULL}
  OBVIOUS
<1>c. Commands \subseteq Label /\ "OPEN_MEDIA" \in Label
  BY DEF Label
<1>1. CASE OpenSignalingReturns(t) \/ SetConnecting(t) \/ AvdtpConnect(t)
  <2>1. HandlerFrame
    BY <1>1 DEF OpenSignalingReturns, SetConnecting, AvdtpConnect, HandlerFrame
  <2>2. Fields'
    BY <1>1, <1>h DEF OpenSignalingReturns, SetConnecting, AvdtpConnect, Fields,
       avdtpVars, chanVars, AvdtpStates
  <2>3. Moves(t)
    <3>1. CASE Return(t)
      BY <3>1, <1>t, ReturnMoves
    <3>2. CASE Continue(t, "CONNECTING") \/ Continue(t, "CONNECT")
      BY <3>2, <1>t, ContinueMoves
    <3>3. CASE AvdtpSendCommand(t, "DISCOVER", SignalingChannelHandle, NULL)
      <4>1. "DISCOVER" \in Commands
        BY DEF Commands
      <4>2. QED
        BY <3>3, <4>1, <1>t, <1>h, <1>n, SendCommandMoves
    <3>4. QED
      BY <1>1, <3>1, <3>2, <3>3 DEF OpenSignalingReturns, SetConnecting, AvdtpConnect
  <2>4. QED
    BY <2>1, <2>2, <2>3, FramePreserves
<1>2. CASE HandlePacket(t)
  <2>1. HandlerFrame
    BY <1>2 DEF HandlePacket, ReadDropped, HandleDiscoverResponse,
         HandleGetCapabilitiesResponse, HandleSetConfigurationResponse,
         HandleOpenResponse, HandleStartResponse
  <2>p. Returned(t, "READ", "ok") => AvdtpWorkBuf \in Packets
    BY DEF IndInv, TypeInv, ReadsPacket
  <2>2. CASE ReadDropped(t)
    <3>1. Fields' /\ Return(t)
      BY <2>2 DEF ReadDropped, Fields, avdtpVars, chanVars
    <3>2. QED
      BY <2>1, <3>1, <1>t, ReturnMoves, FramePreserves
  <2>3. CASE HandleDiscoverResponse(t)
    <3>1. AvdtpWorkBuf.seid \in Seids \cup {NULL}
      BY <2>3, <2>p DEF HandleDiscoverResponse, Accepted, Packets
    <3>2. Fields'
      BY <2>3, <3>1 DEF HandleDiscoverResponse, Fields, chanVars, AvdtpStates
    <3>3. "GET_CAPABILITIES" \in Commands
      BY DEF Commands
    <3>4. Moves(t)
      BY <2>3, <3>3, <1>t, <1>h, <1>n, SendCommandMoves DEF HandleDiscoverResponse
    <3>5. QED
      BY <2>1, <3>2, <3>4, FramePreserves
  <2>4. CASE HandleGetCapabilitiesResponse(t)
    <3>1. Fields'
      BY <2>4 DEF HandleGetCapabilitiesResponse, Fields, avdtpVars, chanVars
    <3> DEFINE c == select_codec(PreferredCodecId, AvdtpWorkBuf.caps)
    <3>2. c \in Configurable
      BY SelectsConfigurable
    <3>3. "SET_CONFIGURATION" \in Commands
      BY DEF Commands
    <3>4. AvdtpSendCommand(t, "SET_CONFIGURATION", SignalingChannelHandle, c)
      BY <2>4 DEF HandleGetCapabilitiesResponse
    <3>5. Moves(t)
      <4> HIDE DEF c
      <4> QED
        BY <3>2, <3>3, <3>4, <1>t, <1>h, SendCommandMoves
    <3>6. QED
      BY <2>1, <3>1, <3>5, FramePreserves
  <2>5. CASE HandleSetConfigurationResponse(t)
    <3>1. Fields'
      BY <2>5 DEF HandleSetConfigurationResponse, Fields, chanVars
    <3>2. "OPEN" \in Commands
      BY DEF Commands
    <3>3. Moves(t)
      BY <2>5, <3>2, <1>t, <1>h, <1>n, SendCommandMoves
         DEF HandleSetConfigurationResponse
    <3>4. QED
      BY <2>1, <3>1, <3>3, FramePreserves
  <2>6. CASE HandleOpenResponse(t)
    <3>1. Fields'
      BY <2>6 DEF HandleOpenResponse, Fields, avdtpVars, chanVars
    <3>2. Moves(t)
      BY <2>6, <1>t, <1>c, <1>n, EnterMoves DEF HandleOpenResponse
    <3>3. QED
      BY <2>1, <3>1, <3>2, FramePreserves
  <2>7. CASE HandleStartResponse(t)
    <3>1. Fields' /\ Return(t)
      BY <2>7 DEF HandleStartResponse, Fields, chanVars, AvdtpStates
    <3>2. QED
      BY <2>1, <3>1, <1>t, ReturnMoves, FramePreserves
  <2>8. QED
    BY <1>2, <2>2, <2>3, <2>4, <2>5, <2>6, <2>7 DEF HandlePacket
<1>3. CASE CommandReturns(t)
  <2>1. HandlerFrame
    BY <1>3 DEF CommandReturns, DiscoverReturns, SetConfigurationReturns,
         OpenReturns, OpenMediaReturns, ResultIgnored, HandlerFrame
  <2>2. CASE OpenMediaReturns(t)
    <3>1. Fields'
      BY <2>2, <1>h DEF OpenMediaReturns, Fields, AvdtpStates
    <3>2. CASE Return(t)
      BY <2>1, <3>1, <3>2, <1>t, ReturnMoves, FramePreserves
    <3>3. CASE AvdtpSendCommand(t, "START", SignalingChannelHandle, NULL)
      <4>1. "START" \in Commands
        BY DEF Commands
      <4>2. Moves(t)
        BY <3>3, <4>1, <1>t, <1>h, <1>n, SendCommandMoves
      <4>3. QED
        BY <2>1, <3>1, <4>2, FramePreserves
    <3>4. QED
      BY <2>2, <3>2, <3>3 DEF OpenMediaReturns
  <2>3. CASE SetConfigurationReturns(t)
    <3>1. brb[t].codec \in Configurable
      BY <2>3 DEF SetConfigurationReturns, Returned, IndInv, TypeInv, CarriesCodec
    <3>2. Fields' /\ Return(t)
      BY <2>3, <3>1 DEF SetConfigurationReturns, Fields, chanVars, AvdtpStates
    <3>3. QED
      BY <2>1, <3>2, <1>t, ReturnMoves, FramePreserves
  <2>4. CASE DiscoverReturns(t) \/ OpenReturns(t) \/ ResultIgnored(t)
    <3>1. Fields' /\ Return(t)
      BY <2>4 DEF DiscoverReturns, OpenReturns, ResultIgnored, Fields, avdtpVars,
           chanVars, AvdtpStates
    <3>2. QED
      BY <2>1, <3>1, <1>t, ReturnMoves, FramePreserves
  <2>5. QED
    BY <1>3, <2>2, <2>3, <2>4 DEF CommandReturns
<1>4. QED
  BY <1>1, <1>2, <1>3 DEF Run

\* EvtDeviceAdd, the timer and the two work items, up to their first BRB.
LEMMA StartPreserves ==
  ASSUME IndInv,
         \/ OwbEvtDeviceAdd
         \/ OwbReconnectTimer
         \/ \E t \in ReconnectWorkers : OwbReconnectWorkCallback(t)
         \/ \E t \in AvdtpWorkers : OwbAvdtpWorkCallback(t)
  PROVE  IndInv'
<1> USE FieldsHold, ThreadFacts
<1>t. TypeOK /\ Flags /\ SignalingChannelHandle \in Handles \cup {NULL}
  BY DEF IndInv, TypeInv, TypeOK, Flags
<1>n. /\ NULL \in Configurable \cup {NULL} /\ NULL \in Handles \cup {NULL}
      /\ "OPEN_SIGNALING" \in Label /\ "READ" \in Label
  BY DEF Label
<1>s. ASSUME UNCHANGED <<avdtpVars, chanVars, AvdtpWorkBuf, bthVars, inputVars,
                         BrbLock>>,
             NEW t \in Threads, Moves(t) \/ UNCHANGED <<pc, brb>>
      PROVE  HandlerStep(t)
  <2>1. Fields'
    BY <1>s DEF Fields, avdtpVars, chanVars
  <2>2. PreferredCodecId' \in Codecs /\ switches' \in 0..MaxSwitches
    BY <1>s, <1>t DEF inputVars, TypeOK
  <2>3. QED
    BY <1>s, <2>1, <2>2 DEF HandlerStep, inputVars
<1>1. CASE OwbEvtDeviceAdd
  <2>1. Moves("add")
    <3>1. CASE Return("add")
      BY <3>1, <1>t, ReturnMoves
    <3>2. CASE Enter("add", "OPEN_SIGNALING", "wait", NULL, NULL)
      BY <3>2, <1>t, <1>n, EnterMoves
    <3>3. QED
      BY <1>1, <3>1, <3>2 DEF OwbEvtDeviceAdd
  <2>2. HandlerStep("add")
    BY <1>1, <2>1, <1>s DEF OwbEvtDeviceAdd, recvVars
  <2>3. Flags'
    BY <1>1, <1>t, Zenon DEF OwbEvtDeviceAdd, recvVars, Flags
  <2>4. QED
    BY <2>2, <2>3, HandlerPreserves
<1>2. CASE OwbReconnectTimer
  <2>1. HandlerStep("add")
    BY <1>2, <1>s DEF OwbReconnectTimer, recvVars
  <2>2. Flags'
    BY <1>2, <1>t, Zenon DEF OwbReconnectTimer, recvVars, Flags
  <2>3. QED
    BY <2>1, <2>2, HandlerPreserves
<1>3. ASSUME NEW t \in ReconnectWorkers, OwbReconnectWorkCallback(t)
      PROVE  IndInv'
  <2>1. Moves(t) \/ UNCHANGED <<pc, brb>>
    <3>1. CASE Return(t)
      BY <3>1, <1>t, ReturnMoves
    <3>2. CASE Enter(t, "OPEN_SIGNALING", "wait", NULL, NULL)
      BY <3>2, <1>t, <1>n, EnterMoves
    <3>3. QED
      BY <1>3, <3>1, <3>2 DEF OwbReconnectWorkCallback, L2capOpenSignalingChannel
  <2>2. HandlerStep(t)
    BY <1>3, <2>1, <1>s DEF OwbReconnectWorkCallback, recvVars
  <2>3. Flags'
    BY <1>3, <1>t, Zenon DEF OwbReconnectWorkCallback, recvVars, Flags
  <2>4. QED
    BY <2>2, <2>3, HandlerPreserves
<1>4. ASSUME NEW t \in AvdtpWorkers, OwbAvdtpWorkCallback(t)
      PROVE  IndInv'
  <2>1. Moves(t) \/ UNCHANGED <<pc, brb>>
    <3>1. CASE Enter(t, "READ", "wait", SignalingChannelHandle, NULL)
      BY <3>1, <1>t, <1>n, EnterMoves
    <3>2. QED
      BY <1>4, <3>1 DEF OwbAvdtpWorkCallback
  <2>2. HandlerStep(t)
    BY <1>4, <2>1, <1>s DEF OwbAvdtpWorkCallback
  <2>3. Flags'
    BY <1>4, <1>t, Zenon DEF OwbAvdtpWorkCallback, Flags
  <2>4. QED
    BY <2>2, <2>3, HandlerPreserves
<1>5. QED
  BY <1>1, <1>2, <1>3, <1>4

\* The IOCTL queue: a codec switch and a frame.
LEMMA IoctlPreserves ==
  ASSUME IndInv,
         \/ AvdtpSetPreferredCodec \/ SuspendReturns
         \/ L2capSendMediaFrame \/ SendMediaReturns
  PROVE  IndInv'
<1> USE FieldsHold, ThreadFacts
<1>t. /\ TypeOK /\ SignalingChannelHandle \in Handles \cup {NULL}
      /\ MediaChannelHandle \in Handles \cup {NULL}
  BY DEF IndInv, TypeInv, TypeOK
<1>n. /\ NULL \in Configurable \cup {NULL} /\ "SEND_MEDIA" \in Label
      /\ "SUSPEND" \in Commands /\ "DISCOVER" \in Commands
  BY DEF Label, Commands
<1>1. CASE AvdtpSetPreferredCodec
  <2>1. Moves("ioctl") \/ UNCHANGED <<pc, brb>>
    BY <1>1, <1>t, <1>n, SendCommandMoves DEF AvdtpSetPreferredCodec
  <2>2. Flags'
    <3>1. Flags
      BY <1>t DEF TypeOK, Flags
    <3>2. QED
      BY <1>1, <3>1, Zenon DEF AvdtpSetPreferredCodec, recvVars, Flags
  <2>3. switches' \in 0..MaxSwitches
    BY <1>1, <1>t, ConstantAssumption DEF AvdtpSetPreferredCodec, TypeOK
  <2>4. Fields' /\ PreferredCodecId' \in Codecs
    BY <1>1 DEF AvdtpSetPreferredCodec, Fields, avdtpVars, chanVars
  <2>5. HandlerStep("ioctl")
    BY <1>1, <2>1, <2>3, <2>4 DEF HandlerStep, AvdtpSetPreferredCodec, recvVars
  <2>6. QED
    BY <2>2, <2>5, HandlerPreserves
<1>2. CASE SuspendReturns
  <2>1. HandlerFrame /\ Fields'
    BY <1>2 DEF SuspendReturns, Fields, chanVars, AvdtpStates
  <2>2. Moves("ioctl")
    <3>1. CASE Return("ioctl")
      BY <3>1, <1>t, ReturnMoves
    <3>2. CASE Continue("ioctl", "CONNECT")
      BY <3>2, <1>t, ContinueMoves
    <3>3. QED
      BY <1>2, <3>1, <3>2 DEF SuspendReturns
  <2>3. QED
    BY <2>1, <2>2, FramePreserves
<1>3. CASE L2capSendMediaFrame
  <2>1. HandlerFrame /\ Fields'
    BY <1>3 DEF L2capSendMediaFrame, Fields, avdtpVars, chanVars
  <2>2. Moves("ioctl")
    BY <1>3, <1>t, <1>n, EnterMoves DEF L2capSendMediaFrame
  <2>3. QED
    BY <2>1, <2>2, FramePreserves
<1>4. CASE SendMediaReturns
  <2>1. HandlerFrame /\ Fields'
    BY <1>4 DEF SendMediaReturns, Fields, avdtpVars, chanVars
  <2>2. Moves("ioctl")
    BY <1>4, <1>t, ReturnMoves DEF SendMediaReturns
  <2>3. QED
    BY <2>1, <2>2, FramePreserves
<1>5. QED
  BY <1>1, <1>2, <1>3, <1>4

\* L2capSubmitBrb: the lock goes to a thread whose BRB is then the only one
\* in flight, and no BRB changes its codec.
LEMMA SubmitPreserves ==
  ASSUME IndInv, NEW t \in Threads, SubmitBrb(t)
  PROVE  IndInv'
<1>1. TypeInv'
  BY SubmitTypeInv DEF IndInv
<1>2. TypeOK
  BY DEF IndInv, TypeInv
<1>n. NULL \notin Threads
  BY ThreadNullAssumption
<1>3. LockInv'
  <2>1. CASE AcquireBrbLock(t)
    BY <2>1, <1>2, <1>n DEF AcquireBrbLock, IndInv, LockInv, TypeOK
  <2>2. CASE CompleteBrb(t)
    <3>1. PICK p \in {"ok", "fail"}, h \in Handles \cup {NULL} : Completes(t, p, h)
      <4>1. brb[t].handle \in Handles \cup {NULL}
        BY <1>2 DEF TypeOK, Brbs
      <4>2. QED
        BY <2>2, <4>1 DEF CompleteBrb, CompleteOpenSignaling, CompleteOpenMedia,
             CompleteSendSignaling, CompleteRead, CompleteSendMedia, BrbFails
    <3>2. brb'[t].phase = p /\ \A u \in Threads \ {t} : brb'[u] = brb[u]
      BY <1>2, <3>1, CompletesType
    <3>3. \A u \in Threads \ {t} : brb[u].phase # "inflight"
      BY <3>1 DEF Completes, IndInv, LockInv
    <3>4. QED
      BY <3>2, <3>3 DEF LockInv
  <2>3. QED
    BY <2>1, <2>2 DEF SubmitBrb
<1>4. \A u \in Threads : brb'[u].codec = brb[u].codec
  <2>1. CASE AcquireBrbLock(t)
    <3>1. brb[t] \in Brbs
      BY <1>2 DEF TypeOK
    <3>2. [brb[t] EXCEPT !.phase = "inflight"].codec = brb[t].codec
      BY <3>1 DEF Brbs
    <3>3. QED
      BY <2>1, <1>2, <3>2 DEF AcquireBrbLock, TypeOK
  <2>2. CASE CompleteBrb(t)
    <3>1. PICK p \in {"ok", "fail"}, h \in Handles \cup {NULL} : Completes(t, p, h)
      <4>1. brb[t].handle \in Handles \cup {NULL}
        BY <1>2 DEF TypeOK, Brbs
      <4>2. QED
        BY <2>2, <4>1 DEF CompleteBrb, CompleteOpenSignaling, CompleteOpenMedia,
             CompleteSendSignaling, CompleteRead, CompleteSendMedia, BrbFails
    <3>2. QED
      BY <1>2, <3>1, CompletesType
  <2>3. QED
    BY <2>1, <2>2 DEF SubmitBrb
<1>5. UNCHANGED <<pc, ActiveCodecId, PendingCodecId, sinkCodec>>
  BY DEF SubmitBrb, AcquireBrbLock, CompleteBrb, CompleteOpenSignaling,
     CompleteOpenMedia, CompleteSendSignaling, CompleteRead, CompleteSendMedia,
     BrbFails, Completes, avdtpVars, bthVars
<1>6. ASSUME NEW h \in Handles, NEW i \in DOMAIN tx'[h]
      PROVE  tx'[h][i].codec \in Configurable \cup {NULL}
  <2>1. CASE CompleteSendSignaling(t)
    <3> DEFINE g == brb[t].handle
               msg == [signal |-> pc[t], codec |-> brb[t].codec]
    <3>1. /\ g \in Handles
          /\ tx' = [tx EXCEPT ![g] = Append(@, msg)]
      BY <2>1, <1>2 DEF CompleteSendSignaling, TypeOK
    <3>2. msg.codec \in Configurable \cup {NULL}
      BY DEF IndInv, CodecInv
    <3>3. tx[h] \in Seq(CommandMsgs)
      BY <1>2 DEF TypeOK
    <3> HIDE DEF msg, g
    <3>4. tx'[h] = tx[h] \/ tx'[h] = Append(tx[h], msg)
      BY <3>1, <1>2 DEF TypeOK
    <3>5. tx'[h][i] = msg \/ (i \in DOMAIN tx[h] /\ tx'[h][i] = tx[h][i])
      BY <1>6, <3>3, <3>4
    <3>6. QED
      BY <3>2, <3>5 DEF IndInv, CodecInv, OnlyConfigurable
  <2>2. CASE tx' = tx
    BY <1>6, <2>2 DEF IndInv, CodecInv, OnlyConfigurable
  <2>3. QED
    BY <2>1, <2>2 DEF SubmitBrb, AcquireBrbLock, CompleteBrb, bthVars,
       CompleteOpenSignaling, CompleteOpenMedia, CompleteRead,
       CompleteSendMedia, BrbFails
<1>7. CodecInv'
  BY <1>4, <1>5, <1>6 DEF IndInv, CodecInv, OnlyConfigurable
<1>8. QED
  BY <1>1, <1>3, <1>7 DEF IndInv

\* What the sink answers is a packet, and it stays in one of its states.
LEMMA ResponseType ==
  ASSUME TypeOK, NEW signal \in Commands, NEW r \in Responses(signal)
  PROVE  r \in Packets /\ SinkStateAfter(signal) \in SinkStates
<1>1. ASSUME NEW d \in Commands, NEW a \in BOOLEAN, NEW s \in Seids \cup {NULL},
             NEW c \in SUBSET Codecs
      PROVE  Response(d, a, s, c) \in Packets
  BY DEF Response, Packets
<1>2. /\ TRUE \in BOOLEAN /\ FALSE \in BOOLEAN /\ {} \in SUBSET Codecs
      /\ NULL \in Seids \cup {NULL} /\ Seids \subseteq Seids \cup {NULL}
      /\ SinkCaps \subseteq SUBSET Codecs
  BY ConstantAssumption
<1>3. Accepts(signal) \subseteq Packets
  <2>1. \A s \in Seids : Response(signal, TRUE, s, {}) \in Packets
    BY <1>1, <1>2
  <2>2. \A c \in SinkCaps : Response(signal, TRUE, NULL, c) \in Packets
    BY <1>1, <1>2
  <2>3. Response(signal, TRUE, NULL, {}) \in Packets
    BY <1>1, <1>2
  <2>4. CASE signal = "DISCOVER"
    BY <2>1, <2>4 DEF Accepts
  <2>5. CASE signal = "GET_CAPABILITIES"
    BY <2>2, <2>5 DEF Accepts
  <2>6. CASE signal \notin {"DISCOVER", "GET_CAPABILITIES"}
    <3>1. Accepts(signal) = {Response(signal, TRUE, NULL, {})}
      BY <2>6 DEF Accepts
    <3>2. QED
      BY <2>3, <3>1
  <2>7. QED
    BY <2>4, <2>5, <2>6
<1>4. Refusals(signal) \subseteq Packets
  <2>1. Response(signal, FALSE, NULL, {}) \in Packets
    BY <1>1, <1>2
  <2>2. \A d \in {signal} \cap {"DISCOVER"} : Response(d, TRUE, NULL, {}) \in Packets
    BY <1>1, <1>2
  <2>3. QED
    BY <2>1, <2>2 DEF Refusals
<1>5. r \in Packets
  BY <1>3, <1>4 DEF Responses
<1>6. SinkStateAfter(signal) \in SinkStates
  BY DEF SinkStateAfter, SinkStates, TypeOK
<1>7. QED
  BY <1>5, <1>6

\* A packet arrives: the sink has taken the command from the channel.
LEMMA RecvPacketPreserves ==
  ASSUME IndInv, NEW h \in Handles, IndicationRecvPacket(h)
  PROVE  IndInv'
<1>t. TypeOK /\ tx[h] \in Seq(CommandMsgs) /\ tx[h] # << >>
  BY DEF IndInv, TypeInv, TypeOK, IndicationRecvPacket
<1> DEFINE cmd == Head(tx[h])
<1>1. cmd \in CommandMsgs /\ Tail(tx[h]) \in Seq(CommandMsgs)
  BY <1>t
<1>2. cmd.signal \in Commands
  BY <1>1 DEF CommandMsgs
<1>3. cmd.codec \in Configurable \cup {NULL}
  <2>1. 1 \in DOMAIN tx[h] /\ cmd = tx[h][1]
    BY <1>t
  <2>2. QED
    BY <2>1 DEF IndInv, CodecInv, OnlyConfigurable
<1>4. PICK r \in Responses(cmd.signal) :
         /\ rx' = [rx EXCEPT ![h] = Append(@, r)]
         /\ sinkCodec' = IF r.accept /\ cmd.signal = "SET_CONFIGURATION"
                         THEN cmd.codec ELSE sinkCodec
         /\ sinkState' = IF r.accept THEN SinkStateAfter(cmd.signal)
                                     ELSE sinkState
  BY DEF IndicationRecvPacket
<1>5. r \in Packets /\ SinkStateAfter(cmd.signal) \in SinkStates
  BY <1>t, <1>2, ResponseType
<1> HIDE DEF cmd
<1>6. rx' \in [Handles -> Seq(Packets)]
  <2>1. \A g \in Handles : Append(rx[g], r) \in Seq(Packets)
    BY <1>t, <1>5, AppendType DEF TypeOK
  <2>2. QED
    BY <1>t, <1>4, <2>1 DEF TypeOK
<1>7. tx' = [tx EXCEPT ![h] = Tail(@)]
  BY DEF IndicationRecvPacket
<1>8. tx' \in [Handles -> Seq(CommandMsgs)]
  BY <1>t, <1>1, <1>7 DEF TypeOK
<1>9. sinkCodec' \in Configurable \cup {NULL} /\ sinkState' \in SinkStates
  BY <1>t, <1>3, <1>4, <1>5 DEF IndInv, CodecInv, OnlyConfigurable, TypeOK
<1>10. UNCHANGED <<avdtpVars, chanVars, AvdtpWorkBuf, inputVars, sigLive,
                   mediaLive, BthReady, reconnectQueued, BrbLock, pc, brb>>
  BY DEF IndicationRecvPacket
<1>11. Flags'
  <2>1. Flags
    BY <1>t DEF TypeOK, Flags
  <2>2. QED
    BY <2>1, Zenon DEF IndicationRecvPacket, Flags
<1>12. TypeOK'
  BY <1>t, <1>6, <1>8, <1>9, <1>10, <1>11, ConstantAssumption
     DEF TypeOK, Flags, avdtpVars, chanVars, inputVars
<1>13. \A g \in Handles : \A i \in DOMAIN tx'[g] :
          tx'[g][i].codec \in Configurable \cup {NULL}
  <2> SUFFICES ASSUME NEW g \in Handles, NEW i \in DOMAIN tx'[g]
               PROVE  tx'[g][i].codec \in Configurable \cup {NULL}
    OBVIOUS
  <2>1. CASE g # h
    BY <2>1, <1>t, <1>7 DEF TypeOK, IndInv, CodecInv, OnlyConfigurable
  <2>2. CASE g = h
    <3>1. tx'[g] = Tail(tx[h])
      BY <2>2, <1>t, <1>7 DEF TypeOK
    <3>2. i + 1 \in DOMAIN tx[h] /\ tx'[g][i] = tx[h][i + 1]
      BY <1>t, <3>1
    <3>3. QED
      BY <3>2 DEF IndInv, CodecInv, OnlyConfigurable
  <2>3. QED
    BY <2>1, <2>2
<1>14. CodecInv'
  BY <1>9, <1>10, <1>13 DEF IndInv, CodecInv, OnlyConfigurable, avdtpVars
<1>15. QED
  BY <1>10, <1>12, <1>14 DEF IndInv, TypeInv, ReadsPacket, CarriesCodec,
                             Returned, LockInv

\* The remote closes channels: the packets on them are gone.
LEMMA DisconnectPreserves ==
  ASSUME IndInv, IndicationRemoteDisconnect \/ MediaClosed
  PROVE  IndInv'
<1>t. TypeOK /\ Flags
  BY DEF IndInv, TypeInv, TypeOK, Flags
<1>1. /\ UNCHANGED <<RemoteSeid, ActiveCodecId, PendingCodecId, PreferredCodecId,
                     switches, recvVars, BthReady, reconnectQueued, BrbLock,
                     pc, brb>>
      /\ \/ disconnects' = disconnects + 1 /\ disconnects < MaxDisconnects
         \/ disconnects' = disconnects
  BY DEF IndicationRemoteDisconnect, MediaClosed, avdtpVars, inputVars
<1>2. disconnects' \in 0..MaxDisconnects
  BY <1>1, <1>t, ConstantAssumption DEF TypeOK
<1>3. Flags'
  BY <1>1, <1>t, Zenon DEF Flags, recvVars
<1>4. /\ State' \in AvdtpStates /\ sinkState' \in SinkStates
      /\ SignalingChannelHandle' \in Handles \cup {NULL}
      /\ MediaChannelHandle' \in Handles \cup {NULL}
      /\ sigLive' \in SUBSET Handles /\ mediaLive' \in SUBSET Handles
      /\ tx' \in [Handles -> Seq(CommandMsgs)] /\ rx' \in [Handles -> Seq(Packets)]
      /\ sinkCodec' \in {sinkCodec, NULL}
  <2>1. CASE IndicationRemoteDisconnect
    <3>1. /\ tx' \in [Handles -> Seq(CommandMsgs)]
          /\ rx' \in [Handles -> Seq(Packets)]
      BY <2>1 DEF IndicationRemoteDisconnect
    <3>2. QED
      BY <2>1, <3>1 DEF IndicationRemoteDisconnect, AvdtpStates, SinkStates
  <2>2. CASE MediaClosed
    BY <2>2, <1>t DEF MediaClosed, TypeOK, avdtpVars, chanVars
  <2>3. QED
    BY <2>1, <2>2
<1>5. TypeOK'
  BY <1>t, <1>1, <1>2, <1>3, <1>4 DEF TypeOK, Flags, recvVars
<1>6. tx' = tx \/ \A h \in Handles : tx'[h] = << >>
  BY DEF IndicationRemoteDisconnect, MediaClosed
<1>7. CodecInv'
  BY <1>1, <1>4, <1>6 DEF IndInv, CodecInv, OnlyConfigurable
<1>8. QED
  BY <1>1, <1>5, <1>7 DEF IndInv, TypeInv, ReadsPacket, CarriesCodec, Returned,
                          LockInv, recvVars

-----------------------------------------------------------------------------
\* The invariant holds when the driver is loaded.
LEMMA InitIndInv == Init => IndInv
<1> SUFFICES ASSUME Init PROVE IndInv
  OBVIOUS
<1>1. \A t \in Threads : brb[t].phase = "none" /\ brb[t].codec = NULL
  BY DEF Init, NoBrb
<1>2. \A h \in Handles : tx[h] = << >>
  BY DEF Init
<1>3. TypeInv
  BY InitTypeInv
<1>4. CodecInv
  BY <1>1, <1>2, <1>3, ConstantAssumption DEF Init, TypeInv, CarriesCodec,
     CodecInv, OnlyConfigurable
<1>5. QED
  BY <1>1, <1>3, <1>4 DEF IndInv, LockInv

\* Every step of every thread and of the environment preserves it.
LEMMA NextIndInv == IndInv /\ [Next]_vars => IndInv'
<1> SUFFICES ASSUME IndInv, [Next]_vars PROVE IndInv'
  OBVIOUS
<1>1. ASSUME NEW t \in Threads, SubmitBrb(t) PROVE IndInv'
  BY <1>1, SubmitPreserves
<1>2. ASSUME NEW t \in Threads, Run(t) PROVE IndInv'
  BY <1>2, RunPreserves
<1>3. ASSUME NEW h \in Handles, IndicationRecvPacket(h) PROVE IndInv'
  BY <1>3, RecvPacketPreserves
<1>4. CASE IndicationRemoteDisconnect \/ MediaClosed
  BY <1>4, DisconnectPreserves
<1>5. CASE \/ AvdtpSetPreferredCodec \/ SuspendReturns
           \/ L2capSendMediaFrame \/ SendMediaReturns
  BY <1>5, IoctlPreserves
<1>6. CASE \/ OwbEvtDeviceAdd
           \/ OwbReconnectTimer
           \/ \E t \in ReconnectWorkers : OwbReconnectWorkCallback(t)
           \/ \E t \in AvdtpWorkers : OwbAvdtpWorkCallback(t)
  BY <1>6, StartPreserves
<1>7. CASE UNCHANGED vars
  <2>1. Flags /\ Fields /\ TypeOK
    BY FieldsHold DEF IndInv, TypeInv, TypeOK, Flags
  <2>2. Flags'
    BY <1>7, <2>1, Zenon DEF vars, recvVars, Flags
  <2>3. Fields' /\ PreferredCodecId' \in Codecs /\ switches' \in 0..MaxSwitches
    BY <1>7, <2>1 DEF vars, avdtpVars, chanVars, inputVars, TypeOK, Fields
  <2>4. HandlerStep("add")
    BY <1>7, <2>3 DEF vars, recvVars, inputVars, HandlerStep
  <2>5. QED
    BY <2>2, <2>4, ThreadFacts, HandlerPreserves
<1>8. QED
  BY <1>1, <1>2, <1>3, <1>4, <1>5, <1>6, <1>7 DEF Next

\* The inductive invariant holds in every reachable state of the driver.
THEOREM Invariance == Spec => []IndInv
BY InitIndInv, NextIndInv, PTL DEF Spec

\* Every field of the device extension, every BRB and every packet has its
\* type: no handler reads AvdtpWorkBuf before a packet was read into it, and
\* no SET_CONFIGURATION is sent without a codec.
THEOREM TypeCorrect == Spec => []TypeOK
<1>1. IndInv => TypeOK
  BY DEF IndInv, TypeInv
<1>2. QED
  BY <1>1, Invariance, PTL

\* L2capSubmitBrb: with any number of worker threads, at most one BRB is in
\* flight on the shared BrbRequest.
THEOREM BrbExclusion == Spec => []BrbExclusive
<1>1. IndInv => BrbExclusive
  BY DEF IndInv, LockInv, BrbExclusive
<1>2. QED
  BY <1>1, Invariance, PTL

\* No codec without a row in kCodecConfigs is ever sent, configured at the
\* sink or reported as active, whatever the service prefers and the sink
\* advertises.
THEOREM ConfigurableOnly == Spec => []OnlyConfigurable
<1>1. IndInv => OnlyConfigurable
  BY DEF IndInv, CodecInv
<1>2. QED
  BY <1>1, Invariance, PTL

-----------------------------------------------------------------------------
(***************************************************************************)
(* One session of the driver with its sink: the signalling channel is not  *)
(* lost, and what is streamed is what was negotiated.  Both need that a    *)
(* work item is not run by two system threads at once.                     *)
(***************************************************************************)
OneReconnectWorker == \A r, s \in ReconnectWorkers : r = s
OneAvdtpWorker == \A v, w \in AvdtpWorkers : v = w

-----------------------------------------------------------------------------
(***************************************************************************)
(* Opening the signalling channel.                                         *)
(***************************************************************************)
\* Which threads open it, and that nobody does until EvtDeviceAdd is over.
OpenerInv ==
  /\ \A t \in Threads : pc[t] = "OPEN_SIGNALING" => t \in {"add"} \cup ReconnectWorkers
  /\ pc["add"] # "idle" =>
       reconnectQueued = FALSE /\ \A r \in ReconnectWorkers : pc[r] = "idle"

\* While a thread opens the channel, or may, there is none.
NoChannelInv ==
  pc["add"] = "start" \/ (\E t \in Threads : pc[t] = "OPEN_SIGNALING") =>
    SignalingChannelHandle = NULL

OpenInv == OpenerInv /\ NoChannelInv /\ SignalingNotLeaked

-----------------------------------------------------------------------------
(***************************************************************************)
(* The conversation with the sink, on a link that was not lost.  Its next  *)
(* step is in the hands of one thread, or on the wire, or in a reply to be *)
(* read, or nowhere: the conversation is over.  SUSPEND is asked beside it.*)
(***************************************************************************)
Conversation == Commands \ {"SUSPEND"}

\* Thread t has the next step in hand.
Carries(t) ==
  \/ pc[t] \in {"OPEN_SIGNALING", "CONNECTING", "CONNECT", "OPEN_MEDIA", "SUSPEND"}
  \/ pc[t] \in Conversation /\ brb[t].phase \in {"wait", "inflight"}
  \/ Returned(t, "READ", "ok") /\ AvdtpWorkBuf.signal # "SUSPEND"

Asked(h, i) == i \in DOMAIN tx[h] /\ tx[h][i].signal # "SUSPEND"
Answered(h, i) == i \in DOMAIN rx[h] /\ rx[h][i].signal # "SUSPEND"

\* Neither the wire nor a reply has the next step.
Silent == \A h \in Handles : \A i \in Nat : ~Asked(h, i) /\ ~Answered(h, i)

OneTalk ==
  /\ \A t, u \in Threads : Carries(t) /\ Carries(u) => t = u
  /\ \A t \in Threads : Carries(t) => Silent
  /\ \A h \in Handles : \A i, j \in Nat :
       /\ Asked(h, i) /\ Asked(h, j) => i = j
       /\ Answered(h, i) /\ Answered(h, j) => i = j
       /\ ~(Asked(h, i) /\ Answered(h, j))

\* Which threads are where.
Place(t) ==
  /\ pc[t] \in {"READ", "GET_CAPABILITIES", "SET_CONFIGURATION", "OPEN", "OPEN_MEDIA",
                "START"} => t \in AvdtpWorkers
  /\ pc[t] \in {"SUSPEND", "SEND_MEDIA"} => t = "ioctl"
  /\ pc[t] \in {"CONNECTING", "CONNECT", "DISCOVER"} => t \notin AvdtpWorkers

PlaceInv == \A t \in Threads : Place(t)

\* There is one signalling channel, and nothing happens before it is open.
ChannelInv ==
  /\ \A h \in Handles : h # SignalingChannelHandle => tx[h] = << >> /\ rx[h] = << >>
  /\ \A t \in Threads :
       /\ pc[t] \in Commands \cup {"READ"} => brb[t].handle = SignalingChannelHandle
       /\ Returned(t, "OPEN_SIGNALING", "ok") => brb[t].handle # NULL
  /\ SignalingChannelHandle = NULL =>
       /\ \A t \in Threads : pc[t] \in {"start", "idle", "OPEN_SIGNALING"}
       /\ avdtpQueued = FALSE /\ State = "Idle"

\* No SUSPEND is on its way to the sink.
NoSuspend == \A h \in Handles : \A i \in Nat : i \in DOMAIN tx[h] => Asked(h, i)

\* PendingCodecId is c, or the thread that sent c is about to write it.
Pends(c) ==
  /\ \A t \in Threads :
       pc[t] = "SET_CONFIGURATION" => brb[t].phase = "ok" /\ brb[t].codec = c
  /\ (\A t \in Threads : pc[t] # "SET_CONFIGURATION") => PendingCodecId = c

\* What holds before the sink hears a command of the conversation.
Ahead(signal) ==
  /\ signal # "DISCOVER" => NoSuspend
  /\ signal \in {"OPEN", "OPEN_MEDIA", "START"} => ActiveCodecId = sinkCodec

\* What holds once it has accepted one.
Replied(p) ==
  p.signal # "SUSPEND" /\ p.accept = TRUE =>
    /\ NoSuspend
    /\ p.signal = "SET_CONFIGURATION" => Pends(sinkCodec)
    /\ p.signal \in {"OPEN", "START"} => ActiveCodecId = sinkCodec
    /\ p.signal = "START" => sinkState = "streaming"

CarryOK(t) ==
  /\ pc[t] = "OPEN_MEDIA" => Ahead("OPEN_MEDIA")
  /\ pc[t] \in Conversation /\ brb[t].phase \in {"wait", "inflight"} => Ahead(pc[t])
  /\ Returned(t, "READ", "ok") => Replied(AvdtpWorkBuf)

AskedOK(h, i) ==
  /\ Ahead(tx[h][i].signal)
  /\ tx[h][i].signal = "SET_CONFIGURATION" => Pends(tx[h][i].codec)
  /\ tx[h][i].signal = "DISCOVER" =>
       \A j \in Nat : j \in DOMAIN tx[h] /\ j > i => Asked(h, j)

StageInv ==
  /\ \A t \in Threads : CarryOK(t)
  /\ \A h \in Handles : \A i \in Nat :
       /\ Asked(h, i) => AskedOK(h, i)
       /\ Answered(h, i) => Replied(rx[h][i])

\* The driver streams, or sends a frame it began to send when it did.
Live == State = "Streaming" \/ pc["ioctl"] = "SEND_MEDIA"

\* The sink has started with this codec and knows of no SUSPEND.
Started == NoSuspend /\ sinkState = "streaming" /\ ActiveCodecId = sinkCodec

LiveInv ==
  Live => /\ Silent
          /\ \A t \in Threads : Carries(t) => pc[t] = "SUSPEND"
          /\ Returned("ioctl", "SUSPEND", "ok") \/ Started

Talk == PlaceInv /\ ChannelInv /\ OneTalk /\ StageInv /\ LiveInv
TalkInv == disconnects = 0 => Talk

-----------------------------------------------------------------------------
\* A step moves no thread but t.
Only(t) == \A u \in Threads \ {t} : pc'[u] = pc[u] /\ brb'[u] = brb[u]

\* Enter moves its thread only.
LEMMA EnterOnly ==
  ASSUME TypeOK, NEW t \in Threads, NEW l, NEW p, NEW h, NEW c, Enter(t, l, p, h, c)
  PROVE  /\ Only(t) /\ pc'[t] = l
         /\ brb'[t].phase = p /\ brb'[t].handle = h /\ brb'[t].codec = c
BY DEF Enter, Only, TypeOK

\* Continue and Return move their thread only.
LEMMA ContinueOnly ==
  ASSUME TypeOK, NEW t \in Threads, NEW l, Continue(t, l)
  PROVE  Only(t) /\ pc'[t] = l /\ brb'[t].phase = "none"
BY DEF Continue, Only, TypeOK, NoBrb

LEMMA ReturnOnly ==
  ASSUME TypeOK, NEW t \in Threads, Return(t)
  PROVE  Only(t) /\ pc'[t] = "idle"
BY ContinueOnly DEF Return

\* Sending a command moves its thread only.
LEMMA SendOnly ==
  ASSUME TypeOK, NEW t \in Threads, NEW signal, NEW h, NEW c,
         AvdtpSendCommand(t, signal, h, c)
  PROVE  /\ Only(t) /\ pc'[t] = signal
         /\ brb'[t].phase \in {"wait", "fail"} /\ brb'[t].handle = h /\ brb'[t].codec = c
BY EnterOnly DEF AvdtpSendCommand

\* The two steps that lead to the DISCOVER command.
LEMMA ConnectFacts ==
  ASSUME TypeOK, NEW t \in Threads, SetConnecting(t) \/ AvdtpConnect(t)
  PROVE  /\ Only(t) /\ HandlerFrame
         /\ UNCHANGED <<SignalingChannelHandle, RemoteSeid, ActiveCodecId, PendingCodecId>>
         /\ \/ pc[t] = "CONNECTING" /\ pc'[t] = "CONNECT" /\ State' = "Connecting"
            \/ pc[t] = "CONNECT" /\ pc'[t] = "idle" /\ State' = State
            \/ /\ pc[t] = "CONNECT" /\ pc'[t] = "DISCOVER" /\ State' = State
               /\ brb'[t].handle = SignalingChannelHandle
<1>1. CASE SetConnecting(t)
  BY <1>1, ContinueOnly DEF SetConnecting, HandlerFrame, chanVars
<1>2. CASE AvdtpConnect(t)
  BY <1>2, ReturnOnly, SendOnly DEF AvdtpConnect, HandlerFrame, avdtpVars, chanVars
<1>3. QED
  BY <1>1, <1>2

\* The handlers and the ends of their commands: what they share.
LEMMA HandlerFacts ==
  ASSUME TypeOK, NEW t \in Threads, HandlePacket(t) \/ CommandReturns(t)
  PROVE  /\ Only(t)
         /\ pc[t] \in Commands \cup {"READ", "OPEN_MEDIA"}
         /\ pc'[t] \in {"idle", "GET_CAPABILITIES", "SET_CONFIGURATION", "OPEN",
                        "OPEN_MEDIA", "START"}
         /\ SignalingChannelHandle' = SignalingChannelHandle
         /\ HandlerFrame
<1> USE ReturnOnly, EnterOnly, SendOnly DEF Returned, Accepted, chanVars, Commands
<1>1. CASE ReadDropped(t)
  BY <1>1 DEF ReadDropped
<1>2. CASE HandleDiscoverResponse(t)
  BY <1>2 DEF HandleDiscoverResponse
<1>3. CASE HandleGetCapabilitiesResponse(t)
  BY <1>3 DEF HandleGetCapabilitiesResponse
<1>4. CASE HandleSetConfigurationResponse(t)
  BY <1>4 DEF HandleSetConfigurationResponse
<1>5. CASE HandleOpenResponse(t)
  BY <1>5 DEF HandleOpenResponse
<1>6. CASE HandleStartResponse(t)
  BY <1>6 DEF HandleStartResponse
<1>7. CASE DiscoverReturns(t)
  BY <1>7 DEF DiscoverReturns, HandlerFrame
<1>8. CASE SetConfigurationReturns(t)
  BY <1>8 DEF SetConfigurationReturns
<1>9. CASE OpenReturns(t)
  BY <1>9 DEF OpenReturns
<1>10. CASE OpenMediaReturns(t)
  BY <1>10 DEF OpenMediaReturns
<1>11. CASE ResultIgnored(t)
  BY <1>11 DEF ResultIgnored
<1>12. QED
  BY <1>1, <1>2, <1>3, <1>4, <1>5, <1>6, <1>7, <1>8, <1>9, <1>10, <1>11
     DEF HandlePacket, CommandReturns

\* A BRB is granted the lock or completes: what that leaves alone.
LEMMA SubmitFacts ==
  ASSUME TypeOK, NEW t \in Threads, SubmitBrb(t)
  PROVE  /\ Only(t) /\ pc' = pc
         /\ brb[t].phase \in {"wait", "inflight"}
         /\ brb'[t].codec = brb[t].codec
         /\ UNCHANGED <<avdtpVars, chanVars, avdtpQueued, inputVars, BthReady,
                        reconnectQueued, sinkCodec, sinkState>>
<1>0. brb[t] \in Brbs
  BY DEF TypeOK
<1>1. CASE AcquireBrbLock(t)
  <2>1. /\ brb' = [brb EXCEPT ![t].phase = "inflight"] /\ pc' = pc
        /\ brb[t].phase = "wait"
        /\ UNCHANGED <<avdtpVars, chanVars, avdtpQueued, inputVars, BthReady,
                       reconnectQueued, sinkCodec, sinkState>>
    BY <1>1 DEF AcquireBrbLock, recvVars, bthVars
  <2>2. Only(t) /\ brb'[t] = [brb[t] EXCEPT !.phase = "inflight"]
    BY <2>1 DEF Only, TypeOK
  <2>3. brb'[t].codec = brb[t].codec
    BY <1>0, <2>2 DEF Brbs
  <2>4. QED
    BY <2>1, <2>2, <2>3
<1>2. CASE CompleteBrb(t)
  <2>1. PICK p \in {"ok", "fail"}, h \in Handles \cup {NULL} : Completes(t, p, h)
    <3>1. brb[t].handle \in Handles \cup {NULL}
      BY <1>0 DEF Brbs
    <3>2. QED
      BY <1>2, <3>1 DEF CompleteBrb, CompleteOpenSignaling, CompleteOpenMedia,
         CompleteSendSignaling, CompleteRead, CompleteSendMedia, BrbFails
  <2>2. sinkCodec' = sinkCodec /\ sinkState' = sinkState
    BY <1>2 DEF CompleteBrb, CompleteOpenSignaling, CompleteOpenMedia,
       CompleteSendSignaling, CompleteRead, CompleteSendMedia, BrbFails, bthVars
  <2>3. Only(t) /\ brb'[t].codec = brb[t].codec
    BY <2>1, CompletesType DEF Only, Completes
  <2>4. QED
    BY <2>1, <2>2, <2>3 DEF Completes
<1>3. QED
  BY <1>1, <1>2 DEF SubmitBrb

-----------------------------------------------------------------------------
(* The signalling channel is not lost.                                     *)

\* A step that neither opens a channel nor stores one.
LEMMA OpenKept ==
  ASSUME TypeOK, OpenInv, NEW t \in Threads, Only(t),
         pc[t] # "OPEN_SIGNALING", pc'[t] \notin {"OPEN_SIGNALING", "start"},
         pc[t] # "idle" \/ t \notin {"add"} \cup ReconnectWorkers,
         UNCHANGED <<SignalingChannelHandle, sigLive, reconnectQueued>>
  PROVE  OpenInv'
<1>1. \A u \in Threads : pc'[u] = "OPEN_SIGNALING" =>
        u # t /\ pc[u] = "OPEN_SIGNALING" /\ brb'[u] = brb[u]
  BY DEF Only
<1>2. \A u \in Threads : pc[u] = "OPEN_SIGNALING" =>
        u # t /\ pc'[u] = "OPEN_SIGNALING" /\ brb'[u] = brb[u]
  BY DEF Only
<1>3. OpenerInv'
  <2>1. ASSUME pc'["add"] # "idle"
        PROVE  reconnectQueued' = FALSE /\ \A r \in ReconnectWorkers : pc'[r] = "idle"
    <3>1. pc["add"] # "idle"
      BY <2>1, ThreadFacts DEF Only
    <3>2. reconnectQueued = FALSE /\ \A r \in ReconnectWorkers : pc[r] = "idle"
      BY <3>1 DEF OpenInv, OpenerInv
    <3>3. t \notin ReconnectWorkers
      BY <3>2
    <3>4. QED
      BY <3>2, <3>3, ThreadFacts DEF Only
  <2>2. QED
    BY <1>1, <2>1 DEF OpenInv, OpenerInv
<1>4. NoChannelInv'
  BY <1>1, ThreadFacts DEF OpenInv, NoChannelInv, Only
<1>5. SignalingNotLeaked'
  <2> SUFFICES ASSUME NEW h \in sigLive, h # SignalingChannelHandle
               PROVE  \E u \in Threads : pc'[u] = "OPEN_SIGNALING" /\ brb'[u].phase = "ok"
                                         /\ brb'[u].handle = h
    BY DEF SignalingNotLeaked, Returned
  <2>1. PICK u \in Threads : Returned(u, "OPEN_SIGNALING", "ok") /\ brb[u].handle = h
    BY DEF OpenInv, SignalingNotLeaked
  <2>2. QED
    BY <1>2, <2>1 DEF Returned
<1>6. QED
  BY <1>3, <1>4, <1>5 DEF OpenInv

\* L2capSubmitBrb: a channel that is opened is in the BRB of its opener.
LEMMA OpenSubmit ==
  ASSUME TypeOK, OpenInv, NEW t \in Threads, SubmitBrb(t)
  PROVE  OpenInv'
<1>1. /\ Only(t) /\ pc' = pc /\ brb[t].phase \in {"wait", "inflight"}
      /\ UNCHANGED <<SignalingChannelHandle, reconnectQueued>>
  BY SubmitFacts DEF chanVars
<1>2. OpenerInv' /\ NoChannelInv'
  BY <1>1 DEF OpenInv, OpenerInv, NoChannelInv
<1>3. ASSUME NEW h \in sigLive', h \notin sigLive
      PROVE  Returned(t, "OPEN_SIGNALING", "ok")' /\ brb'[t].handle = h
  <2>1. CompleteOpenSignaling(t)
    BY <1>3 DEF SubmitBrb, AcquireBrbLock, CompleteBrb, CompleteOpenMedia,
       CompleteSendSignaling, CompleteRead, CompleteSendMedia, BrbFails, bthVars
  <2>2. PICK g \in Handles : Completes(t, "ok", g) /\ sigLive' = sigLive \cup {g}
    BY <2>1 DEF CompleteOpenSignaling
  <2>3. brb'[t].phase = "ok" /\ brb'[t].handle = g /\ g = h
    BY <1>3, <2>2, CompletesType
  <2>4. QED
    BY <1>1, <2>1, <2>3 DEF CompleteOpenSignaling, Returned
<1>4. ASSUME NEW h \in sigLive, h # SignalingChannelHandle
      PROVE  \E u \in Threads : Returned(u, "OPEN_SIGNALING", "ok")' /\ brb'[u].handle = h
  <2>1. PICK u \in Threads : Returned(u, "OPEN_SIGNALING", "ok") /\ brb[u].handle = h
    BY <1>4 DEF OpenInv, SignalingNotLeaked
  <2>2. u # t
    BY <1>1, <2>1 DEF Returned
  <2>3. QED
    BY <1>1, <2>1, <2>2 DEF Only, Returned
<1>5. SignalingNotLeaked'
  BY <1>1, <1>3, <1>4 DEF SignalingNotLeaked, Returned
<1>6. QED
  BY <1>2, <1>5 DEF OpenInv

\* OwbEvtDeviceAdd, the timer and its work item: the only ones to begin.
LEMMA OpenStart ==
  ASSUME TypeOK, OpenInv, OneReconnectWorker,
         \/ OwbEvtDeviceAdd \/ OwbReconnectTimer
         \/ \E t \in ReconnectWorkers : OwbReconnectWorkCallback(t)
  PROVE  OpenInv'
<1>f. "add" \notin ReconnectWorkers /\ "add" \in Threads /\ ReconnectWorkers \subseteq Threads
  BY ThreadAssumption, ThreadFacts
<1>u. UNCHANGED <<SignalingChannelHandle, sigLive>>
  BY DEF OwbEvtDeviceAdd, OwbReconnectTimer, OwbReconnectWorkCallback, chanVars, bthVars
<1>0. ASSUME NEW t \in Threads, Only(t), ~Returned(t, "OPEN_SIGNALING", "ok")
      PROVE  SignalingNotLeaked'
  <2> SUFFICES ASSUME NEW h \in sigLive, h # SignalingChannelHandle
               PROVE  \E u \in Threads : pc'[u] = "OPEN_SIGNALING" /\ brb'[u].phase = "ok"
                                         /\ brb'[u].handle = h
    BY <1>u DEF SignalingNotLeaked, Returned
  <2>1. PICK u \in Threads : Returned(u, "OPEN_SIGNALING", "ok") /\ brb[u].handle = h
    BY DEF OpenInv, SignalingNotLeaked
  <2>2. QED
    BY <1>0, <2>1 DEF Returned, Only
<1>1. CASE OwbEvtDeviceAdd
  <2>1. pc["add"] = "start" /\ reconnectQueued' = reconnectQueued
    BY <1>1 DEF OwbEvtDeviceAdd
  <2>2. Only("add") /\ pc'["add"] \in {"OPEN_SIGNALING", "idle"}
    BY <1>1, <1>f, EnterOnly, ReturnOnly DEF OwbEvtDeviceAdd
  <2>3. SignalingChannelHandle = NULL /\ reconnectQueued = FALSE
        /\ \A r \in ReconnectWorkers : pc[r] = "idle"
    BY <2>1, <1>f DEF OpenInv, OpenerInv, NoChannelInv
  <2>4. \A r \in ReconnectWorkers : pc'[r] = "idle"
    BY <1>f, <2>2, <2>3 DEF Only
  <2>5. OpenerInv'
    BY <2>1, <2>2, <2>3, <2>4 DEF OpenInv, OpenerInv, Only
  <2>6. NoChannelInv'
    BY <1>u, <2>3 DEF NoChannelInv
  <2>7. QED
    BY <1>f, <1>0, <2>1, <2>2, <2>5, <2>6 DEF OpenInv, Returned
<1>2. CASE OwbReconnectTimer
  BY <1>2, <1>u DEF OwbReconnectTimer, Added, OpenInv, OpenerInv, NoChannelInv,
     SignalingNotLeaked, Returned
<1>3. ASSUME NEW t \in ReconnectWorkers, OwbReconnectWorkCallback(t)
      PROVE  OpenInv'
  <2>1. reconnectQueued /\ pc[t] = "idle" /\ reconnectQueued' = FALSE
    BY <1>3 DEF OwbReconnectWorkCallback
  <2>2. pc["add"] = "idle"
    BY <2>1 DEF OpenInv, OpenerInv
  <2>3. Only(t) /\ (pc'[t] = "OPEN_SIGNALING" => SignalingChannelHandle = NULL)
        /\ pc'[t] \in {"idle", "OPEN_SIGNALING"}
    <3>1. CASE UNCHANGED <<pc, brb>>
      BY <2>1, <3>1 DEF Only
    <3>2. CASE OwbShouldReconnect /\ L2capOpenSignalingChannel(t)
      BY <1>f, <3>2, EnterOnly, ReturnOnly DEF OwbShouldReconnect, L2capOpenSignalingChannel
    <3>3. QED
      BY <1>3, <3>1, <3>2 DEF OwbReconnectWorkCallback
  <2>4. pc'["add"] = "idle"
    BY <1>f, <2>2, <2>3 DEF Only
  <2>5. OpenerInv'
    BY <2>3, <2>4 DEF OpenInv, OpenerInv, Only
  <2>6. NoChannelInv'
    BY <1>u, <2>3, <2>4 DEF OpenInv, NoChannelInv, Only
  <2>7. QED
    BY <1>f, <1>0, <2>1, <2>3, <2>5, <2>6 DEF OpenInv, Returned
<1>4. QED
  BY <1>1, <1>2, <1>3

\* The end of L2capOpenSignalingChannel: it is the only opener, so that no
\* other channel is waiting to be stored.
LEMMA OpenReturnsKept ==
  ASSUME TypeOK, OpenInv, OneReconnectWorker, NEW t \in Threads, OpenSignalingReturns(t)
  PROVE  OpenInv'
<1>f. "add" \notin ReconnectWorkers /\ "add" \in Threads /\ ReconnectWorkers \subseteq Threads
  BY ThreadAssumption, ThreadFacts
<1>1. pc[t] = "OPEN_SIGNALING" /\ UNCHANGED <<sigLive, reconnectQueued>>
  BY DEF OpenSignalingReturns, Returned, bthVars
<1>2. Only(t) /\ pc'[t] \in {"idle", "CONNECTING"}
  BY ContinueOnly, ReturnOnly DEF OpenSignalingReturns
<1>3. \A u \in Threads : pc[u] = "OPEN_SIGNALING" => u = t
  <2>1. \A u \in Threads : pc[u] = "OPEN_SIGNALING" => u \in {"add"} \cup ReconnectWorkers
    BY DEF OpenInv, OpenerInv
  <2>2. (\E r \in ReconnectWorkers : pc[r] = "OPEN_SIGNALING") => pc["add"] = "idle"
    BY DEF OpenInv, OpenerInv
  <2>3. QED
    BY <1>1, <2>1, <2>2 DEF OneReconnectWorker
<1>4. \A u \in Threads : pc'[u] # "OPEN_SIGNALING"
  BY <1>2, <1>3 DEF Only
<1>5. pc["add"] # "start" /\ pc'["add"] # "start"
  <2>1. pc["add"] = "start" => t \notin ReconnectWorkers /\ t # "add"
    BY <1>1 DEF OpenInv, OpenerInv
  <2>2. t \in {"add"} \cup ReconnectWorkers
    BY <1>1 DEF OpenInv, OpenerInv
  <2>3. QED
    BY <1>f, <1>2, <2>1, <2>2 DEF Only
<1>6. OpenerInv'
  <2>1. ASSUME pc'["add"] # "idle"
        PROVE  reconnectQueued' = FALSE /\ \A r \in ReconnectWorkers : pc'[r] = "idle"
    <3>1. pc["add"] # "idle"
      BY <1>1, <1>f, <1>2, <2>1 DEF Only
    <3>2. reconnectQueued = FALSE /\ \A r \in ReconnectWorkers : pc[r] = "idle"
      BY <3>1 DEF OpenInv, OpenerInv
    <3>3. t \notin ReconnectWorkers
      BY <1>1, <3>2
    <3>4. QED
      BY <1>1, <1>f, <1>2, <3>2, <3>3 DEF Only
  <2>2. QED
    BY <1>4, <2>1 DEF OpenerInv
<1>7. NoChannelInv'
  BY <1>4, <1>5 DEF NoChannelInv
<1>8. SignalingNotLeaked'
  <2> SUFFICES ASSUME NEW h \in sigLive PROVE h = SignalingChannelHandle'
    BY <1>1 DEF SignalingNotLeaked
  <2>1. h # NULL
    BY ConstantAssumption DEF TypeOK
  <2>2. SignalingChannelHandle = NULL
    BY <1>1 DEF OpenInv, NoChannelInv
  <2>3. PICK u \in Threads : Returned(u, "OPEN_SIGNALING", "ok") /\ brb[u].handle = h
    BY <2>1, <2>2 DEF OpenInv, SignalingNotLeaked
  <2>4. Returned(t, "OPEN_SIGNALING", "ok") /\ brb[t].handle = h
    BY <1>3, <2>3 DEF Returned
  <2>5. QED
    BY <2>4 DEF OpenSignalingReturns, Returned
<1>9. QED
  BY <1>6, <1>7, <1>8 DEF OpenInv

\* Every step keeps it.
LEMMA NextOpenInv ==
  ASSUME OneReconnectWorker, IndInv, OpenInv, [Next]_vars
  PROVE  OpenInv'
<1>t. TypeOK
  BY DEF IndInv, TypeInv
<1>f. /\ "ioctl" \in Threads /\ "ioctl" \notin {"add"} \cup ReconnectWorkers
      /\ AvdtpWorkers \subseteq Threads /\ AvdtpWorkers \cap ({"add"} \cup ReconnectWorkers) = {}
  BY ThreadAssumption, ThreadFacts
<1>1. ASSUME NEW t \in Threads, SubmitBrb(t) PROVE OpenInv'
  BY <1>t, <1>1, OpenSubmit
<1>2. ASSUME NEW t \in Threads, Run(t) PROVE OpenInv'
  <2>1. CASE OpenSignalingReturns(t)
    BY <1>t, <2>1, OpenReturnsKept
  <2>2. CASE SetConnecting(t) \/ AvdtpConnect(t)
    <3>1. /\ Only(t) /\ pc[t] \notin {"OPEN_SIGNALING", "idle"}
          /\ pc'[t] \notin {"OPEN_SIGNALING", "start"}
          /\ UNCHANGED <<SignalingChannelHandle, sigLive, reconnectQueued>>
      BY <1>t, <2>2, ConnectFacts DEF HandlerFrame, bthVars
    <3>2. QED
      BY <1>t, <3>1, OpenKept
  <2>3. CASE HandlePacket(t) \/ CommandReturns(t)
    <3>1. /\ Only(t) /\ pc[t] \notin {"OPEN_SIGNALING", "idle"}
          /\ pc'[t] \notin {"OPEN_SIGNALING", "start"}
          /\ UNCHANGED <<SignalingChannelHandle, sigLive, reconnectQueued>>
      BY <1>t, <2>3, HandlerFacts DEF HandlerFrame, bthVars, Commands
    <3>2. QED
      BY <1>t, <3>1, OpenKept
  <2>4. QED
    BY <1>2, <2>1, <2>2, <2>3 DEF Run
<1>3. CASE \/ OwbEvtDeviceAdd \/ OwbReconnectTimer
           \/ \E t \in ReconnectWorkers : OwbReconnectWorkCallback(t)
  BY <1>t, <1>3, OpenStart
<1>4. ASSUME NEW t \in AvdtpWorkers, OwbAvdtpWorkCallback(t) PROVE OpenInv'
  <2>1. /\ pc[t] = "idle"
        /\ UNCHANGED <<SignalingChannelHandle, sigLive, reconnectQueued>>
    BY <1>4 DEF OwbAvdtpWorkCallback, chanVars, bthVars
  <2>2. Only(t) /\ pc'[t] \in {"READ", "idle"}
    <3>1. CASE UNCHANGED <<pc, brb>>
      BY <2>1, <3>1 DEF Only
    <3>2. CASE Enter(t, "READ", "wait", SignalingChannelHandle, NULL)
      BY <1>t, <1>f, <3>2, EnterOnly
    <3>3. QED
      BY <1>4, <3>1, <3>2 DEF OwbAvdtpWorkCallback
  <2>3. QED
    BY <1>t, <1>f, <2>1, <2>2, OpenKept
<1>5. CASE AvdtpSetPreferredCodec \/ SuspendReturns \/ L2capSendMediaFrame \/ SendMediaReturns
  <2>1. /\ UNCHANGED <<SignalingChannelHandle, sigLive, reconnectQueued>>
        /\ pc["ioctl"] # "OPEN_SIGNALING"
    BY <1>5 DEF AvdtpSetPreferredCodec, SuspendReturns, L2capSendMediaFrame,
       SendMediaReturns, Returned, HandlerFrame, chanVars, bthVars
  <2>2. Only("ioctl") /\ pc'["ioctl"] \in {"idle", "SUSPEND", "CONNECT", "SEND_MEDIA"}
    <3>1. CASE UNCHANGED <<pc, brb>> /\ pc["ioctl"] = "idle"
      BY <3>1 DEF Only
    <3>2. CASE ~(UNCHANGED <<pc, brb>> /\ pc["ioctl"] = "idle")
      BY <1>t, <1>f, <1>5, <3>2, EnterOnly, SendOnly, ReturnOnly, ContinueOnly
         DEF AvdtpSetPreferredCodec, SuspendReturns, L2capSendMediaFrame, SendMediaReturns
    <3>3. QED
      BY <3>1, <3>2
  <2>3. QED
    BY <1>t, <1>f, <2>1, <2>2, OpenKept
<1>6. CASE IndicationRemoteDisconnect
  BY <1>6 DEF IndicationRemoteDisconnect, OpenInv, OpenerInv, NoChannelInv,
     SignalingNotLeaked
<1>7. CASE \/ UNCHANGED vars \/ MediaClosed
           \/ \E h \in Handles : IndicationRecvPacket(h)
  <2>1. UNCHANGED <<SignalingChannelHandle, sigLive, reconnectQueued, pc, brb>>
    BY <1>7 DEF vars, MediaClosed, IndicationRecvPacket, chanVars, bthVars
  <2>2. QED
    BY <2>1 DEF OpenInv, OpenerInv, NoChannelInv, SignalingNotLeaked, Returned
<1>8. QED
  BY <1>1, <1>2, <1>3, <1>4, <1>5, <1>6, <1>7 DEF Next

\* No channel is open at first.
LEMMA InitOpenInv == Init => OpenInv
<1> SUFFICES ASSUME Init PROVE OpenInv
  OBVIOUS
<1>1. \A t \in Threads : pc[t] = IF t = "add" THEN "start" ELSE "idle"
  BY DEF Init
<1>2. \A r \in ReconnectWorkers : r \in Threads /\ r # "add"
  BY ThreadAssumption, ThreadFacts
<1>3. OpenerInv
  BY <1>1, <1>2 DEF Init, OpenerInv
<1>4. NoChannelInv /\ SignalingNotLeaked
  BY DEF Init, NoChannelInv, SignalingNotLeaked
<1>5. QED
  BY <1>3, <1>4 DEF OpenInv

\* The induction over the steps.
THEOREM OpenInvariance == ASSUME OneReconnectWorker PROVE Spec => [](IndInv /\ OpenInv)
<1>1. Init => IndInv /\ OpenInv
  BY InitIndInv, InitOpenInv
<1>2. IndInv /\ OpenInv /\ [Next]_vars => (IndInv /\ OpenInv)'
  BY NextIndInv, NextOpenInv
<1>3. QED
  BY <1>1, <1>2, PTL DEF Spec

\* OwbReconnectWorkCallback, L2capOpenSignalingChannel: as long as the
\* reconnect work item is not run by two threads at once, every signalling
\* channel open in BthPort is in SignalingChannelHandle or about to be stored
\* there, whatever fails and whenever the remote disconnects.
THEOREM SignalingKept == ASSUME OneReconnectWorker PROVE Spec => []SignalingNotLeaked
<1>1. IndInv /\ OpenInv => SignalingNotLeaked
  BY DEF OpenInv
<1>2. QED
  BY <1>1, OpenInvariance, PTL

-----------------------------------------------------------------------------
(* What is streamed is what was negotiated.                                *)

\* A thread that has nothing in hand has nothing to answer for.
LEMMA NotCarrying ==
  ASSUME NEW t \in Threads
  PROVE  (~Carries(t) => CarryOK(t)) /\ (~Carries(t)' => CarryOK(t)')
BY DEF Carries, CarryOK, Replied, Returned

\* A step of the one thread that has something in hand afterwards.
LEMMA TalkerMoves ==
  ASSUME NEW t \in Threads, \A u \in Threads \ {t} : ~Carries(u)', Silent',
         PlaceInv', ChannelInv', CarryOK(t)', LiveInv'
  PROVE  Talk'
<1>1. OneTalk'
  BY DEF OneTalk, Silent
<1>2. \A u \in Threads : CarryOK(u)'
  BY NotCarrying
<1>3. StageInv'
  BY <1>2 DEF StageInv, Silent
<1>4. QED
  BY <1>1, <1>3 DEF Talk

\* Who has nothing in hand and does not move still has nothing.
LEMMA OthersRest ==
  ASSUME NEW t \in Threads, Only(t), AvdtpWorkBuf' = AvdtpWorkBuf
  PROVE  \A u \in Threads \ {t} : Carries(u)' <=> Carries(u)
BY DEF Only, Carries, Returned

\* If t has something in hand, nobody else has and nothing is under way.
LEMMA Alone ==
  ASSUME Talk, NEW t \in Threads, Carries(t)
  PROVE  Silent /\ \A u \in Threads \ {t} : ~Carries(u)
BY DEF Talk, OneTalk

\* A step of t that takes nothing new in hand.
LEMMA BystanderMoves ==
  ASSUME Talk, NEW t \in Threads, Only(t),
         Carries(t)' => Carries(t) /\ (pc[t] = "SUSPEND" => pc'[t] = "SUSPEND"),
         CarryOK(t)', PlaceInv', ChannelInv',
         UNCHANGED <<tx, rx, AvdtpWorkBuf, sinkCodec, sinkState, ActiveCodecId>>,
         Live' => Live,
         Returned("ioctl", "SUSPEND", "ok") => Returned("ioctl", "SUSPEND", "ok")' \/ ~Live',
         \A c \in Codecs \cup {NULL} : Pends(c) => Pends(c)',
         sinkCodec \in Codecs \cup {NULL},
         \A h \in Handles : \A i \in Nat : Asked(h, i) => tx[h][i].codec \in Codecs \cup {NULL}
  PROVE  Talk'
<1>1. \A u \in Threads : Carries(u)' => Carries(u)
  BY OthersRest
<1>2. /\ \A h \in Handles : \A i \in Nat : (Asked(h, i)' <=> Asked(h, i))
                                           /\ (Answered(h, i)' <=> Answered(h, i))
      /\ Silent' <=> Silent
      /\ NoSuspend' <=> NoSuspend
  BY DEF Asked, Answered, Silent, NoSuspend
<1>3. OneTalk'
  BY <1>1, <1>2 DEF Talk, OneTalk
<1>4. \A s \in Label : Ahead(s) => Ahead(s)'
  BY <1>2 DEF Ahead
<1>5. \A p : Replied(p) => Replied(p)'
  BY <1>2 DEF Replied
<1>6. \A u \in Threads : CarryOK(u)'
  <2> SUFFICES ASSUME NEW u \in Threads, u # t PROVE CarryOK(u)'
    OBVIOUS
  <2>1. pc'[u] = pc[u] /\ brb'[u] = brb[u] /\ CarryOK(u)
    BY DEF Only, Talk, StageInv
  <2>2. QED
    BY <1>4, <1>5, <2>1 DEF CarryOK, Returned, Conversation, Commands, Label
<1>7. \A h \in Handles : \A i \in Nat : Asked(h, i)' => AskedOK(h, i)'
  <2> SUFFICES ASSUME NEW h \in Handles, NEW i \in Nat, Asked(h, i) PROVE AskedOK(h, i)'
    BY <1>2
  <2>1. AskedOK(h, i)
    BY DEF Talk, StageInv
  <2>2. QED
    BY <1>2, <2>1 DEF AskedOK, Ahead
<1>8. \A h \in Handles : \A i \in Nat : Answered(h, i)' => Replied(rx[h][i])'
  BY <1>2, <1>5 DEF Talk, StageInv
<1>9. StageInv'
  BY <1>6, <1>7, <1>8 DEF StageInv
<1>10. Started => Started'
  BY <1>2 DEF Started
<1>11. LiveInv'
  <2> SUFFICES ASSUME Live'
               PROVE  /\ Silent'
                      /\ \A u \in Threads : Carries(u)' => pc'[u] = "SUSPEND"
                      /\ Returned("ioctl", "SUSPEND", "ok")' \/ Started'
    BY DEF LiveInv
  <2>1. Silent /\ (\A u \in Threads : Carries(u) => pc[u] = "SUSPEND")
        /\ (Returned("ioctl", "SUSPEND", "ok") \/ Started)
    BY DEF Talk, LiveInv
  <2>2. QED
    BY <1>1, <1>2, <1>10, <2>1 DEF Only
<1>12. QED
  BY <1>3, <1>9, <1>11 DEF Talk

\* Only t moves, on the one channel.
LEMMA ChannelMoves ==
  ASSUME ChannelInv, NEW t \in Threads, Only(t), UNCHANGED <<SignalingChannelHandle, tx, rx>>,
         SignalingChannelHandle # NULL,
         pc'[t] \in Commands \cup {"READ"} => brb'[t].handle = SignalingChannelHandle,
         Returned(t, "OPEN_SIGNALING", "ok")' => brb'[t].handle # NULL
  PROVE  ChannelInv'
BY DEF ChannelInv, Only, Returned

\* Only t moves, to a place where it may be.
LEMMA PlaceMoves ==
  ASSUME PlaceInv, NEW t \in Threads, Only(t), Place(t)'
  PROVE  PlaceInv'
BY DEF PlaceInv, Place, Only

\* Only t moves, which is not at SET_CONFIGURATION, and PendingCodecId stays.
LEMMA PendsKept ==
  ASSUME NEW t \in Threads, Only(t), pc[t] # "SET_CONFIGURATION",
         pc'[t] # "SET_CONFIGURATION", PendingCodecId' = PendingCodecId, NEW c, Pends(c)
  PROVE  Pends(c)'
BY DEF Pends, Only

\* The codecs on the wire and at the sink have their type.
LEMMA CodecTypes ==
  ASSUME TypeOK
  PROVE  /\ sinkCodec \in Codecs \cup {NULL}
         /\ \A h \in Handles : \A i \in Nat : Asked(h, i) => tx[h][i].codec \in Codecs \cup {NULL}
<1>1. \A h \in Handles : tx[h] \in Seq(CommandMsgs)
  BY DEF TypeOK
<1>2. \A h \in Handles : \A i \in DOMAIN tx[h] : tx[h][i] \in CommandMsgs
  BY <1>1
<1>3. QED
  BY <1>2 DEF TypeOK, Asked, CommandMsgs

\* The worker's handlers: the reply they read is the one thing under way.
LEMMA TalkHandlePacket ==
  ASSUME IndInv, Talk, OneAvdtpWorker, NEW t \in Threads, HandlePacket(t)
  PROVE  Talk'
<1>t. TypeOK
  BY DEF IndInv, TypeInv
<1>f. Only(t) /\ SignalingChannelHandle' = SignalingChannelHandle
      /\ UNCHANGED <<tx, rx, AvdtpWorkBuf, sinkCodec, sinkState>>
  BY <1>t, HandlerFacts DEF HandlerFrame, recvVars, bthVars
<1>r. pc[t] = "READ" /\ t \in Threads
  BY DEF HandlePacket, ReadDropped, HandleDiscoverResponse, HandleGetCapabilitiesResponse,
     HandleSetConfigurationResponse, HandleOpenResponse, HandleStartResponse, Accepted, Returned
<1>w. t \in AvdtpWorkers /\ t # "ioctl"
  BY <1>r, ThreadAssumption DEF Talk, PlaceInv, Place
<1>s. SignalingChannelHandle # NULL
  BY <1>r DEF Talk, ChannelInv
<1>i. pc'["ioctl"] = pc["ioctl"] /\ brb'["ioctl"] = brb["ioctl"]
  BY <1>f, <1>w, ThreadFacts DEF Only
<1>n. (Silent' <=> Silent) /\ (NoSuspend' <=> NoSuspend)
  BY <1>f DEF Silent, NoSuspend, Asked, Answered
<1>1. CASE ReadDropped(t)
  <2>1. pc'[t] = "idle" /\ UNCHANGED <<State, ActiveCodecId, PendingCodecId>>
    BY <1>t, <1>1, ReturnOnly DEF ReadDropped, avdtpVars
  <2>2. ~Carries(t)'
    BY <2>1 DEF Carries, Returned, Conversation, Commands
  <2>3. CarryOK(t)'
    BY <2>2, NotCarrying
  <2>4. PlaceInv'
    BY <1>f, <2>1, PlaceMoves DEF Talk, Place
  <2>5. ChannelInv'
    BY <1>f, <1>s, <2>1, ChannelMoves DEF Talk, Returned, Commands
  <2>6. \A c \in Codecs \cup {NULL} : Pends(c) => Pends(c)'
    BY <1>f, <1>r, <2>1, PendsKept
  <2>7. (Live' <=> Live)
        /\ (Returned("ioctl", "SUSPEND", "ok")' <=> Returned("ioctl", "SUSPEND", "ok"))
    BY <1>i, <2>1 DEF Live, Returned
  <2>8. QED
    BY <1>t, <1>f, <2>1, <2>2, <2>3, <2>4, <2>5, <2>6, <2>7, CodecTypes, BystanderMoves
<1>2. ASSUME ~ReadDropped(t) PROVE Talk'
  <2>1. /\ Returned(t, "READ", "ok") /\ AvdtpWorkBuf.accept = TRUE
        /\ AvdtpWorkBuf.signal \in Conversation
    <3>1. AvdtpWorkBuf \in Packets
      BY <1>2 DEF HandlePacket, HandleDiscoverResponse, HandleGetCapabilitiesResponse,
         HandleSetConfigurationResponse, HandleOpenResponse, HandleStartResponse, Accepted,
         IndInv, TypeInv, ReadsPacket
    <3>2. AvdtpWorkBuf.accept \in BOOLEAN
      BY <3>1 DEF Packets
    <3>3. QED
      BY <1>2, <3>2 DEF HandlePacket, HandleDiscoverResponse, HandleGetCapabilitiesResponse,
         HandleSetConfigurationResponse, HandleOpenResponse, HandleStartResponse, Accepted,
         Conversation, Commands
  <2>2. Carries(t)
    BY <2>1 DEF Carries, Conversation
  <2>3. Silent' /\ \A u \in Threads \ {t} : ~Carries(u)'
    BY <1>f, <1>n, <2>2, Alone, OthersRest
  <2>4. Replied(AvdtpWorkBuf)
    BY <2>1 DEF Talk, StageInv, CarryOK
  <2>5. State # "Streaming" /\ pc'["ioctl"] # "SEND_MEDIA"
    BY <1>i, <1>r, <2>2 DEF Talk, LiveInv, Live
  <2>6. NoSuspend'
    BY <1>n, <2>1, <2>4 DEF Replied, Conversation
  <2>7. ASSUME pc'[t] \in {"GET_CAPABILITIES", "SET_CONFIGURATION", "OPEN", "OPEN_MEDIA"},
               pc'[t] \in Commands => brb'[t].handle = SignalingChannelHandle,
               pc'[t] \in {"OPEN", "OPEN_MEDIA"} => ActiveCodecId' = sinkCodec,
               State' # "Streaming"
        PROVE  Talk'
    <3>1. PlaceInv'
      BY <1>f, <1>w, <2>7, PlaceMoves DEF Talk, Place
    <3>2. ChannelInv'
      BY <1>f, <1>s, <2>7, ChannelMoves DEF Talk, Returned, Commands
    <3>3. CarryOK(t)'
      BY <1>f, <2>6, <2>7 DEF CarryOK, Ahead, Returned, Conversation
    <3>4. LiveInv'
      BY <2>5, <2>7 DEF LiveInv, Live
    <3>5. QED
      BY <2>3, <3>1, <3>2, <3>3, <3>4, TalkerMoves
  <2>8. CASE HandleDiscoverResponse(t)
    <3>1. pc'[t] = "GET_CAPABILITIES" /\ brb'[t].handle = SignalingChannelHandle
          /\ State' = "Configuring"
      BY <1>t, <2>8, SendOnly DEF HandleDiscoverResponse
    <3>2. QED
      BY <2>7, <3>1
  <2>9. CASE HandleGetCapabilitiesResponse(t)
    <3>1. pc'[t] = "SET_CONFIGURATION" /\ brb'[t].handle = SignalingChannelHandle
          /\ State' = State
      BY <1>t, <2>9, SendOnly DEF HandleGetCapabilitiesResponse, avdtpVars
    <3>2. QED
      BY <2>5, <2>7, <3>1
  <2>10. CASE HandleSetConfigurationResponse(t)
    <3>1. pc'[t] = "OPEN" /\ brb'[t].handle = SignalingChannelHandle
          /\ State' = State /\ ActiveCodecId' = PendingCodecId
      BY <1>t, <2>10, SendOnly DEF HandleSetConfigurationResponse
    <3>2. \A u \in Threads : pc[u] # "SET_CONFIGURATION"
      BY <1>r, <1>w DEF Talk, PlaceInv, Place, OneAvdtpWorker
    <3>3. Pends(sinkCodec)
      BY <2>1, <2>4, <2>10 DEF Replied, HandleSetConfigurationResponse, Accepted
    <3>4. PendingCodecId = sinkCodec
      BY <3>2, <3>3 DEF Pends
    <3>5. QED
      BY <2>5, <2>7, <3>1, <3>4
  <2>11. CASE HandleOpenResponse(t)
    <3>1. pc'[t] = "OPEN_MEDIA" /\ State' = State /\ ActiveCodecId' = ActiveCodecId
      BY <1>t, <2>11, EnterOnly DEF HandleOpenResponse, avdtpVars
    <3>2. ActiveCodecId = sinkCodec
      BY <2>1, <2>4, <2>11 DEF Replied, HandleOpenResponse, Accepted
    <3>3. QED
      BY <2>5, <2>7, <3>1, <3>2 DEF Commands
  <2>12. CASE HandleStartResponse(t)
    <3>1. pc'[t] = "idle" /\ ActiveCodecId' = ActiveCodecId
      BY <1>t, <2>12, ReturnOnly DEF HandleStartResponse
    <3>2. Started'
      BY <1>f, <2>1, <2>4, <2>6, <2>12, <3>1
         DEF Started, Replied, HandleStartResponse, Accepted
    <3>3. ~Carries(t)'
      BY <3>1 DEF Carries, Returned, Conversation, Commands
    <3>4. PlaceInv'
      BY <1>f, <3>1, PlaceMoves DEF Talk, Place
    <3>5. ChannelInv'
      BY <1>f, <1>s, <3>1, ChannelMoves DEF Talk, Returned, Commands
    <3>6. LiveInv'
      BY <2>3, <3>2, <3>3 DEF LiveInv
    <3>7. QED
      BY <2>3, <3>3, <3>4, <3>5, <3>6, NotCarrying, TalkerMoves
  <2>13. QED
    BY <1>2, <2>8, <2>9, <2>10, <2>11, <2>12 DEF HandlePacket
<1>3. QED
  BY <1>1, <1>2

\* The ends of the commands: what was sent is under way, or nothing is.
LEMMA TalkCommandReturns ==
  ASSUME IndInv, Talk, OneAvdtpWorker, NEW t \in Threads, CommandReturns(t)
  PROVE  Talk'
<1>t. TypeOK
  BY DEF IndInv, TypeInv
<1>f. Only(t) /\ SignalingChannelHandle' = SignalingChannelHandle
      /\ UNCHANGED <<tx, rx, AvdtpWorkBuf, sinkCodec, sinkState>>
  BY <1>t, HandlerFacts DEF HandlerFrame, recvVars, bthVars
<1>s. SignalingChannelHandle # NULL
  BY <1>t, HandlerFacts DEF Talk, ChannelInv, Commands
<1>n. (Silent' <=> Silent) /\ (NoSuspend' <=> NoSuspend)
  BY <1>f DEF Silent, NoSuspend, Asked, Answered
<1>1. CASE OpenMediaReturns(t)
  <2>1. pc[t] = "OPEN_MEDIA" /\ ActiveCodecId' = ActiveCodecId /\ State' \in {State, "Idle"}
        /\ \/ pc'[t] = "START" /\ brb'[t].handle = SignalingChannelHandle
           \/ pc'[t] = "idle"
    BY <1>t, <1>1, SendOnly, ReturnOnly DEF OpenMediaReturns, Returned
  <2>2. Carries(t) /\ Ahead("OPEN_MEDIA")
    BY <2>1 DEF Carries, Talk, StageInv, CarryOK
  <2>3. Silent' /\ \A u \in Threads \ {t} : ~Carries(u)'
    BY <1>f, <1>n, <2>2, Alone, OthersRest
  <2>4. t \in AvdtpWorkers /\ t # "ioctl"
    BY <2>1, ThreadAssumption DEF Talk, PlaceInv, Place
  <2>5. State # "Streaming" /\ pc["ioctl"] # "SEND_MEDIA"
    BY <2>1, <2>2 DEF Talk, LiveInv, Live
  <2>6. LiveInv'
    BY <1>f, <2>1, <2>4, <2>5, ThreadFacts DEF LiveInv, Live, Only
  <2>7. PlaceInv'
    BY <1>f, <2>1, <2>4, PlaceMoves DEF Talk, Place
  <2>8. ChannelInv'
    BY <1>f, <1>s, <2>1, ChannelMoves DEF Talk, Returned, Commands
  <2>9. CarryOK(t)'
    BY <1>f, <1>n, <2>1, <2>2 DEF CarryOK, Ahead, Returned, Conversation, Commands
  <2>10. QED
    BY <2>3, <2>6, <2>7, <2>8, <2>9, TalkerMoves
<1>2. CASE DiscoverReturns(t) \/ SetConfigurationReturns(t) \/ OpenReturns(t) \/ ResultIgnored(t)
  <2>1. /\ pc[t] \in {"DISCOVER", "SET_CONFIGURATION", "OPEN", "GET_CAPABILITIES", "START"}
        /\ brb[t].phase \in {"ok", "fail"} /\ ActiveCodecId' = ActiveCodecId
        /\ State' \in {State, "Discovering", "Configured", "Open"}
    BY <1>2 DEF DiscoverReturns, SetConfigurationReturns, OpenReturns, ResultIgnored, Returned,
       avdtpVars
  <2>2. pc'[t] = "idle"
    BY <1>t, <1>2, ReturnOnly DEF DiscoverReturns, SetConfigurationReturns, OpenReturns,
       ResultIgnored
  <2>3. ~Carries(t)'
    BY <2>2 DEF Carries, Returned, Conversation, Commands
  <2>4. CarryOK(t)'
    BY <2>3, NotCarrying
  <2>5. PlaceInv'
    BY <1>f, <2>2, PlaceMoves DEF Talk, Place
  <2>6. ChannelInv'
    BY <1>f, <1>s, <2>2, ChannelMoves DEF Talk, Returned, Commands
  <2>7. (Live' => Live)
        /\ (Returned("ioctl", "SUSPEND", "ok") => Returned("ioctl", "SUSPEND", "ok")')
    BY <1>f, <2>1, <2>2, ThreadFacts DEF Live, Only, Returned
  <2>8. \A c \in Codecs \cup {NULL} : Pends(c) => Pends(c)'
    <3>1. CASE SetConfigurationReturns(t)
      <4>1. pc[t] = "SET_CONFIGURATION"
            /\ (brb[t].phase = "ok" => PendingCodecId' = brb[t].codec)
        BY <3>1 DEF SetConfigurationReturns, Returned
      <4>2. QED
        BY <1>f, <2>2, <4>1 DEF Pends, Only
    <3>2. CASE ~SetConfigurationReturns(t)
      <4>1. PendingCodecId' = PendingCodecId /\ pc[t] # "SET_CONFIGURATION"
        BY <1>2, <3>2 DEF DiscoverReturns, OpenReturns, ResultIgnored, Returned, avdtpVars
      <4>2. QED
        BY <1>f, <2>2, <4>1, PendsKept
    <3>3. QED
      BY <3>1, <3>2
  <2>9. QED
    BY <1>t, <1>f, <2>1, <2>3, <2>4, <2>5, <2>6, <2>7, <2>8, CodecTypes, BystanderMoves
<1>3. QED
  BY <1>1, <1>2 DEF CommandReturns

\* The end of L2capOpenSignalingChannel: the conversation begins.
LEMMA TalkOpenReturns ==
  ASSUME IndInv, OpenInv, Talk, NEW t \in Threads, OpenSignalingReturns(t)
  PROVE  Talk'
<1>t. TypeOK
  BY DEF IndInv, TypeInv
<1>1. /\ pc[t] = "OPEN_SIGNALING"
      /\ UNCHANGED <<tx, rx, AvdtpWorkBuf, sinkCodec, sinkState, avdtpQueued>>
  BY DEF OpenSignalingReturns, Returned, bthVars, recvVars
<1>2. /\ Only(t)
      /\ State' = State
      /\ \/ /\ pc'[t] = "CONNECTING"
            /\ SignalingChannelHandle' = brb[t].handle /\ brb[t].phase = "ok"
         \/ pc'[t] = "idle" /\ SignalingChannelHandle' = SignalingChannelHandle
  BY <1>t, ContinueOnly, ReturnOnly DEF OpenSignalingReturns, Returned, avdtpVars
<1>3. SignalingChannelHandle = NULL
  BY <1>1 DEF OpenInv, NoChannelInv
<1>4. /\ \A u \in Threads : pc[u] \in {"start", "idle", "OPEN_SIGNALING"}
      /\ avdtpQueued = FALSE /\ State = "Idle"
      /\ \A h \in Handles : tx[h] = << >> /\ rx[h] = << >>
  BY <1>3, ConstantAssumption DEF Talk, ChannelInv
<1>5. Carries(t)
  BY <1>1 DEF Carries
<1>6. Silent' /\ \A u \in Threads \ {t} : ~Carries(u)'
  <2>1. Silent' <=> Silent
    BY <1>1 DEF Silent, Asked, Answered
  <2>2. QED
    BY <1>1, <1>2, <1>5, <2>1, Alone, OthersRest
<1>7. PlaceInv'
  <2>1. t \notin AvdtpWorkers
    BY <1>1, ThreadAssumption DEF OpenInv, OpenerInv
  <2>2. QED
    BY <1>2, <2>1, PlaceMoves DEF Talk, Place
<1>8. ChannelInv'
  <2>1. \A h \in Handles : tx'[h] = << >> /\ rx'[h] = << >>
    BY <1>1, <1>4
  <2>2. \A u \in Threads : Returned(u, "OPEN_SIGNALING", "ok")' => brb'[u].handle # NULL
    BY <1>2 DEF Talk, ChannelInv, Returned, Only
  <2>3. CASE pc'[t] = "CONNECTING"
    <3>1. brb[t].handle # NULL
      BY <1>1, <1>2, <2>3 DEF Talk, ChannelInv, Returned
    <3>2. \A u \in Threads : pc'[u] \notin Commands \cup {"READ"}
      BY <1>2, <1>4, <2>3 DEF Only, Commands
    <3>3. QED
      BY <1>2, <2>1, <2>2, <2>3, <3>1, <3>2 DEF ChannelInv
  <2>4. CASE pc'[t] = "idle"
    <3>1. \A u \in Threads : pc'[u] \in {"start", "idle", "OPEN_SIGNALING"}
      BY <1>2, <1>4, <2>4 DEF Only
    <3>2. SignalingChannelHandle' = NULL /\ State' = "Idle" /\ avdtpQueued' = FALSE
      BY <1>1, <1>2, <1>3, <1>4, <2>4
    <3>3. QED
      BY <2>1, <2>2, <3>1, <3>2 DEF ChannelInv, Commands
  <2>5. QED
    BY <1>2, <2>3, <2>4
<1>9. CarryOK(t)'
  BY <1>2 DEF CarryOK, Ahead, Returned, Conversation, Commands
<1>10. LiveInv'
  <2>1. pc'["ioctl"] # "SEND_MEDIA"
    BY <1>2, <1>4, ThreadFacts DEF Only
  <2>2. QED
    BY <1>2, <1>4, <2>1 DEF LiveInv, Live
<1>11. QED
  BY <1>6, <1>7, <1>8, <1>9, <1>10, TalkerMoves

\* State = Connecting, and AvdtpConnect: the thread in whose hands the
\* conversation is moves it to DISCOVER, or gives it up.
LEMMA TalkConnects ==
  ASSUME IndInv, Talk, NEW t \in Threads, SetConnecting(t) \/ AvdtpConnect(t)
  PROVE  Talk'
<1>t. TypeOK
  BY DEF IndInv, TypeInv
<1>1. /\ Only(t) /\ pc[t] \in {"CONNECTING", "CONNECT"}
      /\ UNCHANGED <<tx, rx, AvdtpWorkBuf, SignalingChannelHandle>>
      /\ pc'[t] \in {"CONNECT", "idle", "DISCOVER"} /\ State' \in {State, "Connecting"}
      /\ pc'[t] = "DISCOVER" => brb'[t].handle = SignalingChannelHandle
  BY <1>t, ConnectFacts DEF HandlerFrame, recvVars, bthVars
<1>2. Carries(t)
  BY <1>1 DEF Carries
<1>3. Silent' /\ \A u \in Threads \ {t} : ~Carries(u)'
  <2>1. Silent' <=> Silent
    BY <1>1 DEF Silent, Asked, Answered
  <2>2. QED
    BY <1>1, <1>2, <2>1, Alone, OthersRest
<1>4. SignalingChannelHandle # NULL
  BY <1>1 DEF Talk, ChannelInv
<1>5. PlaceInv'
  BY <1>1, PlaceMoves DEF Talk, PlaceInv, Place
<1>6. ChannelInv'
  BY <1>1, <1>4, ChannelMoves DEF Talk, Returned, Commands
<1>7. CarryOK(t)'
  BY <1>1 DEF CarryOK, Ahead, Returned, Conversation, Commands
<1>8. LiveInv'
  <2>1. State # "Streaming" /\ pc["ioctl"] # "SEND_MEDIA"
    BY <1>1, <1>2 DEF Talk, LiveInv, Live
  <2>2. pc'["ioctl"] # "SEND_MEDIA"
    BY <1>1, <2>1, ThreadFacts DEF Only
  <2>3. QED
    BY <1>1, <2>1, <2>2 DEF LiveInv, Live
<1>9. QED
  BY <1>3, <1>5, <1>6, <1>7, <1>8, TalkerMoves

\* Nothing the conversation depends on changes.
LEMMA TalkRests ==
  ASSUME Talk, UNCHANGED <<pc, brb, tx, rx, AvdtpWorkBuf, sinkCodec, sinkState, State,
                           ActiveCodecId, PendingCodecId, SignalingChannelHandle, avdtpQueued>>
  PROVE  Talk'
<1>1. PlaceInv' /\ ChannelInv'
  BY DEF Talk, PlaceInv, Place, ChannelInv, Returned
<1>2. /\ \A t \in Threads : Carries(t)' <=> Carries(t)
      /\ \A h \in Handles : \A i \in Nat : (Asked(h, i)' <=> Asked(h, i))
                                           /\ (Answered(h, i)' <=> Answered(h, i))
  BY DEF Carries, Returned, Asked, Answered
<1>3. (Silent' <=> Silent) /\ (NoSuspend' <=> NoSuspend)
  BY <1>2 DEF Silent, NoSuspend
<1>4. OneTalk'
  BY <1>2, <1>3 DEF Talk, OneTalk
<1>5. /\ \A s : Ahead(s)' <=> Ahead(s)
      /\ \A c : Pends(c)' <=> Pends(c)
  BY <1>3 DEF Ahead, Pends
<1>6. \A p : Replied(p)' <=> Replied(p)
  BY <1>3, <1>5 DEF Replied
<1>7. \A t \in Threads : CarryOK(t)' <=> CarryOK(t)
  BY <1>5, <1>6 DEF CarryOK, Returned
<1>8. \A h \in Handles : \A i \in Nat : AskedOK(h, i)' <=> AskedOK(h, i)
  BY <1>2, <1>5 DEF AskedOK
<1>9. StageInv'
  BY <1>2, <1>6, <1>7, <1>8 DEF Talk, StageInv
<1>10. LiveInv'
  BY <1>2, <1>3 DEF Talk, LiveInv, Live, Started, Returned
<1>11. QED
  BY <1>1, <1>4, <1>9, <1>10 DEF Talk

\* A thread begins to open the channel: there is none, and nobody else does.
LEMMA TalkOpens ==
  ASSUME TypeOK, Talk, NEW t \in Threads, t \notin AvdtpWorkers, Only(t),
         SignalingChannelHandle = NULL,
         \A u \in Threads \ {t} : pc[u] # "OPEN_SIGNALING",
         pc'[t] \in {"idle", "OPEN_SIGNALING"}, brb'[t].phase # "ok",
         UNCHANGED <<tx, rx, AvdtpWorkBuf, State, SignalingChannelHandle, avdtpQueued>>
  PROVE  Talk'
<1>1. /\ \A u \in Threads : pc[u] \in {"start", "idle", "OPEN_SIGNALING"}
      /\ avdtpQueued = FALSE /\ State = "Idle"
      /\ \A h \in Handles : tx[h] = << >> /\ rx[h] = << >>
  BY ConstantAssumption DEF Talk, ChannelInv
<1>2. \A u \in Threads : pc'[u] \in {"start", "idle", "OPEN_SIGNALING"}
  BY <1>1 DEF Only
<1>3. Silent'
  BY <1>1 DEF Silent, Asked, Answered
<1>4. \A u \in Threads \ {t} : ~Carries(u)'
  <2>1. \A u \in Threads \ {t} : pc'[u] \in {"start", "idle"}
    BY <1>1 DEF Only
  <2>2. QED
    BY <2>1 DEF Carries, Returned, Conversation, Commands
<1>5. PlaceInv'
  BY <1>2 DEF PlaceInv, Place
<1>6. ChannelInv'
  <2>1. \A u \in Threads : Returned(u, "OPEN_SIGNALING", "ok")' => brb'[u].handle # NULL
    BY DEF Talk, ChannelInv, Returned, Only
  <2>2. QED
    BY <1>1, <1>2, <2>1 DEF ChannelInv, Commands
<1>7. CarryOK(t)'
  BY <1>2 DEF CarryOK, Returned, Conversation, Commands
<1>8. LiveInv'
  BY <1>1, <1>2, ThreadFacts DEF LiveInv, Live
<1>9. QED
  BY <1>3, <1>4, <1>5, <1>6, <1>7, <1>8, TalkerMoves

\* EvtDeviceAdd, the timer and the two work items.
LEMMA TalkStart ==
  ASSUME IndInv, OpenInv, Talk, OneReconnectWorker,
         \/ OwbEvtDeviceAdd \/ OwbReconnectTimer
         \/ \E t \in ReconnectWorkers : OwbReconnectWorkCallback(t)
         \/ \E t \in AvdtpWorkers : OwbAvdtpWorkCallback(t)
  PROVE  Talk'
<1>t. TypeOK
  BY DEF IndInv, TypeInv
<1>f. /\ "add" \in Threads /\ "ioctl" \in Threads
      /\ ReconnectWorkers \subseteq Threads /\ AvdtpWorkers \subseteq Threads
      /\ "add" \notin AvdtpWorkers /\ "ioctl" \notin AvdtpWorkers
      /\ ReconnectWorkers \cap AvdtpWorkers = {}
  BY ThreadAssumption, ThreadFacts
<1>u. UNCHANGED <<tx, rx, AvdtpWorkBuf, sinkCodec, sinkState, State, ActiveCodecId,
                  PendingCodecId, SignalingChannelHandle>>
  BY DEF OwbEvtDeviceAdd, OwbReconnectTimer, OwbReconnectWorkCallback, OwbAvdtpWorkCallback,
     avdtpVars, chanVars, recvVars, bthVars
<1>1. CASE OwbEvtDeviceAdd
  <2>1. pc["add"] = "start" /\ avdtpQueued' = avdtpQueued
    BY <1>1 DEF OwbEvtDeviceAdd, recvVars
  <2>2. Only("add") /\ pc'["add"] \in {"OPEN_SIGNALING", "idle"} /\ brb'["add"].phase # "ok"
    <3>1. CASE Enter("add", "OPEN_SIGNALING", "wait", NULL, NULL)
      BY <1>t, <1>f, <3>1, EnterOnly
    <3>2. CASE Return("add")
      BY <1>t, <1>f, <3>2, ReturnOnly, ReturnType DEF NoBrb
    <3>3. QED
      BY <1>1, <3>1, <3>2 DEF OwbEvtDeviceAdd
  <2>3. SignalingChannelHandle = NULL
    BY <2>1 DEF OpenInv, NoChannelInv
  <2>4. \A u \in Threads \ {"add"} : pc[u] # "OPEN_SIGNALING"
    BY <2>1 DEF OpenInv, OpenerInv
  <2>5. QED
    BY <1>t, <1>f, <1>u, <2>1, <2>2, <2>3, <2>4, TalkOpens
<1>2. CASE OwbReconnectTimer
  BY <1>2, <1>u, TalkRests DEF OwbReconnectTimer, recvVars
<1>3. ASSUME NEW t \in ReconnectWorkers, OwbReconnectWorkCallback(t) PROVE Talk'
  <2>1. /\ pc[t] = "idle" /\ reconnectQueued /\ avdtpQueued' = avdtpQueued
    BY <1>3 DEF OwbReconnectWorkCallback, recvVars
  <2>2. CASE UNCHANGED <<pc, brb>>
    BY <1>u, <2>1, <2>2, TalkRests
  <2>3. CASE OwbShouldReconnect /\ L2capOpenSignalingChannel(t)
    <3>1. Only(t) /\ pc'[t] \in {"OPEN_SIGNALING", "idle"} /\ brb'[t].phase # "ok"
      <4>1. CASE Enter(t, "OPEN_SIGNALING", "wait", NULL, NULL)
        BY <1>t, <1>f, <4>1, EnterOnly
      <4>2. CASE Return(t)
        BY <1>t, <1>f, <4>2, ReturnOnly, ReturnType DEF NoBrb
      <4>3. QED
        BY <2>3, <4>1, <4>2 DEF L2capOpenSignalingChannel
    <3>2. SignalingChannelHandle = NULL
      BY <2>3 DEF OwbShouldReconnect
    <3>3. pc["add"] = "idle"
      BY <2>1 DEF OpenInv, OpenerInv
    <3>4. \A u \in Threads \ {t} : pc[u] # "OPEN_SIGNALING"
      BY <3>3 DEF OpenInv, OpenerInv, OneReconnectWorker
    <3>5. QED
      BY <1>t, <1>f, <1>u, <2>1, <3>1, <3>2, <3>4, TalkOpens
  <2>4. QED
    BY <1>3, <2>2, <2>3 DEF OwbReconnectWorkCallback
<1>4. ASSUME NEW t \in AvdtpWorkers, OwbAvdtpWorkCallback(t) PROVE Talk'
  <2>1. pc[t] = "idle" /\ avdtpQueued /\ t \in Threads /\ t # "ioctl"
    BY <1>f, <1>4 DEF OwbAvdtpWorkCallback
  <2>2. SignalingChannelHandle # NULL
    BY <2>1 DEF Talk, ChannelInv
  <2>3. Only(t) /\ pc'[t] \in {"idle", "READ"}
        /\ (pc'[t] = "READ" => brb'[t].handle = SignalingChannelHandle /\ brb'[t].phase = "wait")
    <3>1. CASE UNCHANGED <<pc, brb>>
      BY <2>1, <3>1 DEF Only
    <3>2. CASE Enter(t, "READ", "wait", SignalingChannelHandle, NULL)
      BY <1>t, <2>1, <3>2, EnterOnly
    <3>3. QED
      BY <1>4, <3>1, <3>2 DEF OwbAvdtpWorkCallback
  <2>4. ~Carries(t)'
    BY <2>3 DEF Carries, Returned, Conversation, Commands
  <2>5. PlaceInv'
    BY <2>1, <2>3, PlaceMoves DEF Talk, Place
  <2>6. ChannelInv'
    BY <1>u, <2>1, <2>2, <2>3, ChannelMoves DEF Talk, Returned, Commands
  <2>7. \A c \in Codecs \cup {NULL} : Pends(c) => Pends(c)'
    BY <1>u, <2>1, <2>3, PendsKept
  <2>8. (Live' <=> Live)
        /\ (Returned("ioctl", "SUSPEND", "ok")' <=> Returned("ioctl", "SUSPEND", "ok"))
    BY <1>f, <1>u, <2>1, <2>3 DEF Live, Returned, Only
  <2>9. CarryOK(t)'
    BY <2>1, <2>4, NotCarrying
  <2>10. QED
    BY <1>t, <1>u, <2>1, <2>3, <2>4, <2>5, <2>6, <2>7, <2>8, <2>9, CodecTypes, BystanderMoves
<1>5. QED
  BY <1>1, <1>2, <1>3, <1>4

\* The IOCTL queue: a switch suspends only a stream that is up.
LEMMA TalkIoctl ==
  ASSUME IndInv, Talk,
         AvdtpSetPreferredCodec \/ SuspendReturns \/ L2capSendMediaFrame \/ SendMediaReturns
  PROVE  Talk'
<1>t. TypeOK /\ "ioctl" \in Threads /\ "ioctl" \notin AvdtpWorkers
  BY ThreadFacts, ThreadAssumption DEF IndInv, TypeInv
<1>u. UNCHANGED <<tx, rx, AvdtpWorkBuf, sinkCodec, sinkState, ActiveCodecId,
                  PendingCodecId, SignalingChannelHandle, avdtpQueued>>
  BY DEF AvdtpSetPreferredCodec, SuspendReturns, L2capSendMediaFrame, SendMediaReturns,
     HandlerFrame, avdtpVars, chanVars, recvVars, bthVars
<1>n. (Silent' <=> Silent) /\ (NoSuspend' <=> NoSuspend)
  BY <1>u DEF Silent, NoSuspend, Asked, Answered
<1>0. ASSUME Only("ioctl"), SignalingChannelHandle # NULL,
             pc["ioctl"] # "SET_CONFIGURATION",
             pc'["ioctl"] \in {"idle", "SEND_MEDIA"}, Live' => Live,
             ~Returned("ioctl", "SUSPEND", "ok")
      PROVE  Talk'
  <2>1. ~Carries("ioctl")'
    BY <1>0 DEF Carries, Returned, Conversation, Commands
  <2>2. CarryOK("ioctl")'
    BY <1>t, <2>1, NotCarrying
  <2>3. PlaceInv'
    BY <1>t, <1>0, PlaceMoves DEF Talk, Place
  <2>4. ChannelInv'
    BY <1>t, <1>u, <1>0, ChannelMoves DEF Talk, Returned, Commands
  <2>5. \A c \in Codecs \cup {NULL} : Pends(c) => Pends(c)'
    BY <1>t, <1>u, <1>0, PendsKept
  <2>6. QED
    BY <1>t, <1>u, <1>0, <2>1, <2>2, <2>3, <2>4, <2>5, CodecTypes, BystanderMoves
<1>1. CASE AvdtpSetPreferredCodec
  <2>1. pc["ioctl"] = "idle" /\ State' = State
    BY <1>1 DEF AvdtpSetPreferredCodec, avdtpVars
  <2>2. CASE UNCHANGED <<pc, brb>>
    BY <1>u, <2>1, <2>2, TalkRests
  <2>3. CASE State = "Streaming"
             /\ AvdtpSendCommand("ioctl", "SUSPEND", SignalingChannelHandle, NULL)
    <3>1. Only("ioctl") /\ pc'["ioctl"] = "SUSPEND" /\ brb'["ioctl"].phase \in {"wait", "fail"}
          /\ brb'["ioctl"].handle = SignalingChannelHandle
      BY <1>t, <2>3, SendOnly
    <3>2. Silent /\ Started /\ \A u \in Threads : ~Carries(u)
      <4>1. \A u \in Threads : pc[u] # "SUSPEND"
        BY <2>1 DEF Talk, PlaceInv, Place
      <4>2. QED
        BY <2>1, <2>3, <4>1 DEF Talk, LiveInv, Live, Returned
    <3>3. SignalingChannelHandle # NULL
      BY <2>3 DEF Talk, ChannelInv
    <3>4. Silent' /\ \A u \in Threads \ {"ioctl"} : ~Carries(u)'
      BY <1>t, <1>u, <1>n, <3>1, <3>2, OthersRest
    <3>5. Started'
      BY <1>u, <1>n, <3>2 DEF Started
    <3>6. PlaceInv'
      BY <1>t, <3>1, PlaceMoves DEF Talk, Place
    <3>7. ChannelInv'
      BY <1>t, <1>u, <3>1, <3>3, ChannelMoves DEF Talk, Returned
    <3>8. CarryOK("ioctl")'
      BY <3>1 DEF CarryOK, Returned, Conversation
    <3>9. LiveInv'
      BY <3>1, <3>4, <3>5 DEF LiveInv
    <3>10. QED
      BY <1>t, <3>4, <3>6, <3>7, <3>8, <3>9, TalkerMoves
  <2>4. QED
    BY <1>1, <2>2, <2>3 DEF AvdtpSetPreferredCodec
<1>2. CASE SuspendReturns
  <2>1. pc["ioctl"] = "SUSPEND" /\ SignalingChannelHandle # NULL
    BY <1>t, <1>2 DEF SuspendReturns, Returned, Talk, ChannelInv
  <2>2. CASE State' = "Idle" /\ Continue("ioctl", "CONNECT")
    <3>1. Only("ioctl") /\ pc'["ioctl"] = "CONNECT"
      BY <1>t, <2>2, ContinueOnly
    <3>2. Carries("ioctl")
      BY <2>1 DEF Carries
    <3>3. Silent' /\ \A u \in Threads \ {"ioctl"} : ~Carries(u)'
      BY <1>t, <1>u, <1>n, <3>1, <3>2, Alone, OthersRest
    <3>4. PlaceInv'
      BY <1>t, <3>1, PlaceMoves DEF Talk, Place
    <3>5. ChannelInv'
      BY <1>t, <1>u, <2>1, <3>1, ChannelMoves DEF Talk, Returned, Commands
    <3>6. CarryOK("ioctl")'
      BY <3>1 DEF CarryOK, Returned, Conversation, Commands
    <3>7. LiveInv'
      BY <2>2, <3>1 DEF LiveInv, Live
    <3>8. QED
      BY <1>t, <3>3, <3>4, <3>5, <3>6, <3>7, TalkerMoves
  <2>3. CASE Returned("ioctl", "SUSPEND", "fail") /\ State' = State /\ Return("ioctl")
    <3>1. Only("ioctl") /\ pc'["ioctl"] = "idle"
      BY <1>t, <2>3, ReturnOnly
    <3>2. ~Returned("ioctl", "SUSPEND", "ok") /\ (Live' => Live)
      BY <2>3, <3>1 DEF Returned, Live
    <3>3. QED
      BY <1>0, <2>1, <3>1, <3>2
  <2>4. QED
    BY <1>2, <2>2, <2>3 DEF SuspendReturns
<1>3. CASE L2capSendMediaFrame
  <2>1. pc["ioctl"] = "idle" /\ State = "Streaming"
    BY <1>3 DEF L2capSendMediaFrame
  <2>2. Only("ioctl") /\ pc'["ioctl"] = "SEND_MEDIA"
    BY <1>t, <1>3, EnterOnly DEF L2capSendMediaFrame
  <2>3. SignalingChannelHandle # NULL
    BY <2>1 DEF Talk, ChannelInv
  <2>4. QED
    BY <1>0, <2>1, <2>2, <2>3 DEF Live, Returned
<1>4. CASE SendMediaReturns
  <2>1. pc["ioctl"] = "SEND_MEDIA"
    BY <1>4 DEF SendMediaReturns
  <2>2. Only("ioctl") /\ pc'["ioctl"] = "idle"
    BY <1>t, <1>4, ReturnOnly DEF SendMediaReturns
  <2>3. SignalingChannelHandle # NULL
    BY <1>t, <2>1 DEF Talk, ChannelInv
  <2>4. QED
    BY <1>0, <2>1, <2>2, <2>3 DEF Live, Returned
<1>5. QED
  BY <1>1, <1>2, <1>3, <1>4

\* What becomes of a BRB that puts nothing on the wire and reads nothing.
QuietSubmit(t) ==
  \/ AcquireBrbLock(t) \/ CompleteOpenSignaling(t) \/ CompleteOpenMedia(t)
  \/ CompleteSendMedia(t) \/ BrbFails(t)

\* The fields of the BRB after such a step.
LEMMA QuietFacts ==
  ASSUME TypeOK, NEW t \in Threads, QuietSubmit(t)
  PROVE  /\ UNCHANGED <<tx, rx, AvdtpWorkBuf>>
         /\ pc[t] \in Commands \cup {"READ"} =>
              brb'[t].handle = brb[t].handle /\ brb'[t].phase \in {"inflight", "fail"}
         /\ pc[t] = "OPEN_SIGNALING" /\ brb'[t].phase = "ok" => brb'[t].handle # NULL
<1>b. brb[t] \in Brbs /\ brb[t].handle \in Handles \cup {NULL}
  BY DEF TypeOK, Brbs
<1>1. UNCHANGED <<tx, rx, AvdtpWorkBuf>>
  BY DEF QuietSubmit, AcquireBrbLock, CompleteOpenSignaling, CompleteOpenMedia,
     CompleteSendMedia, BrbFails, bthVars, recvVars
<1>2. CASE AcquireBrbLock(t)
  <2>1. brb'[t] = [brb[t] EXCEPT !.phase = "inflight"]
    BY <1>2 DEF AcquireBrbLock, TypeOK
  <2>2. brb'[t].phase = "inflight" /\ brb'[t].handle = brb[t].handle
    BY <1>b, <2>1 DEF Brbs
  <2>3. QED
    BY <1>1, <2>2
<1>3. CASE BrbFails(t)
  <2>1. Completes(t, "fail", brb[t].handle)
    BY <1>3 DEF BrbFails
  <2>2. brb'[t].phase = "fail" /\ brb'[t].handle = brb[t].handle
    BY <1>b, <2>1, CompletesType
  <2>3. QED
    BY <1>1, <2>2
<1>4. CASE CompleteOpenSignaling(t)
  <2>1. PICK h \in Handles : Completes(t, "ok", h)
    BY <1>4 DEF CompleteOpenSignaling
  <2>2. brb'[t].handle = h /\ h # NULL
    BY <2>1, CompletesType, ConstantAssumption
  <2>3. QED
    BY <1>1, <1>4, <2>2 DEF CompleteOpenSignaling, Commands
<1>5. CASE CompleteOpenMedia(t) \/ CompleteSendMedia(t)
  BY <1>1, <1>5 DEF CompleteOpenMedia, CompleteSendMedia, Commands
<1>6. QED
  BY <1>2, <1>3, <1>4, <1>5 DEF QuietSubmit

\* The lock is granted, a channel is open, a frame is sent, a BRB fails: what
\* was in hand stays or is lost.
LEMMA TalkQuietSubmit ==
  ASSUME IndInv, Talk, NEW t \in Threads, SubmitBrb(t), QuietSubmit(t)
  PROVE  Talk'
<1>t. TypeOK
  BY DEF IndInv, TypeInv
<1>f. /\ Only(t) /\ pc' = pc /\ brb[t].phase \in {"wait", "inflight"}
      /\ UNCHANGED <<State, ActiveCodecId, PendingCodecId, SignalingChannelHandle, avdtpQueued,
                     sinkCodec, sinkState>>
  BY <1>t, SubmitFacts DEF avdtpVars, chanVars
<1>q. /\ UNCHANGED <<tx, rx, AvdtpWorkBuf>>
      /\ pc[t] \in Commands \cup {"READ"} =>
           brb'[t].handle = brb[t].handle /\ brb'[t].phase \in {"inflight", "fail"}
      /\ pc[t] = "OPEN_SIGNALING" /\ brb'[t].phase = "ok" => brb'[t].handle # NULL
  BY <1>t, QuietFacts
<1>1. Carries(t)' => Carries(t)
  BY <1>f, <1>q DEF Carries, Returned
<1>2. CarryOK(t)'
  <2>1. CarryOK(t)
    BY DEF Talk, StageInv
  <2>2. NoSuspend' <=> NoSuspend
    BY <1>q DEF NoSuspend, Asked
  <2>3. \A s : Ahead(s) => Ahead(s)'
    BY <1>f, <2>2 DEF Ahead
  <2>4. QED
    BY <1>f, <1>q, <2>1, <2>3 DEF CarryOK, Returned
<1>3. PlaceInv'
  BY <1>f DEF Talk, PlaceInv, Place
<1>4. ChannelInv'
  <2>1. \A u \in Threads :
          /\ pc'[u] \in Commands \cup {"READ"} => brb'[u].handle = SignalingChannelHandle'
          /\ Returned(u, "OPEN_SIGNALING", "ok")' => brb'[u].handle # NULL
    BY <1>f, <1>q DEF Talk, ChannelInv, Only, Returned
  <2>2. QED
    BY <1>f, <1>q, <2>1 DEF Talk, ChannelInv
<1>5. (Live' <=> Live)
      /\ (Returned("ioctl", "SUSPEND", "ok") => Returned("ioctl", "SUSPEND", "ok")')
  BY <1>f, ThreadFacts DEF Live, Returned, Only
<1>6. \A c \in Codecs \cup {NULL} : Pends(c) => Pends(c)'
  <2>1. CASE pc[t] = "SET_CONFIGURATION"
    BY <1>f, <2>1 DEF Pends
  <2>2. CASE pc[t] # "SET_CONFIGURATION"
    BY <1>f, <2>2, PendsKept
  <2>3. QED
    BY <2>1, <2>2
<1>7. QED
  BY <1>t, <1>f, <1>q, <1>1, <1>2, <1>3, <1>4, <1>5, <1>6, CodecTypes, BystanderMoves

\* A command is on the wire: it was the only thing in hand.
LEMMA TalkSends ==
  ASSUME IndInv, Talk, OneAvdtpWorker, NEW t \in Threads, SubmitBrb(t),
         CompleteSendSignaling(t)
  PROVE  Talk'
<1>t. TypeOK
  BY DEF IndInv, TypeInv
<1>f. /\ Only(t) /\ pc' = pc /\ brb[t].phase \in {"wait", "inflight"}
      /\ brb'[t].codec = brb[t].codec
      /\ UNCHANGED <<State, ActiveCodecId, PendingCodecId, SignalingChannelHandle, avdtpQueued,
                     sinkCodec, sinkState>>
  BY <1>t, SubmitFacts DEF avdtpVars, chanVars
<1> DEFINE msg == [signal |-> pc[t], codec |-> brb[t].codec]
<1>h. PICK h \in Handles : h = brb[t].handle
  BY <1>t DEF CompleteSendSignaling, TypeOK
<1>1. /\ pc[t] \in Commands /\ UNCHANGED <<rx, AvdtpWorkBuf>>
      /\ tx' = [tx EXCEPT ![h] = Append(@, msg)] /\ Completes(t, "ok", h)
  BY <1>h DEF CompleteSendSignaling
<1>2. brb'[t].phase = "ok" /\ brb'[t].handle = h /\ h = SignalingChannelHandle
  BY <1>t, <1>h, <1>1, CompletesType DEF Talk, ChannelInv
<1>3. /\ tx[h] \in Seq(CommandMsgs) /\ tx'[h] = Append(tx[h], msg)
      /\ \A g \in Handles : g # h => tx'[g] = tx[g]
  BY <1>t, <1>1 DEF TypeOK
<1>m. msg.signal = pc[t] /\ msg.codec = brb[t].codec
  OBVIOUS
<1> HIDE DEF msg
<1>n. PICK n \in Nat : n = Len(tx[h]) + 1
  BY <1>3
<1>4. /\ n \in Nat /\ n \in DOMAIN tx'[h] /\ tx'[h][n] = msg
      /\ \A i \in Nat : i \in DOMAIN tx'[h] /\ i # n =>
           i \in DOMAIN tx[h] /\ tx'[h][i] = tx[h][i] /\ i < n
  BY <1>3, <1>n
<1>5. Carries(t)
  BY <1>f, <1>1 DEF Carries, Conversation
<1>6. Silent /\ \A u \in Threads \ {t} : ~Carries(u)'
  BY <1>f, <1>1, <1>5, Alone, OthersRest
<1>7. \A g \in Handles : \A i \in Nat :
        /\ Asked(g, i)' => g = h /\ i = n
        /\ ~Answered(g, i)'
  BY <1>1, <1>3, <1>4, <1>6 DEF Silent, Asked, Answered
<1>8. PlaceInv'
  BY <1>f DEF Talk, PlaceInv, Place
<1>9. ChannelInv'
  <2>1. \A u \in Threads :
          /\ pc'[u] \in Commands \cup {"READ"} => brb'[u].handle = SignalingChannelHandle'
          /\ Returned(u, "OPEN_SIGNALING", "ok")' => brb'[u].handle # NULL
    BY <1>f, <1>1, <1>2 DEF Talk, ChannelInv, Only, Returned, Commands
  <2>2. \A g \in Handles : g # SignalingChannelHandle' => tx'[g] = << >> /\ rx'[g] = << >>
    BY <1>f, <1>1, <1>2, <1>3 DEF Talk, ChannelInv
  <2>3. QED
    BY <1>f, <2>1, <2>2 DEF Talk, ChannelInv
<1>10. CASE pc[t] = "SUSPEND"
  <2>1. t = "ioctl"
    BY <1>10 DEF Talk, PlaceInv, Place
  <2>2. ~Asked(h, n)'
    BY <1>4, <1>m, <1>10 DEF Asked
  <2>3. Silent'
    BY <1>7, <2>2 DEF Silent
  <2>4. CarryOK(t)'
    BY <1>f, <1>10 DEF CarryOK, Returned, Conversation
  <2>5. LiveInv'
    BY <1>f, <1>2, <1>6, <1>10, <2>1, <2>3 DEF LiveInv, Returned
  <2>6. QED
    BY <1>6, <1>8, <1>9, <2>3, <2>4, <2>5, TalkerMoves
<1>11. CASE pc[t] # "SUSPEND"
  <2>1. ~Carries(t)'
    BY <1>f, <1>1, <1>2, <1>11 DEF Carries, Returned, Commands
  <2>2. \A u \in Threads : ~Carries(u)'
    BY <1>6, <2>1
  <2>3. OneTalk'
    BY <1>7, <2>2 DEF OneTalk
  <2>4. ~Live'
    BY <1>f, <1>5, <1>11 DEF Talk, LiveInv, Live
  <2>5. Asked(h, n)' /\ tx'[h][n].signal = pc[t] /\ tx'[h][n].codec = brb[t].codec
    BY <1>4, <1>m, <1>11 DEF Asked
  <2>6. Ahead(pc[t])
    BY <1>f, <1>1, <1>11 DEF Talk, StageInv, CarryOK, Conversation
  <2>7. NoSuspend => NoSuspend'
    <3> SUFFICES ASSUME NoSuspend, NEW g \in Handles, NEW i \in Nat, i \in DOMAIN tx'[g]
                 PROVE  Asked(g, i)'
      BY DEF NoSuspend
    <3>1. \A j \in Nat : j \notin DOMAIN tx[g] /\ j \notin DOMAIN tx[h]
      BY <1>1, <1>6 DEF NoSuspend, Silent
    <3>2. QED
      BY <1>3, <1>4, <2>5, <3>1
  <2>8. AskedOK(h, n)'
    <3>1. Ahead(tx[h][n].signal)'
      BY <1>f, <2>5, <2>6, <2>7 DEF Ahead
    <3>2. tx'[h][n].signal = "SET_CONFIGURATION" => Pends(tx[h][n].codec)'
      BY <1>f, <1>2, <2>5 DEF Talk, PlaceInv, Place, OneAvdtpWorker, Pends
    <3>3. \A j \in Nat : j \in DOMAIN tx'[h] /\ j > n => Asked(h, j)'
      BY <1>4
    <3>4. QED
      BY <2>5, <3>1, <3>2, <3>3 DEF AskedOK
  <2>9. StageInv'
    <3>1. \A u \in Threads : CarryOK(u)'
      BY <2>2, NotCarrying
    <3>2. QED
      BY <1>7, <2>8, <3>1 DEF StageInv
  <2>10. QED
    BY <1>8, <1>9, <2>3, <2>4, <2>9 DEF Talk, LiveInv
<1>12. QED
  BY <1>10, <1>11

\* The first element of a sequence and where the others go.
LEMMA HeadTail ==
  ASSUME NEW S, NEW q \in Seq(S), q # << >>
  PROVE  /\ 1 \in DOMAIN q /\ Head(q) = q[1]
         /\ \A i \in Nat : i \in DOMAIN Tail(q) =>
              i + 1 \in Nat /\ i + 1 \in DOMAIN q /\ Tail(q)[i] = q[i + 1] /\ i + 1 # 1
         /\ \A i \in Nat : i + 1 \in DOMAIN q /\ i # 0 => i \in DOMAIN Tail(q)
<1>1. Len(q) \in Nat /\ Len(q) # 0 /\ DOMAIN q = 1 .. Len(q)
  OBVIOUS
<1>2. Head(q) = q[1] /\ 1 \in DOMAIN q
  BY <1>1
<1>3. DOMAIN Tail(q) = 1 .. Len(q) - 1 /\ \A i \in 1 .. Len(q) - 1 : Tail(q)[i] = q[i + 1]
  BY <1>1
<1>4. QED
  BY <1>1, <1>2, <1>3

\* The read of a channel: its first packet is in AvdtpWorkBuf.
LEMMA TalkReads ==
  ASSUME IndInv, Talk, OneAvdtpWorker, NEW t \in Threads, SubmitBrb(t), CompleteRead(t)
  PROVE  Talk'
<1>t. TypeOK
  BY DEF IndInv, TypeInv
<1>f. /\ Only(t) /\ pc' = pc /\ brb[t].phase \in {"wait", "inflight"}
      /\ UNCHANGED <<State, ActiveCodecId, PendingCodecId, SignalingChannelHandle, avdtpQueued,
                     sinkCodec, sinkState>>
  BY <1>t, SubmitFacts DEF avdtpVars, chanVars
<1>h. PICK h \in Handles : h = brb[t].handle
  BY <1>t DEF CompleteRead, TypeOK
<1>1. /\ pc[t] = "READ" /\ rx[h] # << >> /\ AvdtpWorkBuf' = Head(rx[h])
      /\ rx' = [rx EXCEPT ![h] = Tail(@)] /\ tx' = tx /\ Completes(t, "ok", h)
  BY <1>h DEF CompleteRead
<1>2. brb'[t].phase = "ok" /\ brb'[t].handle = h /\ h = SignalingChannelHandle
  BY <1>t, <1>h, <1>1, CompletesType DEF Talk, ChannelInv
<1>3. /\ rx[h] \in Seq(Packets) /\ rx'[h] = Tail(rx[h])
      /\ \A g \in Handles : g # h => rx'[g] = rx[g]
  BY <1>t, <1>1 DEF TypeOK
<1>4. /\ 1 \in DOMAIN rx[h] /\ AvdtpWorkBuf' = rx[h][1]
      /\ \A i \in Nat : i \in DOMAIN rx'[h] =>
           i + 1 \in Nat /\ i + 1 \in DOMAIN rx[h] /\ rx'[h][i] = rx[h][i + 1] /\ i + 1 # 1
  <2>1. 1 \in DOMAIN rx[h] /\ Head(rx[h]) = rx[h][1]
        /\ \A i \in Nat : i \in DOMAIN Tail(rx[h]) =>
              i + 1 \in Nat /\ i + 1 \in DOMAIN rx[h] /\ Tail(rx[h])[i] = rx[h][i + 1]
              /\ i + 1 # 1
    <3>1. rx[h] \in Seq(Packets) /\ rx[h] # << >>
      BY <1>1, <1>3
    <3>2. QED
      BY <3>1, HeadTail, Zenon
  <2>2. QED
    BY <1>1, <1>3, <2>1, Zenon
<1>5. \A u \in Threads \ {t} : pc[u] \notin {"READ", "SET_CONFIGURATION"}
  BY <1>1 DEF Talk, PlaceInv, Place, OneAvdtpWorker
<1>6. \A u \in Threads \ {t} : Carries(u)' <=> Carries(u)
  BY <1>f, <1>5 DEF Carries, Returned, Only
<1>7. /\ \A g \in Handles : \A i \in Nat : Asked(g, i)' <=> Asked(g, i)
      /\ \A g \in Handles : \A i \in Nat : g # h => (Answered(g, i)' <=> Answered(g, i))
      /\ \A i \in Nat : Answered(h, i)' => Answered(h, i + 1)
      /\ NoSuspend' <=> NoSuspend
  BY <1>1, <1>3, <1>4 DEF Asked, Answered, NoSuspend
<1>8. \A c : Pends(c)' <=> Pends(c)
  BY <1>f, <1>1, <1>5 DEF Pends, Only
<1>9. \A p : Replied(p)' <=> Replied(p)
  BY <1>f, <1>7, <1>8 DEF Replied
<1>10. PlaceInv'
  BY <1>f DEF Talk, PlaceInv, Place
<1>11. ChannelInv'
  <2>1. \A u \in Threads :
          /\ pc'[u] \in Commands \cup {"READ"} => brb'[u].handle = SignalingChannelHandle'
          /\ Returned(u, "OPEN_SIGNALING", "ok")' => brb'[u].handle # NULL
    BY <1>f, <1>1, <1>2 DEF Talk, ChannelInv, Only, Returned
  <2>2. \A g \in Handles : g # SignalingChannelHandle' => tx'[g] = << >> /\ rx'[g] = << >>
    BY <1>f, <1>1, <1>2, <1>3 DEF Talk, ChannelInv
  <2>3. QED
    BY <1>f, <2>1, <2>2 DEF Talk, ChannelInv
<1>12. CASE Answered(h, 1)
  <2>1. \A u \in Threads : ~Carries(u)
    BY <1>12 DEF Talk, OneTalk, Silent
  <2>2. ~Live'
    BY <1>f, <1>12 DEF Talk, LiveInv, Live, Silent
  <2>3. Silent'
    <3>1. \A i \in Nat : ~Asked(h, i)
      BY <1>12 DEF Talk, OneTalk
    <3>2. \A i \in Nat : ~Answered(h, i)'
      <4> SUFFICES ASSUME NEW i \in Nat, Answered(h, i)' PROVE FALSE
        OBVIOUS
      <4>1. Answered(h, i + 1) /\ i + 1 \in Nat /\ i \in DOMAIN rx'[h]
        BY <1>7 DEF Answered
      <4>2. i + 1 # 1
        BY <1>4, <4>1
      <4>3. i + 1 = 1
        BY <1>12, <4>1 DEF Talk, OneTalk
      <4>4. QED
        BY <4>2, <4>3
    <3>3. \A g \in Handles : g # h => tx[g] = << >> /\ rx'[g] = << >>
      BY <1>2, <1>3 DEF Talk, ChannelInv
    <3>4. \A g \in Handles : \A i \in Nat : g # h => ~Asked(g, i)' /\ ~Answered(g, i)'
      BY <1>1, <3>3 DEF Asked, Answered
    <3>5. QED
      BY <1>7, <3>1, <3>2, <3>4 DEF Silent
  <2>4. Replied(rx[h][1])
    BY <1>12 DEF Talk, StageInv
  <2>5. CarryOK(t)'
    BY <1>f, <1>1, <1>4, <1>9, <2>4 DEF CarryOK, Conversation, Commands
  <2>6. QED
    BY <1>6, <1>10, <1>11, <2>1, <2>2, <2>3, <2>5, TalkerMoves DEF LiveInv
<1>13. CASE ~Answered(h, 1)
  <2>1. AvdtpWorkBuf'.signal = "SUSPEND"
    BY <1>4, <1>13 DEF Answered
  <2>2. ~Carries(t)' /\ ~Carries(t)
    BY <1>f, <1>1, <2>1 DEF Carries, Returned, Conversation, Commands
  <2>3. \A u \in Threads : Carries(u)' <=> Carries(u)
    BY <1>6, <2>2
  <2>4. Silent => Silent'
    BY <1>7 DEF Silent
  <2>5. OneTalk'
    <3>1. ASSUME NEW g \in Handles, NEW i \in Nat, NEW j \in Nat
          PROVE  /\ Asked(g, i)' /\ Asked(g, j)' => i = j
                 /\ Answered(g, i)' /\ Answered(g, j)' => i = j
                 /\ ~(Asked(g, i)' /\ Answered(g, j)')
      <4>1. CASE g = h
        <5>1. Answered(h, i)' /\ Answered(h, j)' => i + 1 = j + 1
          BY <1>7 DEF Talk, OneTalk
        <5>2. QED
          BY <1>7, <4>1, <5>1 DEF Talk, OneTalk
      <4>2. CASE g # h
        BY <1>7, <4>2 DEF Talk, OneTalk
      <4>3. QED
        BY <4>1, <4>2
    <3>2. QED
      BY <2>3, <2>4, <3>1 DEF Talk, OneTalk
  <2>6. StageInv'
    <3>1. \A u \in Threads : CarryOK(u)'
      <4> SUFFICES ASSUME NEW u \in Threads PROVE CarryOK(u)'
        OBVIOUS
      <4>1. CASE u = t
        BY <2>2, <4>1, NotCarrying
      <4>2. CASE u # t
        <5>1. CarryOK(u) /\ pc'[u] = pc[u] /\ brb'[u] = brb[u] /\ pc[u] # "READ"
          BY <1>f, <1>5, <4>2 DEF Talk, StageInv, Only
        <5>2. \A s : Ahead(s)' <=> Ahead(s)
          BY <1>f, <1>7 DEF Ahead
        <5>3. QED
          BY <5>1, <5>2 DEF CarryOK, Returned
      <4>3. QED
        BY <4>1, <4>2
    <3>2. \A g \in Handles : \A i \in Nat : Asked(g, i)' => AskedOK(g, i)'
      <4> SUFFICES ASSUME NEW g \in Handles, NEW i \in Nat, Asked(g, i) PROVE AskedOK(g, i)'
        BY <1>7
      <4>1. AskedOK(g, i)
        BY DEF Talk, StageInv
      <4>2. QED
        BY <1>f, <1>1, <1>7, <1>8, <4>1 DEF AskedOK, Ahead
    <3>3. \A g \in Handles : \A i \in Nat : Answered(g, i)' => Replied(rx[g][i])'
      <4> SUFFICES ASSUME NEW g \in Handles, NEW i \in Nat, Answered(g, i)'
                   PROVE  Replied(rx[g][i])'
        OBVIOUS
      <4>1. CASE g = h
        <5>1. Replied(rx[h][i + 1]) /\ i \in DOMAIN rx'[h]
          BY <1>7, <4>1 DEF Talk, StageInv, Answered
        <5>2. rx'[h][i] = rx[h][i + 1]
          BY <1>4, <5>1
        <5>3. QED
          BY <1>9, <4>1, <5>1, <5>2
      <4>2. CASE g # h
        <5>1. Replied(rx[g][i]) /\ rx'[g] = rx[g]
          BY <1>3, <1>7, <4>2 DEF Talk, StageInv
        <5>2. QED
          BY <1>9, <5>1
      <4>3. QED
        BY <4>1, <4>2
    <3>4. QED
      BY <3>1, <3>2, <3>3 DEF StageInv
  <2>7. LiveInv'
    <3>1. (Live' <=> Live)
          /\ (Returned("ioctl", "SUSPEND", "ok") => Returned("ioctl", "SUSPEND", "ok")')
          /\ (Started => Started')
      BY <1>f, <1>7, ThreadFacts DEF Live, Returned, Only, Started
    <3>2. QED
      BY <1>f, <2>3, <2>4, <3>1 DEF Talk, LiveInv
  <2>8. QED
    BY <1>10, <1>11, <2>5, <2>6, <2>7 DEF Talk
<1>14. QED
  BY <1>12, <1>13

\* A response answers its command.
LEMMA ResponseSignal ==
  ASSUME NEW signal, NEW r \in Responses(signal)
  PROVE  r.signal = signal
<1>2. \A p \in Accepts(signal) : p.signal = signal
  <2>1. CASE signal = "DISCOVER"
    <3>1. Accepts(signal) = {Response(signal, TRUE, s, {}) : s \in Seids}
      BY <2>1 DEF Accepts
    <3>2. \A p \in Accepts(signal) : \E s \in Seids : p = Response(signal, TRUE, s, {})
      BY <3>1
    <3>3. \A s \in Seids : Response(signal, TRUE, s, {}).signal = signal
      BY DEF Response
    <3>4. QED
      BY <3>2, <3>3
  <2>2. CASE signal = "GET_CAPABILITIES"
    <3>1. Accepts(signal) = {Response(signal, TRUE, NULL, c) : c \in SinkCaps}
      BY <2>2 DEF Accepts
    <3>2. \A p \in Accepts(signal) : \E c \in SinkCaps : p = Response(signal, TRUE, NULL, c)
      BY <3>1
    <3>3. \A c \in SinkCaps : Response(signal, TRUE, NULL, c).signal = signal
      BY DEF Response
    <3>4. QED
      BY <3>2, <3>3
  <2>3. CASE signal \notin {"DISCOVER", "GET_CAPABILITIES"}
    <3>1. Accepts(signal) = {Response(signal, TRUE, NULL, {})}
      BY <2>3 DEF Accepts
    <3>2. Response(signal, TRUE, NULL, {}).signal = signal
      BY DEF Response
    <3>3. QED
      BY <3>1, <3>2
  <2>4. QED
    BY <2>1, <2>2, <2>3
<1>3. \A p \in Refusals(signal) : p.signal = signal
  <2>1. Response(signal, FALSE, NULL, {}).signal = signal
        /\ Response(signal, TRUE, NULL, {}).signal = signal
    BY DEF Response
  <2>2. \A p \in Refusals(signal) :
          p = Response(signal, FALSE, NULL, {}) \/ p = Response(signal, TRUE, NULL, {})
    BY DEF Refusals
  <2>3. QED
    BY <2>1, <2>2
<1>4. QED
  BY <1>2, <1>3 DEF Responses
\* The sink answers a command: a SUSPEND beside the conversation, or the one
\* command of it that is under way.
LEMMA TalkRecv ==
  ASSUME IndInv, Talk, NEW h \in Handles, IndicationRecvPacket(h)
  PROVE  Talk'
<1>t. TypeOK
  BY DEF IndInv, TypeInv
<1>u. UNCHANGED <<pc, brb, AvdtpWorkBuf, State, ActiveCodecId, PendingCodecId,
                  SignalingChannelHandle>>
  BY DEF IndicationRecvPacket, avdtpVars, chanVars
<1>n. tx[h] # << >> /\ tx[h] \in Seq(CommandMsgs) /\ rx[h] \in Seq(Packets)
  BY <1>t DEF IndicationRecvPacket, TypeOK
<1>0. /\ 1 \in DOMAIN tx[h] /\ Head(tx[h]) = tx[h][1]
      /\ \A i \in Nat : i \in DOMAIN Tail(tx[h]) =>
           i + 1 \in Nat /\ i + 1 \in DOMAIN tx[h] /\ Tail(tx[h])[i] = tx[h][i + 1]
           /\ i + 1 # 1
  BY <1>n, HeadTail, Zenon
<1>1. PICK cmd, r :
        /\ cmd = tx[h][1] /\ r \in Responses(cmd.signal)
        /\ rx' = [rx EXCEPT ![h] = Append(@, r)]
        /\ sinkCodec' = IF r.accept /\ cmd.signal = "SET_CONFIGURATION"
                        THEN cmd.codec ELSE sinkCodec
        /\ sinkState' = IF r.accept THEN SinkStateAfter(cmd.signal) ELSE sinkState
  BY <1>0 DEF IndicationRecvPacket
<1>2. r.signal = cmd.signal
  BY <1>1, ResponseSignal
<1>3. /\ tx'[h] = Tail(tx[h]) /\ rx'[h] = Append(rx[h], r)
      /\ \A g \in Handles : g # h => tx'[g] = tx[g] /\ rx'[g] = rx[g]
  BY <1>t, <1>1 DEF IndicationRecvPacket, TypeOK
<1>k. PICK n \in Nat : n = Len(rx[h]) + 1
  BY <1>n
<1>4. /\ n \in DOMAIN rx'[h] /\ rx'[h][n] = r
      /\ \A i \in Nat : i \in DOMAIN rx'[h] /\ i # n =>
           i \in DOMAIN rx[h] /\ rx'[h][i] = rx[h][i]
  BY <1>3, <1>k, <1>n
<1>5. \A i \in Nat : i \in DOMAIN tx'[h] =>
        i + 1 \in Nat /\ i + 1 \in DOMAIN tx[h] /\ tx'[h][i] = tx[h][i + 1] /\ i + 1 # 1
  BY <1>0, <1>3, Zenon
<1>6. \A u \in Threads : Carries(u)' <=> Carries(u)
  BY <1>u DEF Carries, Returned
<1>7. /\ \A i \in Nat : Asked(h, i)' => Asked(h, i + 1) /\ i + 1 \in Nat /\ i + 1 # 1
      /\ \A g \in Handles : \A i \in Nat : g # h => (Asked(g, i)' <=> Asked(g, i))
                                                    /\ (Answered(g, i)' <=> Answered(g, i))
      /\ \A i \in Nat : i # n => (Answered(h, i)' => Answered(h, i))
  BY <1>3, <1>4, <1>5 DEF Asked, Answered
<1>8. \A c : Pends(c) => Pends(c)'
  BY <1>u DEF Pends
<1>c. h = SignalingChannelHandle /\ SignalingChannelHandle # NULL
  BY <1>n, ConstantAssumption DEF Talk, ChannelInv
<1>9. PlaceInv'
  BY <1>u DEF Talk, PlaceInv, Place
<1>10. ChannelInv'
  <2>1. \A g \in Handles : g # SignalingChannelHandle' => tx'[g] = << >> /\ rx'[g] = << >>
    BY <1>u, <1>c, <1>3 DEF Talk, ChannelInv
  <2>2. QED
    BY <1>u, <1>c, <2>1 DEF Talk, ChannelInv, Returned
<1>11. CASE cmd.signal = "SUSPEND"
  <2>1. ~NoSuspend
    BY <1>0, <1>1, <1>11 DEF NoSuspend, Asked
  <2>2. sinkCodec' = sinkCodec
    BY <1>1, <1>11
  <2>3. \A i \in Nat : Answered(h, i)' => Answered(h, i) /\ i # n
    BY <1>2, <1>4, <1>7, <1>11 DEF Answered
  <2>4. Silent => Silent'
    BY <1>7, <2>3 DEF Silent
  <2>5. OneTalk'
    <3>1. ASSUME NEW g \in Handles, NEW i \in Nat, NEW j \in Nat
          PROVE  /\ Asked(g, i)' /\ Asked(g, j)' => i = j
                 /\ Answered(g, i)' /\ Answered(g, j)' => i = j
                 /\ ~(Asked(g, i)' /\ Answered(g, j)')
      <4>1. CASE g = h
        <5>1. Asked(h, i)' /\ Asked(h, j)' => i + 1 = j + 1
          BY <1>7 DEF Talk, OneTalk
        <5>2. QED
          BY <1>7, <2>3, <4>1, <5>1 DEF Talk, OneTalk
      <4>2. CASE g # h
        BY <1>7, <4>2 DEF Talk, OneTalk
      <4>3. QED
        BY <4>1, <4>2
    <3>2. QED
      BY <1>6, <2>4, <3>1 DEF Talk, OneTalk
  <2>6. /\ \A s : Ahead(s) => Ahead(s)'
        /\ \A p : Replied(p) => Replied(p)'
    BY <1>u, <2>1, <2>2 DEF Ahead, Replied
  <2>7. StageInv'
    <3>1. \A u \in Threads : CarryOK(u)'
      BY <1>u, <2>6 DEF Talk, StageInv, CarryOK, Returned
    <3>2. ASSUME NEW g \in Handles, NEW i \in Nat, Asked(g, i)' PROVE AskedOK(g, i)'
      <4>1. CASE g = h
        <5>1. /\ AskedOK(h, i + 1) /\ i + 1 \in Nat /\ i \in DOMAIN tx'[h]
              /\ tx'[h][i] = tx[h][i + 1]
          BY <1>5, <1>7, <3>2, <4>1 DEF Talk, StageInv, Asked
        <5>2. ASSUME tx'[h][i].signal = "DISCOVER", NEW j \in Nat, j \in DOMAIN tx'[h], j > i
              PROVE  Asked(h, j)'
          <6>1. j + 1 \in Nat /\ j + 1 > i + 1 /\ j + 1 \in DOMAIN tx[h]
                /\ tx'[h][j] = tx[h][j + 1]
            BY <1>5, <5>2
          <6>2. Asked(h, j + 1)
            BY <5>1, <5>2, <6>1 DEF AskedOK
          <6>3. QED
            BY <5>2, <6>1, <6>2 DEF Asked
        <5>3. QED
          BY <1>8, <2>6, <4>1, <5>1, <5>2 DEF AskedOK
      <4>2. CASE g # h
        <5>1. AskedOK(g, i) /\ tx'[g] = tx[g]
          BY <1>3, <1>7, <3>2, <4>2 DEF Talk, StageInv
        <5>2. QED
          BY <1>7, <1>8, <2>6, <4>2, <5>1 DEF AskedOK
      <4>3. QED
        BY <4>1, <4>2
    <3>3. ASSUME NEW g \in Handles, NEW i \in Nat, Answered(g, i)' PROVE Replied(rx[g][i])'
      <4>1. Answered(g, i) /\ rx'[g][i] = rx[g][i]
        BY <1>3, <1>4, <1>7, <2>3, <3>3 DEF Answered
      <4>2. Replied(rx[g][i])
        BY <4>1 DEF Talk, StageInv
      <4>3. QED
        BY <2>6, <4>1, <4>2
    <3>4. QED
      BY <3>1, <3>2, <3>3 DEF StageInv
  <2>8. LiveInv'
    <3>1. (Live' <=> Live)
          /\ (Returned("ioctl", "SUSPEND", "ok")' <=> Returned("ioctl", "SUSPEND", "ok"))
      BY <1>u DEF Live, Returned
    <3>2. ~Started
      BY <2>1 DEF Started
    <3>3. QED
      BY <1>u, <1>6, <2>4, <3>1, <3>2 DEF Talk, LiveInv
  <2>9. QED
    BY <1>9, <1>10, <2>5, <2>7, <2>8 DEF Talk
<1>12. CASE cmd.signal # "SUSPEND"
  <2>1. Asked(h, 1)
    BY <1>0, <1>1, <1>12 DEF Asked
  <2>2. (\A u \in Threads : ~Carries(u)) /\ ~Live
    BY <2>1 DEF Talk, OneTalk, LiveInv, Silent
  <2>3. \A i \in Nat : ~Answered(h, i)
    BY <2>1 DEF Talk, OneTalk
  <2>4. AskedOK(h, 1)
    BY <2>1 DEF Talk, StageInv
  <2>5. \A i \in Nat : i \notin DOMAIN tx'[h]
    <3> SUFFICES ASSUME NEW i \in Nat, i \in DOMAIN tx'[h] PROVE FALSE
      OBVIOUS
    <3>1. i + 1 \in Nat /\ i + 1 \in DOMAIN tx[h] /\ i + 1 # 1 /\ i + 1 > 1
      BY <1>5
    <3>2. Asked(h, i + 1)
      <4>1. CASE cmd.signal = "DISCOVER"
        BY <1>1, <2>4, <3>1, <4>1 DEF AskedOK
      <4>2. CASE cmd.signal # "DISCOVER"
        BY <1>1, <2>4, <3>1, <4>2 DEF AskedOK, Ahead, NoSuspend
      <4>3. QED
        BY <4>1, <4>2
    <3>3. QED
      BY <2>1, <3>1, <3>2 DEF Talk, OneTalk
  <2>6. \A g \in Handles : g # h => tx'[g] = << >> /\ rx'[g] = << >>
    BY <1>c, <1>3 DEF Talk, ChannelInv
  <2>7. /\ NoSuspend'
        /\ \A g \in Handles : \A i \in Nat : ~Asked(g, i)' /\ (Answered(g, i)' => g = h /\ i = n)
    BY <1>7, <2>3, <2>5, <2>6 DEF NoSuspend, Asked, Answered
  <2>8. OneTalk'
    BY <1>6, <2>2, <2>7 DEF OneTalk
  <2>9. Replied(r)'
    <3> SUFFICES ASSUME r.accept = TRUE
                 PROVE  /\ r.signal = "SET_CONFIGURATION" => Pends(sinkCodec)'
                        /\ r.signal \in {"OPEN", "START"} => ActiveCodecId' = sinkCodec'
                        /\ r.signal = "START" => sinkState' = "streaming"
      BY <2>7 DEF Replied
    <3>1. r.signal = "SET_CONFIGURATION" => Pends(sinkCodec)'
      <4>1. ASSUME r.signal = "SET_CONFIGURATION" PROVE Pends(cmd.codec) /\ sinkCodec' = cmd.codec
        BY <1>1, <1>2, <2>4, <4>1 DEF AskedOK
      <4>2. QED
        BY <1>8, <4>1
    <3>2. r.signal \in {"OPEN", "START"} => ActiveCodecId' = sinkCodec'
      BY <1>u, <1>1, <1>2, <2>4 DEF AskedOK, Ahead
    <3>3. r.signal = "START" => sinkState' = "streaming"
      BY <1>1, <1>2 DEF SinkStateAfter
    <3>4. QED
      BY <3>1, <3>2, <3>3
  <2>10. StageInv'
    <3>1. \A u \in Threads : CarryOK(u)'
      BY <1>6, <2>2, NotCarrying
    <3>2. QED
      BY <1>4, <2>7, <2>9, <3>1 DEF StageInv
  <2>11. LiveInv'
    BY <1>u, <2>2 DEF LiveInv, Live
  <2>12. QED
    BY <1>9, <1>10, <2>8, <2>10, <2>11 DEF Talk
<1>13. QED
  BY <1>11, <1>12
\* Before EvtDeviceAdd there is neither a channel nor a conversation.
LEMMA InitTalkInv == Init => TalkInv
<1> SUFFICES ASSUME Init PROVE Talk
  BY DEF TalkInv
<1>1. \A t \in Threads : pc[t] \in {"start", "idle"}
  BY DEF Init
<1>2. \A h \in Handles : tx[h] = << >> /\ rx[h] = << >>
  BY DEF Init
<1>3. \A t \in Threads : ~Carries(t)
  BY <1>1 DEF Carries, Returned, Conversation, Commands
<1>4. \A h \in Handles : \A i \in Nat : ~Asked(h, i) /\ ~Answered(h, i)
  BY <1>2 DEF Asked, Answered
<1>5. PlaceInv
  BY <1>1 DEF PlaceInv, Place
<1>6. ChannelInv
  BY <1>1, <1>2 DEF Init, ChannelInv, Returned, Commands
<1>7. OneTalk
  BY <1>3, <1>4 DEF OneTalk
<1>8. StageInv
  BY <1>3, <1>4, NotCarrying DEF StageInv
<1>9. LiveInv
  BY <1>1, ThreadFacts DEF Init, LiveInv, Live
<1>10. QED
  BY <1>5, <1>6, <1>7, <1>8, <1>9 DEF Talk

\* Every step keeps the conversation in order until the link is lost.
LEMMA NextTalkInv ==
  ASSUME OneReconnectWorker, OneAvdtpWorker, IndInv, OpenInv, TalkInv, [Next]_vars
  PROVE  TalkInv'
<1> SUFFICES ASSUME disconnects' = 0 PROVE Talk'
  BY DEF TalkInv
<1>d. disconnects \in Nat
  BY ConstantAssumption DEF IndInv, TypeInv, TypeOK
<1>0. ASSUME disconnects' = disconnects PROVE Talk
  BY <1>0 DEF TalkInv
<1>1. ASSUME NEW t \in Threads, SubmitBrb(t) PROVE Talk'
  <2>t. TypeOK
    BY DEF IndInv, TypeInv
  <2>1. Talk
    BY <1>0, <1>1, <2>t, SubmitFacts DEF inputVars
  <2>2. CASE QuietSubmit(t)
    BY <1>1, <2>1, <2>2, TalkQuietSubmit
  <2>3. CASE CompleteSendSignaling(t)
    BY <1>1, <2>1, <2>3, TalkSends
  <2>4. CASE CompleteRead(t)
    BY <1>1, <2>1, <2>4, TalkReads
  <2>5. QED
    BY <1>1, <2>2, <2>3, <2>4 DEF SubmitBrb, CompleteBrb, QuietSubmit
<1>2. ASSUME NEW t \in Threads, Run(t) PROVE Talk'
  <2>t. TypeOK
    BY DEF IndInv, TypeInv
  <2>1. CASE OpenSignalingReturns(t)
    <3>1. Talk
      BY <1>0, <2>1 DEF OpenSignalingReturns, inputVars
    <3>2. QED
      BY <2>1, <3>1, TalkOpenReturns
  <2>2. CASE SetConnecting(t) \/ AvdtpConnect(t)
    <3>1. Talk
      BY <1>0, <2>t, <2>2, ConnectFacts DEF HandlerFrame, inputVars
    <3>2. QED
      BY <2>2, <3>1, TalkConnects
  <2>3. CASE HandlePacket(t) \/ CommandReturns(t)
    <3>1. Talk
      BY <1>0, <2>t, <2>3, HandlerFacts DEF HandlerFrame, inputVars
    <3>2. QED
      BY <2>3, <3>1, TalkHandlePacket, TalkCommandReturns
  <2>4. QED
    BY <1>2, <2>1, <2>2, <2>3 DEF Run
<1>3. CASE \/ OwbEvtDeviceAdd \/ OwbReconnectTimer
           \/ \E t \in ReconnectWorkers : OwbReconnectWorkCallback(t)
           \/ \E t \in AvdtpWorkers : OwbAvdtpWorkCallback(t)
  <2>1. Talk
    BY <1>0, <1>3 DEF OwbEvtDeviceAdd, OwbReconnectTimer, OwbReconnectWorkCallback,
       OwbAvdtpWorkCallback, inputVars
  <2>2. QED
    BY <1>3, <2>1, TalkStart
<1>4. CASE AvdtpSetPreferredCodec \/ SuspendReturns \/ L2capSendMediaFrame \/ SendMediaReturns
  <2>1. Talk
    BY <1>0, <1>4 DEF AvdtpSetPreferredCodec, SuspendReturns, L2capSendMediaFrame,
       SendMediaReturns, HandlerFrame, inputVars
  <2>2. QED
    BY <1>4, <2>1, TalkIoctl
<1>5. ASSUME NEW h \in Handles, IndicationRecvPacket(h) PROVE Talk'
  <2>1. Talk
    BY <1>0, <1>5 DEF IndicationRecvPacket, inputVars
  <2>2. QED
    BY <1>5, <2>1, TalkRecv
<1>6. CASE IndicationRemoteDisconnect
  <2>1. disconnects' = disconnects + 1
    BY <1>6 DEF IndicationRemoteDisconnect
  <2>2. QED
    BY <1>d, <2>1
<1>7. CASE MediaClosed \/ UNCHANGED vars
  <2>1. UNCHANGED <<pc, brb, tx, rx, AvdtpWorkBuf, sinkCodec, sinkState, State, ActiveCodecId,
                    PendingCodecId, SignalingChannelHandle, avdtpQueued, disconnects>>
    BY <1>7 DEF MediaClosed, vars, avdtpVars, chanVars, recvVars, bthVars, inputVars
  <2>2. QED
    BY <1>0, <2>1, TalkRests
<1>8. QED
  BY <1>1, <1>2, <1>3, <1>4, <1>5, <1>6, <1>7 DEF Next

\* The conversation with the sink stays in order: until the link is lost, its
\* next step is in one place only, and what the sink has accepted is what the
\* driver takes it to have accepted.
THEOREM TalkInvariance ==
  ASSUME OneReconnectWorker, OneAvdtpWorker
  PROVE  Spec => [](IndInv /\ OpenInv /\ TalkInv)
<1>1. Init => IndInv /\ OpenInv /\ TalkInv
  BY InitIndInv, InitOpenInv, InitTalkInv
<1>2. IndInv /\ OpenInv /\ TalkInv /\ [Next]_vars => (IndInv /\ OpenInv /\ TalkInv)'
  BY NextIndInv, NextOpenInv, NextTalkInv
<1>3. QED
  BY <1>1, <1>2, PTL DEF Spec

\* A frame is delivered to a sink that has started with the active codec.
LEMMA DeliveredToStarted ==
  ASSUME TalkInv, NEW t \in Threads, Delivering(t), disconnects = 0
  PROVE  Started
<1>1. Talk /\ pc[t] = "SEND_MEDIA"
  BY DEF TalkInv, Delivering
<1>2. t = "ioctl"
  BY <1>1 DEF Talk, PlaceInv, Place
<1>3. Live /\ ~Returned("ioctl", "SUSPEND", "ok")
  BY <1>1, <1>2 DEF Live, Returned
<1>4. QED
  BY <1>1, <1>3 DEF Talk, LiveInv

\* avdtp.c, L2capSendMediaFrame: with each work item run by one thread at a
\* time, every frame delivered on a link that was not lost is in the codec
\* the sink accepted last, through any number of switches, rejects, failed
\* BRBs and late responses.
THEOREM CodecNegotiated ==
  ASSUME OneReconnectWorker, OneAvdtpWorker
  PROVE  Spec => []NegotiatedCodec
<1>1. IndInv /\ OpenInv /\ TalkInv => NegotiatedCodec
  BY DeliveredToStarted DEF NegotiatedCodec, Started
<1>2. QED
  BY <1>1, TalkInvariance, PTL

\* L2capSendMediaFrame: with each work item run by one thread at a time, no
\* frame is delivered to a sink that has not accepted START or has accepted
\* SUSPEND since, on a link that was not lost.
THEOREM MediaStarted ==
  ASSUME OneReconnectWorker, OneAvdtpWorker
  PROVE  Spec => []MediaOnlyWhenStarted
<1>1. IndInv /\ OpenInv /\ TalkInv => MediaOnlyWhenStarted
  BY DeliveredToStarted DEF MediaOnlyWhenStarted, Started
<1>2. QED
  BY <1>1, TalkInvariance, PTL
=============================================================================

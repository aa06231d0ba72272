------------------------ MODULE StreamPipelineProofs ------------------------
(***************************************************************************)
(* The encoder swap and the handle of the pipeline, for every set of       *)
(* codecs, every buffer size and every number of switches.                 *)
(***************************************************************************)
EXTENDS StreamPipeline, TLAPS

\* When the two threads may be doing anything at all.
PhaseInv ==
  /\ run = "none" <=> main \in {"built", "captured", "opened"}
  /\ main \in {"close", "uncapture", "done"} => run = "ended"
  /\ ipc # "idle" => main \in {"serving", "retire"}

\* Who can count on the handle.
HandleInv ==
  /\ run \in {"read", "lock", "encode", "send"} => device # "closed"
  /\ ipc = "ioctl" => device # "closed"
  /\ main \in {"uncapture", "done"} => device = "closed"

LifeInv == PhaseInv /\ HandleInv

\* codec_mtx is held by whoever is in its critical section.
MutexInv ==
  /\ run \in {"encode", "send"} <=> codec_mtx = "run"
  /\ ipc \in {"create", "publish"} <=> codec_mtx = "ipc"

\* Outside rebuild_codec, codec_id names the codec that is installed.
CodecInv ==
  /\ ~codec.mono
  /\ ipc = "publish" => codec.id = want
  /\ ipc # "publish" => codec.id = codec_id

\* The locals of drain() describe the installed codec as long as it runs,
\* and the frame it sends is what that codec made of the next chunk.
DrainInv ==
  /\ run \in {"encode", "send"} => id = codec_id /\ fs = codec.size
  /\ run = "send" => frame = Encoded /\ Chunk > 0

EncoderInv == MutexInv /\ CodecInv /\ DrainInv

IndInv == TypeOK /\ LifeInv /\ EncoderInv

-----------------------------------------------------------------------------
\* What rounding down to whole blocks does.
LEMMA RoundDown ==
  ASSUME NEW b \in Nat, NEW k \in Nat \ {0}
  PROVE  /\ b - (b % k) \in Nat /\ b - (b % k) <= b
         /\ (b - (b % k)) % k = 0
<1>1. b % k \in Nat /\ b % k <= b /\ b \div k \in Nat
  OBVIOUS
<1>2. b - (b % k) = k * (b \div k)
  OBVIOUS
<1>3. \A q \in Nat : (k * q) % k = 0
  OBVIOUS
<1> QED
  BY <1>1, <1>2, <1>3

\* A chunk is samples that are there: one frame, or whole blocks up to
\* kBlobFeedMax.
LEMMA ChunkType ==
  ASSUME TypeOK
  PROVE  /\ Chunk \in Nat /\ Chunk <= accum
         /\ fs > 0 /\ Chunk > 0 => Chunk = fs
         /\ fs = 0 => Chunk % kBlock = 0 /\ Chunk <= kBlobFeedMax
<1> DEFINE blob == IF accum < kBlobFeedMax THEN accum ELSE kBlobFeedMax
<1>1. /\ accum \in Nat /\ fs \in Nat
      /\ kBlobFeedMax \in Nat /\ kBlock \in Nat \ {0}
  BY ConstantAssumption DEF TypeOK, RunType
<1>2. CASE fs > 0
  BY <1>1, <1>2 DEF Chunk
<1>3. CASE fs = 0
  <2>1. blob \in Nat /\ blob <= accum /\ blob <= kBlobFeedMax
    BY <1>1
  <2>2. /\ blob - (blob % kBlock) \in Nat /\ blob - (blob % kBlock) <= blob
        /\ (blob - (blob % kBlock)) % kBlock = 0
    BY <1>1, <2>1, RoundDown
  <2>3. Chunk = blob - (blob % kBlock)
    BY <1>3 DEF Chunk
  <2> QED
    BY <1>1, <1>3, <2>1, <2>2, <2>3
<1> QED
  BY <1>1, <1>2, <1>3

\* A new encoder has its type, the codec asked for, and is not mono.
LEMMA CreatedType ==
  ASSUME NEW c \in Codecs, NEW hz \in Rates, NEW e \in Created(c, hz)
  PROVE  /\ e \in Encoders
         /\ e.size \in Frames[e.id] /\ e.id = c /\ ~e.mono
<1>1. freq_to_sbc(c, hz) \in Rates
  BY ConstantAssumption DEF freq_to_sbc, Rates
<1>2. Frames[c] \subseteq Nat
  BY ConstantAssumption
<1> QED
  BY <1>1, <1>2 DEF Created, Encoders

\* A parameter the pipeline can feed keeps the type and the codec and does
\* not make it mono.
LEMMA ReconfiguredType ==
  ASSUME TypeOK, ~codec.mono,
         NEW p \in Params, pipeline_can_feed(p[1], p[2]),
         NEW e \in Reconfigured(p[1], p[2])
  PROVE  /\ e \in Encoders
         /\ e.size \in Frames[e.id] /\ e.id = codec.id /\ ~e.mono
<1>0. /\ codec \in Encoders
      /\ codec.size \in Frames[codec.id] /\ codec.id \in Codecs
      /\ rate \in Rates /\ 44100 \in Rates
  BY ConstantAssumption DEF TypeOK, ServiceType, EncoderType, Encoders, Rates
<1>1. CASE p[1] = "freq"
  <2>1. p[2] = rate
    BY <1>1 DEF pipeline_can_feed
  <2>2. freq_to_sbc(codec.id, p[2]) \in Rates
    BY <1>0, <2>1 DEF freq_to_sbc
  <2>3. e = [codec EXCEPT !.freq = freq_to_sbc(codec.id, p[2])]
    BY <1>1 DEF Reconfigured
  <2> QED
    BY <1>0, <2>2, <2>3 DEF Encoders
<1>2. CASE p[1] = "mode"
  <2>1. p[2] # "mono"
    BY <1>2 DEF pipeline_can_feed
  <2>2. e = [codec EXCEPT !.mono = (p[2] = "mono")] \/ e = codec
    BY <1>2 DEF Reconfigured
  <2>3. e = [codec EXCEPT !.mono = FALSE] \/ e = codec
    <3>1. (p[2] = "mono") = FALSE
      BY <2>1
    <3> QED
      BY <2>2, <3>1, Zenon
  <2>4. CASE e = codec
    BY <1>0, <2>4
  <2>5. CASE e = [codec EXCEPT !.mono = FALSE]
    <3>0. codec = [id |-> codec.id, freq |-> codec.freq,
                   mono |-> codec.mono, size |-> codec.size]
      BY <1>0 DEF Encoders
    <3>1. e \in Encoders
      <4>1. e = [id |-> codec.id, freq |-> codec.freq,
                 mono |-> FALSE, size |-> codec.size]
        BY <2>5, <3>0
      <4> QED
        BY <1>0, <4>1 DEF Encoders
    <3>2. e.id = codec.id /\ e.size = codec.size
      BY <1>0, <2>5 DEF Encoders
    <3>3. ~e.mono
      BY <1>0, <2>5 DEF Encoders
    <3> QED
      BY <1>0, <3>1, <3>2, <3>3
  <2> QED
    BY <2>3, <2>4, <2>5
<1>3. CASE p[1] = "layout"
  <2>1. PICK f \in Frames[codec.id] : e = [codec EXCEPT !.size = f]
    BY <1>3 DEF Reconfigured
  <2>2. f \in Nat
    BY <1>0, ConstantAssumption
  <2> QED
    BY <1>0, <2>1, <2>2 DEF Encoders
<1> QED
  BY <1>1, <1>2, <1>3 DEF Params

-----------------------------------------------------------------------------
\* Before the service has started anything.
LEMMA InitIndInv == Init => IndInv
<1> SUFFICES ASSUME Init PROVE IndInv
  OBVIOUS
<1>0. /\ SBC \in Codecs /\ 44100 \in Rates /\ Frames[SBC] \subseteq Nat
      /\ kAccumHardCap \in Nat /\ MaxSwitches \in Nat
  BY ConstantAssumption DEF Rates
<1>1. /\ codec \in Encoders
      /\ codec.size \in Frames[codec.id] /\ codec.id = SBC /\ ~codec.mono
  BY <1>0, CreatedType DEF Init, DefaultRate
<1>2. TypeOK
  <2>1. ServiceType
    <3>1. capturing \in BOOLEAN /\ driver \in BOOLEAN /\ running \in BOOLEAN
      BY Zenon DEF Init
    <3> QED
      BY <1>0, <3>1 DEF Init, ServiceType, DefaultRate
  <2>2. EncoderType
    BY <1>0, <1>1 DEF Init, EncoderType
  <2>3. RunType
    <3>1. streaming \in BOOLEAN
      BY Zenon DEF Init
    <3> QED
      BY <1>0, <3>1 DEF Init, RunType
  <2>4. IpcType
    BY <1>0 DEF Init, IpcType
  <2> QED
    BY <2>1, <2>2, <2>3, <2>4 DEF TypeOK
<1>3. LifeInv
  BY DEF Init, LifeInv, PhaseInv, HandleInv
<1>4. EncoderInv
  BY <1>1 DEF Init, EncoderInv, MutexInv, CodecInv, DrainInv
<1> QED
  BY <1>2, <1>3, <1>4 DEF IndInv

\* A step keeps the handle alive for its users.
LEMMA LifePreserves ==
  ASSUME LifeInv, Next PROVE LifeInv'
<1>1. CASE run_While
  BY <1>1 DEF run_While, RunFrame, serviceVars, encoderVars, ipcVars,
     LifeInv, PhaseInv, HandleInv
<1>2. CASE run_Open
  BY <1>2 DEF run_Open, RunFrame, serviceVars, encoderVars, ipcVars,
     LifeInv, PhaseInv, HandleInv
<1>3. CASE run_Read
  BY <1>3 DEF run_Read, RunFrame, serviceVars, encoderVars, ipcVars,
     LifeInv, PhaseInv, HandleInv
<1>4. CASE drain_Lock
  BY <1>4 DEF drain_Lock, RunFrame, serviceVars, encoderVars, ipcVars,
     LifeInv, PhaseInv, HandleInv
<1>5. CASE drain_Return
  BY <1>5 DEF drain_Return, Unlock, RunFrame, serviceVars, encoderVars,
     ipcVars, LifeInv, PhaseInv, HandleInv
<1>6. CASE drain_EncodeFails
  BY <1>6 DEF drain_EncodeFails, NextChunk, Unlock, RunFrame,
     serviceVars, encoderVars, ipcVars, LifeInv, PhaseInv, HandleInv
<1>7. CASE drain_Encode
  BY <1>7 DEF drain_Encode, Encoded, RunFrame, serviceVars, encoderVars,
     ipcVars, LifeInv, PhaseInv, HandleInv
<1>8. CASE drain_Send
  BY <1>8 DEF drain_Send, NextChunk, Unlock, RunFrame, serviceVars,
     encoderVars, ipcVars, LifeInv, PhaseInv, HandleInv
<1>9. CASE rebuild_codec_Lock
  BY <1>9 DEF rebuild_codec_Lock, IpcFrame, serviceVars, encoderVars,
     runVars, ipcVars, LifeInv, PhaseInv, HandleInv
<1>10. CASE rebuild_codec_Create
  BY <1>10 DEF rebuild_codec_Create, Created, IpcFrame, serviceVars,
     encoderVars, runVars, ipcVars, LifeInv, PhaseInv, HandleInv
<1>11. CASE rebuild_codec_Publish
  BY <1>11 DEF rebuild_codec_Publish, IpcFrame, serviceVars, encoderVars,
     runVars, ipcVars, LifeInv, PhaseInv, HandleInv
<1>12. CASE set_codec_config
  BY <1>12 DEF set_codec_config, IpcFrame, serviceVars, encoderVars,
     runVars, ipcVars, LifeInv, PhaseInv, HandleInv
<1>13. CASE switch_codec
  BY <1>13 DEF switch_codec, IpcFrame, serviceVars, encoderVars, runVars,
     ipcVars, LifeInv, PhaseInv, HandleInv
<1>14. CASE set_codec_param
  BY <1>14 DEF set_codec_param, IpcFrame, serviceVars, encoderVars,
     runVars, ipcVars, LifeInv, PhaseInv, HandleInv
<1>15. CASE capture_start
  BY <1>15 DEF capture_start, MainFrame, encoderVars, ipcVars, LifeInv,
     PhaseInv, HandleInv
<1>16. CASE a2dp_open
  BY <1>16 DEF a2dp_open, MainFrame, encoderVars, ipcVars, LifeInv,
     PhaseInv, HandleInv
<1>17. CASE start
  BY <1>17 DEF start, MainFrame, encoderVars, ipcVars, LifeInv, PhaseInv,
     HandleInv
<1>18. CASE ipc_start
  BY <1>18 DEF ipc_start, MainFrame, encoderVars, ipcVars, LifeInv,
     PhaseInv, HandleInv
<1>19. CASE ipc_stop
  BY <1>19 DEF ipc_stop, MainFrame, encoderVars, ipcVars, LifeInv,
     PhaseInv, HandleInv
<1>20. CASE ipc_join
  BY <1>20 DEF ipc_join, MainFrame, encoderVars, ipcVars, LifeInv,
     PhaseInv, HandleInv
<1>21. CASE stop
  BY <1>21 DEF stop, MainFrame, encoderVars, ipcVars, LifeInv, PhaseInv,
     HandleInv
<1>22. CASE stop_Join
  BY <1>22 DEF stop_Join, MainFrame, encoderVars, ipcVars, LifeInv,
     PhaseInv, HandleInv
<1>23. CASE a2dp_close
  BY <1>23 DEF a2dp_close, MainFrame, encoderVars, ipcVars, LifeInv,
     PhaseInv, HandleInv
<1>24. CASE capture_stop
  BY <1>24 DEF capture_stop, MainFrame, encoderVars, ipcVars, LifeInv,
     PhaseInv, HandleInv
<1>25. CASE PnP
  BY <1>25 DEF PnP, serviceVars, encoderVars, runVars, ipcVars, LifeInv,
     PhaseInv, HandleInv
<1> QED
  BY <1>1, <1>2, <1>3, <1>4, <1>5, <1>6, <1>7, <1>8, <1>9, <1>10, <1>11,
     <1>12, <1>13, <1>14, <1>15, <1>16, <1>17, <1>18, <1>19, <1>20, <1>21,
     <1>22, <1>23, <1>24, <1>25 DEF Next, Run, Switching, TearDown

\* A step keeps the encoder, its id and what drain() knows of it consistent.
LEMMA EncoderPreserves ==
  ASSUME TypeOK, LifeInv, EncoderInv, Next PROVE EncoderInv'
<1>1. CASE run_While
  BY <1>1 DEF run_While, RunFrame, serviceVars, encoderVars, ipcVars,
     EncoderInv, MutexInv, CodecInv, DrainInv, Encoded, Chunk
<1>2. CASE run_Open
  BY <1>2 DEF run_Open, RunFrame, serviceVars, encoderVars, ipcVars,
     EncoderInv, MutexInv, CodecInv, DrainInv, Encoded, Chunk
<1>3. CASE run_Read
  BY <1>3 DEF run_Read, RunFrame, serviceVars, encoderVars, ipcVars,
     EncoderInv, MutexInv, CodecInv, DrainInv, Encoded, Chunk
<1>4. CASE drain_Lock
  BY <1>4 DEF drain_Lock, RunFrame, serviceVars, encoderVars, ipcVars,
     EncoderInv, MutexInv, CodecInv, DrainInv, Encoded, Chunk
<1>5. CASE drain_Return
  BY <1>5 DEF drain_Return, Unlock, RunFrame, serviceVars, encoderVars,
     ipcVars, EncoderInv, MutexInv, CodecInv, DrainInv, Encoded, Chunk
<1>6. CASE drain_EncodeFails
  BY <1>6 DEF drain_EncodeFails, NextChunk, Unlock, RunFrame,
     serviceVars, encoderVars, ipcVars, EncoderInv, MutexInv, CodecInv,
     DrainInv, Encoded, Chunk
<1>7. CASE drain_Encode
  BY <1>7 DEF drain_Encode, Encoded, RunFrame, serviceVars, encoderVars,
     ipcVars, EncoderInv, MutexInv, CodecInv, DrainInv, Encoded, Chunk
<1>8. CASE drain_Send
  BY <1>8 DEF drain_Send, NextChunk, Unlock, RunFrame, serviceVars,
     encoderVars, ipcVars, EncoderInv, MutexInv, CodecInv, DrainInv,
     Encoded, Chunk
<1>9. CASE rebuild_codec_Lock
  BY <1>9 DEF rebuild_codec_Lock, IpcFrame, serviceVars, encoderVars,
     runVars, ipcVars, EncoderInv, MutexInv, CodecInv, DrainInv, Encoded,
     Chunk
<1>10. CASE rebuild_codec_Create
  <2>1. codec'.id = want /\ ~codec'.mono
    BY <1>10, CreatedType DEF rebuild_codec_Create, TypeOK, ServiceType, IpcType
  <2> QED
    BY <1>10, <2>1 DEF rebuild_codec_Create, IpcFrame, runVars,
       EncoderInv, MutexInv, CodecInv, DrainInv
<1>11. CASE rebuild_codec_Publish
  BY <1>11 DEF rebuild_codec_Publish, IpcFrame, serviceVars, encoderVars,
     runVars, ipcVars, EncoderInv, MutexInv, CodecInv, DrainInv, Encoded,
     Chunk
<1>12. CASE set_codec_config
  BY <1>12 DEF set_codec_config, IpcFrame, serviceVars, encoderVars,
     runVars, ipcVars, EncoderInv, MutexInv, CodecInv, DrainInv, Encoded,
     Chunk
<1>13. CASE switch_codec
  BY <1>13 DEF switch_codec, IpcFrame, serviceVars, encoderVars, runVars,
     ipcVars, EncoderInv, MutexInv, CodecInv, DrainInv, Encoded, Chunk
<1>14. CASE set_codec_param
  <2>1. PICK p \in Params :
          pipeline_can_feed(p[1], p[2]) /\ codec' \in Reconfigured(p[1], p[2])
    BY <1>14 DEF set_codec_param
  <2>2. codec'.id = codec.id /\ ~codec'.mono
    BY <2>1, ReconfiguredType DEF EncoderInv, CodecInv
  <2> QED
    BY <1>14, <2>2 DEF set_codec_param, IpcFrame, runVars, ipcVars,
       EncoderInv, MutexInv, CodecInv, DrainInv
<1>15. CASE capture_start
  BY <1>15 DEF capture_start, MainFrame, encoderVars, ipcVars,
     EncoderInv, MutexInv, CodecInv, DrainInv, Encoded, Chunk
<1>16. CASE a2dp_open
  BY <1>16 DEF a2dp_open, MainFrame, encoderVars, ipcVars, EncoderInv,
     MutexInv, CodecInv, DrainInv, Encoded, Chunk
<1>17. CASE start
  BY <1>17 DEF start, LifeInv, PhaseInv, MainFrame, encoderVars, ipcVars,
     EncoderInv, MutexInv, CodecInv, DrainInv, Encoded, Chunk
<1>18. CASE ipc_start
  BY <1>18 DEF ipc_start, MainFrame, encoderVars, ipcVars, EncoderInv,
     MutexInv, CodecInv, DrainInv, Encoded, Chunk
<1>19. CASE ipc_stop
  BY <1>19 DEF ipc_stop, MainFrame, encoderVars, ipcVars, EncoderInv,
     MutexInv, CodecInv, DrainInv, Encoded, Chunk
<1>20. CASE ipc_join
  BY <1>20 DEF ipc_join, MainFrame, encoderVars, ipcVars, EncoderInv,
     MutexInv, CodecInv, DrainInv, Encoded, Chunk
<1>21. CASE stop
  BY <1>21 DEF stop, MainFrame, encoderVars, ipcVars, EncoderInv,
     MutexInv, CodecInv, DrainInv, Encoded, Chunk
<1>22. CASE stop_Join
  BY <1>22 DEF stop_Join, MainFrame, encoderVars, ipcVars, EncoderInv,
     MutexInv, CodecInv, DrainInv, Encoded, Chunk
<1>23. CASE a2dp_close
  BY <1>23 DEF a2dp_close, MainFrame, encoderVars, ipcVars, EncoderInv,
     MutexInv, CodecInv, DrainInv, Encoded, Chunk
<1>24. CASE capture_stop
  BY <1>24 DEF capture_stop, MainFrame, encoderVars, ipcVars, EncoderInv,
     MutexInv, CodecInv, DrainInv, Encoded, Chunk
<1>25. CASE PnP
  BY <1>25 DEF PnP, serviceVars, encoderVars, runVars, ipcVars,
     EncoderInv, MutexInv, CodecInv, DrainInv, Encoded, Chunk
<1> QED
  BY <1>1, <1>2, <1>3, <1>4, <1>5, <1>6, <1>7, <1>8, <1>9, <1>10, <1>11,
     <1>12, <1>13, <1>14, <1>15, <1>16, <1>17, <1>18, <1>19, <1>20, <1>21,
     <1>22, <1>23, <1>24, <1>25 DEF Next, Run, Switching, TearDown

\* A step keeps the types, the bound on the accumulator among them.
LEMMA TypePreserves ==
  ASSUME TypeOK, LifeInv, EncoderInv, Next PROVE TypeOK'
<1>0. ServiceType /\ EncoderType /\ RunType /\ IpcType
  BY DEF TypeOK
<1>1. CASE run_While
  <2>1. RunType'
    BY <1>0, <1>1 DEF run_While, RunFrame, serviceVars, encoderVars,
       ipcVars, RunType
  <2>2. ServiceType' /\ EncoderType' /\ IpcType'
    BY <1>0, <1>1 DEF run_While, RunFrame, serviceVars, encoderVars,
       ipcVars, ServiceType, EncoderType, IpcType
  <2> QED
    BY <2>1, <2>2 DEF TypeOK
<1>2. CASE run_Open
  <2>1. ServiceType'
    BY <1>0, <1>2 DEF run_Open, RunFrame, serviceVars, encoderVars,
       ipcVars, ServiceType
  <2>2. RunType'
    BY <1>0, <1>2 DEF run_Open, RunFrame, serviceVars, encoderVars,
       ipcVars, RunType
  <2>3. EncoderType' /\ IpcType'
    BY <1>0, <1>2 DEF run_Open, RunFrame, serviceVars, encoderVars,
       ipcVars, EncoderType, IpcType
  <2> QED
    BY <2>1, <2>2, <2>3 DEF TypeOK
<1>3. CASE run_Read
  <2>1. accum' \in 0..kAccumHardCap
    BY <1>0, <1>3, ConstantAssumption DEF run_Read, read, to_stereo, RunType
  <2>2. RunType'
    BY <1>0, <1>3, <2>1 DEF run_Read, RunFrame, serviceVars, encoderVars,
       ipcVars, RunType
  <2>3. ServiceType' /\ EncoderType' /\ IpcType'
    BY <1>0, <1>3 DEF run_Read, RunFrame, serviceVars, encoderVars,
       ipcVars, ServiceType, EncoderType, IpcType
  <2> QED
    BY <2>2, <2>3 DEF TypeOK
<1>4. CASE drain_Lock
  <2>1. codec.size \in Nat
    BY <1>0 DEF EncoderType, Encoders
  <2>2. EncoderType'
    BY <1>0, <1>4, <2>1 DEF drain_Lock, RunFrame, serviceVars,
       encoderVars, ipcVars, EncoderType
  <2>3. RunType'
    BY <1>0, <1>4, <2>1 DEF drain_Lock, RunFrame, serviceVars,
       encoderVars, ipcVars, RunType, EncoderType
  <2>4. ServiceType' /\ IpcType'
    BY <1>0, <1>4 DEF drain_Lock, RunFrame, serviceVars, encoderVars,
       ipcVars, ServiceType, IpcType
  <2> QED
    BY <2>2, <2>3, <2>4 DEF TypeOK
<1>5. CASE drain_Return
  <2>1. EncoderType'
    BY <1>0, <1>5 DEF drain_Return, Unlock, RunFrame, serviceVars,
       encoderVars, ipcVars, EncoderType
  <2>2. RunType'
    BY <1>0, <1>5 DEF drain_Return, Unlock, RunFrame, serviceVars,
       encoderVars, ipcVars, RunType
  <2>3. ServiceType' /\ IpcType'
    BY <1>0, <1>5 DEF drain_Return, Unlock, RunFrame, serviceVars,
       encoderVars, ipcVars, ServiceType, IpcType
  <2> QED
    BY <2>1, <2>2, <2>3 DEF TypeOK
<1>6. CASE drain_EncodeFails
  <2>1. Chunk \in Nat /\ Chunk <= accum
    BY ChunkType
  <2>2. EncoderType'
    BY <1>0, <1>6, <2>1 DEF drain_EncodeFails, NextChunk, Unlock,
       RunFrame, serviceVars, encoderVars, ipcVars, EncoderType
  <2>3. RunType'
    BY <1>0, <1>6, <2>1, ConstantAssumption DEF drain_EncodeFails,
       NextChunk, Unlock, RunFrame, serviceVars, encoderVars, ipcVars,
       RunType
  <2>4. ServiceType' /\ IpcType'
    BY <1>0, <1>6 DEF drain_EncodeFails, NextChunk, Unlock, RunFrame,
       serviceVars, encoderVars, ipcVars, ServiceType, IpcType
  <2> QED
    BY <2>2, <2>3, <2>4 DEF TypeOK
<1>7. CASE drain_Encode
  <2>1. Chunk \in 1..kAccumHardCap
    BY <1>0, <1>7, ChunkType, ConstantAssumption DEF drain_Encode, RunType
  <2>2. frame' \in EncodedFrames
    BY <1>0, <1>7, <2>1 DEF drain_Encode, Encoded, EncodedFrames, RunType,
       EncoderType, Encoders
  <2>3. RunType'
    BY <1>0, <1>7, <2>1, <2>2 DEF drain_Encode, RunFrame, serviceVars,
       encoderVars, ipcVars, RunType
  <2>4. ServiceType' /\ EncoderType' /\ IpcType'
    BY <1>0, <1>7 DEF drain_Encode, RunFrame, serviceVars, encoderVars,
       ipcVars, ServiceType, EncoderType, IpcType
  <2> QED
    BY <2>3, <2>4 DEF TypeOK
<1>8. CASE drain_Send
  <2>1. frame.fed \in Nat /\ frame.fed <= accum
    BY <1>8, ChunkType DEF drain_Send, EncoderInv, DrainInv, Encoded
  <2>2. EncoderType'
    BY <1>0, <1>8, <2>1 DEF drain_Send, NextChunk, Unlock, RunFrame,
       serviceVars, encoderVars, ipcVars, EncoderType
  <2>3. RunType'
    BY <1>0, <1>8, <2>1, ConstantAssumption DEF drain_Send, NextChunk,
       Unlock, RunFrame, serviceVars, encoderVars, ipcVars, RunType
  <2>4. ServiceType' /\ IpcType'
    BY <1>0, <1>8 DEF drain_Send, NextChunk, Unlock, RunFrame,
       serviceVars, encoderVars, ipcVars, ServiceType, IpcType
  <2> QED
    BY <2>2, <2>3, <2>4 DEF TypeOK
<1>9. CASE rebuild_codec_Lock
  <2>1. EncoderType'
    BY <1>0, <1>9 DEF rebuild_codec_Lock, IpcFrame, serviceVars,
       encoderVars, runVars, ipcVars, EncoderType
  <2>2. IpcType'
    BY <1>0, <1>9 DEF rebuild_codec_Lock, IpcFrame, serviceVars,
       encoderVars, runVars, ipcVars, IpcType
  <2>3. ServiceType' /\ RunType'
    BY <1>0, <1>9 DEF rebuild_codec_Lock, IpcFrame, serviceVars,
       encoderVars, runVars, ipcVars, ServiceType, RunType
  <2> QED
    BY <2>1, <2>2, <2>3 DEF TypeOK
<1>10. CASE rebuild_codec_Create
  <2>1. codec' \in Encoders /\ codec'.size \in Frames[codec'.id]
    BY <1>10, CreatedType DEF rebuild_codec_Create, TypeOK, ServiceType, IpcType
  <2>2. EncoderType'
    BY <1>0, <1>10, <2>1 DEF rebuild_codec_Create, IpcFrame, serviceVars,
       encoderVars, runVars, ipcVars, EncoderType
  <2>3. IpcType'
    BY <1>0, <1>10 DEF rebuild_codec_Create, IpcFrame, serviceVars,
       encoderVars, runVars, ipcVars, IpcType
  <2>4. ServiceType' /\ RunType'
    BY <1>0, <1>10 DEF rebuild_codec_Create, IpcFrame, serviceVars,
       encoderVars, runVars, ipcVars, ServiceType, RunType
  <2> QED
    BY <2>2, <2>3, <2>4 DEF TypeOK
<1>11. CASE rebuild_codec_Publish
  <2>1. EncoderType'
    BY <1>0, <1>11 DEF rebuild_codec_Publish, IpcFrame, serviceVars,
       encoderVars, runVars, ipcVars, EncoderType, IpcType
  <2>2. IpcType'
    BY <1>0, <1>11 DEF rebuild_codec_Publish, IpcFrame, serviceVars,
       encoderVars, runVars, ipcVars, IpcType
  <2>3. ServiceType' /\ RunType'
    BY <1>0, <1>11 DEF rebuild_codec_Publish, IpcFrame, serviceVars,
       encoderVars, runVars, ipcVars, ServiceType, RunType
  <2> QED
    BY <2>1, <2>2, <2>3 DEF TypeOK
<1>12. CASE set_codec_config
  <2>1. IpcType'
    BY <1>0, <1>12 DEF set_codec_config, IpcFrame, serviceVars,
       encoderVars, runVars, ipcVars, IpcType
  <2>2. ServiceType' /\ EncoderType' /\ RunType'
    BY <1>0, <1>12 DEF set_codec_config, IpcFrame, serviceVars,
       encoderVars, runVars, ipcVars, ServiceType, EncoderType, RunType
  <2> QED
    BY <2>1, <2>2 DEF TypeOK
<1>13. CASE switch_codec
  <2>1. IpcType'
    BY <1>0, <1>13, ConstantAssumption DEF switch_codec, IpcFrame,
       serviceVars, encoderVars, runVars, ipcVars, IpcType
  <2>2. ServiceType' /\ EncoderType' /\ RunType'
    BY <1>0, <1>13 DEF switch_codec, IpcFrame, serviceVars, encoderVars,
       runVars, ipcVars, ServiceType, EncoderType, RunType
  <2> QED
    BY <2>1, <2>2 DEF TypeOK
<1>14. CASE set_codec_param
  <2>0. PICK p \in Params :
          pipeline_can_feed(p[1], p[2]) /\ codec' \in Reconfigured(p[1], p[2])
    BY <1>14 DEF set_codec_param
  <2>1. codec' \in Encoders /\ codec'.size \in Frames[codec'.id]
    BY <2>0, ReconfiguredType DEF EncoderInv, CodecInv
  <2>2. EncoderType'
    BY <1>0, <1>14, <2>1 DEF set_codec_param, IpcFrame, serviceVars,
       encoderVars, runVars, ipcVars, EncoderType
  <2>3. ServiceType' /\ RunType' /\ IpcType'
    BY <1>0, <1>14 DEF set_codec_param, IpcFrame, serviceVars,
       encoderVars, runVars, ipcVars, ServiceType, RunType, IpcType
  <2> QED
    BY <2>2, <2>3 DEF TypeOK
<1>15. CASE capture_start
  <2>1. ServiceType'
    BY <1>0, <1>15 DEF capture_start, MainFrame, encoderVars, ipcVars,
       ServiceType, Rates
  <2>2. EncoderType' /\ RunType' /\ IpcType'
    BY <1>0, <1>15 DEF capture_start, MainFrame, encoderVars, ipcVars,
       EncoderType, RunType, IpcType
  <2> QED
    BY <2>1, <2>2 DEF TypeOK
<1>16. CASE a2dp_open
  <2>1. ServiceType'
    BY <1>0, <1>16 DEF a2dp_open, MainFrame, encoderVars, ipcVars,
       ServiceType
  <2>2. EncoderType' /\ RunType' /\ IpcType'
    BY <1>0, <1>16 DEF a2dp_open, MainFrame, encoderVars, ipcVars,
       EncoderType, RunType, IpcType
  <2> QED
    BY <2>1, <2>2 DEF TypeOK
<1>17. CASE start
  <2>1. ServiceType'
    BY <1>0, <1>17 DEF start, MainFrame, encoderVars, ipcVars,
       ServiceType
  <2>2. RunType'
    BY <1>0, <1>17 DEF start, MainFrame, encoderVars, ipcVars, RunType
  <2>3. EncoderType' /\ IpcType'
    BY <1>0, <1>17 DEF start, MainFrame, encoderVars, ipcVars,
       EncoderType, IpcType
  <2> QED
    BY <2>1, <2>2, <2>3 DEF TypeOK
<1>18. CASE ipc_start
  <2>1. ServiceType'
    BY <1>0, <1>18 DEF ipc_start, MainFrame, encoderVars, ipcVars,
       ServiceType
  <2>2. EncoderType' /\ RunType' /\ IpcType'
    BY <1>0, <1>18 DEF ipc_start, MainFrame, encoderVars, ipcVars,
       EncoderType, RunType, IpcType
  <2> QED
    BY <2>1, <2>2 DEF TypeOK
<1>19. CASE ipc_stop
  <2>1. ServiceType'
    BY <1>0, <1>19 DEF ipc_stop, MainFrame, encoderVars, ipcVars,
       ServiceType
  <2>2. EncoderType' /\ RunType' /\ IpcType'
    BY <1>0, <1>19 DEF ipc_stop, MainFrame, encoderVars, ipcVars,
       EncoderType, RunType, IpcType
  <2> QED
    BY <2>1, <2>2 DEF TypeOK
<1>20. CASE ipc_join
  <2>1. ServiceType'
    BY <1>0, <1>20 DEF ipc_join, MainFrame, encoderVars, ipcVars,
       ServiceType
  <2>2. EncoderType' /\ RunType' /\ IpcType'
    BY <1>0, <1>20 DEF ipc_join, MainFrame, encoderVars, ipcVars,
       EncoderType, RunType, IpcType
  <2> QED
    BY <2>1, <2>2 DEF TypeOK
<1>21. CASE stop
  <2>1. ServiceType'
    BY <1>0, <1>21 DEF stop, MainFrame, encoderVars, ipcVars, ServiceType
  <2>2. EncoderType' /\ RunType' /\ IpcType'
    BY <1>0, <1>21 DEF stop, MainFrame, encoderVars, ipcVars,
       EncoderType, RunType, IpcType
  <2> QED
    BY <2>1, <2>2 DEF TypeOK
<1>22. CASE stop_Join
  <2>1. ServiceType'
    BY <1>0, <1>22 DEF stop_Join, MainFrame, encoderVars, ipcVars,
       ServiceType
  <2>2. RunType'
    BY <1>0, <1>22 DEF stop_Join, MainFrame, encoderVars, ipcVars,
       RunType
  <2>3. EncoderType' /\ IpcType'
    BY <1>0, <1>22 DEF stop_Join, MainFrame, encoderVars, ipcVars,
       EncoderType, IpcType
  <2> QED
    BY <2>1, <2>2, <2>3 DEF TypeOK
<1>23. CASE a2dp_close
  <2>1. ServiceType'
    BY <1>0, <1>23 DEF a2dp_close, MainFrame, encoderVars, ipcVars,
       ServiceType
  <2>2. EncoderType' /\ RunType' /\ IpcType'
    BY <1>0, <1>23 DEF a2dp_close, MainFrame, encoderVars, ipcVars,
       EncoderType, RunType, IpcType
  <2> QED
    BY <2>1, <2>2 DEF TypeOK
<1>24. CASE capture_stop
  <2>1. ServiceType'
    BY <1>0, <1>24 DEF capture_stop, MainFrame, encoderVars, ipcVars,
       ServiceType
  <2>2. EncoderType' /\ RunType' /\ IpcType'
    BY <1>0, <1>24 DEF capture_stop, MainFrame, encoderVars, ipcVars,
       EncoderType, RunType, IpcType
  <2> QED
    BY <2>1, <2>2 DEF TypeOK
<1>25. CASE PnP
  <2>1. ServiceType'
    BY <1>0, <1>25 DEF PnP, serviceVars, encoderVars, runVars, ipcVars,
       ServiceType
  <2>2. EncoderType' /\ RunType' /\ IpcType'
    BY <1>0, <1>25 DEF PnP, serviceVars, encoderVars, runVars, ipcVars,
       EncoderType, RunType, IpcType
  <2> QED
    BY <2>1, <2>2 DEF TypeOK
<1> QED
  BY <1>1, <1>2, <1>3, <1>4, <1>5, <1>6, <1>7, <1>8, <1>9, <1>10, <1>11,
     <1>12, <1>13, <1>14, <1>15, <1>16, <1>17, <1>18, <1>19, <1>20, <1>21,
     <1>22, <1>23, <1>24, <1>25 DEF Next, Run, Switching, TearDown

-----------------------------------------------------------------------------
\* The three parts are inductive together.
THEOREM Invariance == Spec => []IndInv
<1>1. IndInv /\ [Next]_vars => IndInv'
  <2> SUFFICES ASSUME IndInv, [Next]_vars PROVE IndInv'
    OBVIOUS
  <2>1. CASE Next
    BY <2>1, LifePreserves, EncoderPreserves, TypePreserves DEF IndInv
  <2>2. CASE UNCHANGED vars
    BY <2>2 DEF IndInv, TypeOK, ServiceType, EncoderType, RunType, IpcType,
       LifeInv, PhaseInv, HandleInv, EncoderInv, MutexInv,
       CodecInv, DrainInv, Encoded, Chunk, vars, serviceVars, encoderVars,
       runVars, ipcVars
  <2> QED
    BY <2>1, <2>2
<1> QED
  BY InitIndInv, <1>1, PTL DEF Spec

\* run(), drain(): the types, and with them the accumulator's hard cap, hold
\* for buffers of every size.
THEOREM TypeCorrect == Spec => []TypeOK
BY Invariance, PTL DEF IndInv

\* drain(), rebuild_codec(), set_param(): every frame carries the id of the
\* encoder that made it, out of the samples that encoder takes.
THEOREM TaggedFrames == Spec => []FrameTagged
<1>1. IndInv => FrameTagged
  <2> SUFFICES ASSUME IndInv, run = "send" PROVE FrameTagged
    BY DEF FrameTagged
  <2>1. frame = Encoded /\ Chunk > 0 /\ fs = codec.size /\ fs \in Nat
    BY DEF IndInv, TypeOK, RunType, EncoderInv, DrainInv
  <2>2. ipc # "publish" /\ id = codec.id /\ ~codec.mono
    BY DEF IndInv, EncoderInv, MutexInv, CodecInv, DrainInv
  <2>3. /\ fs > 0 => Chunk = fs
        /\ fs = 0 => Chunk % kBlock = 0 /\ Chunk <= kBlobFeedMax
    BY <2>1, ChunkType DEF IndInv
  <2> QED
    BY <2>1, <2>2, <2>3 DEF FrameTagged, Encoded
<1> QED
  BY Invariance, <1>1, PTL

\* set_codec_id(): once the new id can be read no frame of the old codec is
\* handed to the driver.
THEOREM CleanSwitch == Spec => []SwitchIsACut
<1>1. IndInv => SwitchIsACut
  BY DEF IndInv, EncoderInv, DrainInv, SwitchIsACut, Encoded
<1> QED
  BY Invariance, <1>1, PTL

\* run_service(): the handle outlives every DeviceIoControl on it and stays
\* closed.
THEOREM HandleSafe == Spec => []HandleClosedLast
<1>1. IndInv => HandleClosedLast
  BY DEF IndInv, LifeInv, HandleInv, HandleClosedLast
<1> QED
  BY Invariance, <1>1, PTL
-----------------------------------------------------------------------------
(* The service as a FrameSource.                                           *)

\* What the driver sees of a step: nothing, if no request begins or ends and
\* codec_id stays.
LEMMA SourceStutters ==
  ASSUME codec_id' = codec_id,
         (run = "send") = (run' = "send"), run = "send" => frame' = frame,
         (ipc = "ioctl") = (ipc' = "ioctl"), ipc = "ioctl" => want' = want
  PROVE  UNCHANGED Source!vars
<1>1. (IF run' = "send" THEN frame'.id ELSE "none") = (IF run = "send" THEN frame.id ELSE "none")
  <2>1. CASE run = "send"
    BY <2>1
  <2>2. CASE run # "send"
    BY <2>2
  <2> QED
    BY <2>1, <2>2
<1>2. (IF ipc' = "ioctl" THEN want' ELSE "none") = (IF ipc = "ioctl" THEN want ELSE "none")
  <2>1. CASE ipc = "ioctl"
    BY <2>1
  <2>2. CASE ipc # "ioctl"
    BY <2>2
  <2> QED
    BY <2>1, <2>2
<1> QED
  BY <1>1, <1>2 DEF Source!vars

\* Every step of the service is one of the source, or none.
LEMMA SourceSteps ==
  ASSUME IndInv, [Next]_vars
  PROVE  [Source!Next]_(Source!vars)
<1>0. /\ want \in Codecs /\ "none" \notin Codecs
      /\ run = "send" => frame.id \in Codecs
  <2>1. run = "send" => frame = Encoded /\ id \in Codecs
    BY DEF IndInv, TypeOK, RunType, EncoderInv, DrainInv
  <2> QED
    BY <2>1, ConstantAssumption DEF IndInv, TypeOK, IpcType, Encoded
<1>1. CASE \/ run_While \/ run_Open \/ run_Read
           \/ drain_Lock \/ drain_Return \/ drain_EncodeFails
  <2>1. /\ run # "send" /\ run' # "send" /\ UNCHANGED <<codec_id, ipc, want>>
    BY <1>1 DEF run_While, run_Open, run_Read, drain_Lock, drain_Return, drain_EncodeFails,
       NextChunk, Unlock, RunFrame, encoderVars, ipcVars
  <2> QED
    BY <2>1, SourceStutters
<1>2. CASE drain_Encode
  <2>1. /\ run = "encode" /\ run' = "send" /\ frame' = Encoded
        /\ UNCHANGED <<codec_id, ipc, want>>
    BY <1>2 DEF drain_Encode, RunFrame, encoderVars, ipcVars
  <2>2. frame'.id = codec_id
    BY <2>1 DEF Encoded, IndInv, EncoderInv, DrainInv
  <2>3. Source!Hand
    BY <2>1, <2>2 DEF Source!Hand
  <2> QED
    BY <2>3 DEF Source!Next
<1>3. CASE drain_Send
  <2>1. run = "send" /\ run' # "send" /\ UNCHANGED <<codec_id, ipc, want>>
    BY <1>3 DEF drain_Send, NextChunk, Unlock, RunFrame, encoderVars, ipcVars
  <2>2. Source!Taken
    BY <1>0, <2>1 DEF Source!Taken
  <2> QED
    BY <2>2 DEF Source!Next
<1>4. CASE rebuild_codec_Publish
  <2>1. /\ ipc = "publish" /\ codec_id' = want /\ want' = want
        /\ ipc' \in {"idle", "ioctl"} /\ run' = run
    BY <1>4 DEF rebuild_codec_Publish, IpcFrame, runVars
  <2>2. run # "send" /\ run' # "send"
    BY <2>1 DEF IndInv, EncoderInv, MutexInv
  <2>3. Source!Switch
    BY <1>0, <2>1, <2>2 DEF Source!Switch
  <2> QED
    BY <2>3 DEF Source!Next
<1>5. CASE set_codec_config
  <2>1. /\ ipc = "ioctl" /\ ipc' = "idle" /\ UNCHANGED <<codec_id, run, frame>>
    BY <1>5 DEF set_codec_config, IpcFrame, encoderVars, runVars
  <2>2. Source!Told
    BY <1>0, <2>1 DEF Source!Told
  <2> QED
    BY <2>2 DEF Source!Next
<1>6. CASE rebuild_codec_Lock \/ rebuild_codec_Create \/ switch_codec \/ set_codec_param
  <2>1. /\ UNCHANGED <<codec_id, run, frame>>
        /\ ipc # "ioctl" /\ ipc' # "ioctl"
    BY <1>6 DEF rebuild_codec_Lock, rebuild_codec_Create, switch_codec, set_codec_param,
       IpcFrame, encoderVars, runVars, ipcVars
  <2> QED
    BY <2>1, SourceStutters
<1>7. CASE \/ capture_start \/ a2dp_open \/ start \/ ipc_start \/ ipc_stop \/ TearDown
           \/ PnP \/ UNCHANGED vars
  <2>1. /\ UNCHANGED <<codec_id, frame, ipc, want>>
        /\ run' = run \/ (main = "opened" /\ run' = "while")
    BY <1>7 DEF capture_start, a2dp_open, start, ipc_start, ipc_stop, TearDown, ipc_join, stop,
       stop_Join, a2dp_close, capture_stop, PnP, vars, MainFrame, encoderVars, runVars, ipcVars
  <2>2. run' # run => run = "none" /\ run' = "while"
    BY <2>1 DEF IndInv, LifeInv, PhaseInv
  <2> QED
    BY <2>1, <2>2, SourceStutters
<1> QED
  BY <1>1, <1>2, <1>3, <1>4, <1>5, <1>6, <1>7 DEF Next, Run, Switching

\* drain(), set_codec_id(), A2dpStream: what the driver sees of the service is
\* a FrameSource: frames one at a time, each of the current codec, switches
\* that never overlap a frame, and one notice at a time.
THEOREM Implements == Spec => Source!Spec
<1>1. Init => Source!Init
  BY DEF Init, Source!Init
<1> QED
  BY <1>1, SourceSteps, Invariance, PTL DEF Spec, Source!Spec
=============================================================================

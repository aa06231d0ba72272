---------------------------- MODULE MediaPackets ----------------------------
(***************************************************************************)
(* The way of one frame: StreamPipeline's encoder makes a packet of PCM    *)
(* (AAC access units wrapped in LATM), the driver puts an RTP header and   *)
(* the codec's payload header before it, and the headset takes it apart.   *)
(*                                                                         *)
(* The IOCTL queue is sequential, so one frame is sent at a time, but the  *)
(* disconnect indication runs on another processor and resets the RTP      *)
(* counters without a lock: each load and store of them is a step.         *)
(*                                                                         *)
(* A byte has ByteBits bits, so that the escape of LATM's length, all bits *)
(* set, is met by access units of a few bytes.  Codec frames other than    *)
(* AAC's are opaque.  Media Foundation, the codec libraries and the        *)
(* headset are external; AVDTP is in A2dpDriver.                           *)
(***************************************************************************)
EXTENDS Naturals, Sequences

CONSTANTS
  ByteBits,         \* bits of a byte
  SeqSize, TsSize,    \* 2^w of RtpSeqNum and RtpTimestamp
  AuSizes,          \* lengths of access units the AAC encoder emits
  OutBytes,         \* kOutBytes
  SbcSizes,         \* PCM frames of an SBC frame: blocks times subbands
  MftDepth,         \* PCM frames the AAC encoder holds back
  MaxFrames, MaxSessions, MaxChanges   \* bounds: frames, sessions, switches

\* A byte of one bit could not hold Asc.
ASSUME SizesAssumption ==
  /\ ByteBits \in Nat /\ ByteBits >= 2
  /\ SeqSize \in Nat \ {0} /\ TsSize \in Nat \ {0}
  /\ AuSizes \subseteq Nat /\ SbcSizes \subseteq Nat

VARIABLES
  codec,    \* the service's encoder
  enc,      \* its state: what SBC consumes, what AAC and LDAC hold back
  send,     \* the frame the driver works on, and where it is
  RtpSeqNum, RtpTimestamp,
  state, channel,   \* Avdtp.State, as far as it matters; MediaChannelHandle
  ind,      \* label of the disconnect indication
  sessions, frames, changes,   \* counts, for the bounds
  pos,      \* history: frames built so far and the PCM they stand for
  sink      \* the last two packets the headset got in its session

serviceVars == <<codec, enc, changes>>
rtpVars     == <<RtpSeqNum, RtpTimestamp>>
linkVars    == <<state, channel, ind, sessions>>
vars == <<serviceVars, send, rtpVars, linkVars, frames, pos, sink>>

Codecs == {"SBC", "LDAC", "APTX", "LC3", "AAC"}

\* No frame under way, no packet got yet, and nothing to compare with.
Idle     == [pc |-> "idle", codec |-> "none", pcm |-> 0, count |-> 0,
             au |-> << >>, body |-> << >>,
             born |-> 0, n |-> 0, at |-> 0, seq |-> 0, ts |-> 0]
NoClock  == [rtp |-> FALSE, born |-> 0, seq |-> 0, ts |-> 0, n |-> 0, at |-> 0]
NoPacket == [codec |-> "none", count |-> 0, au |-> << >>, body |-> << >>,
             header |-> 0, fits |-> TRUE, clock |-> NoClock]

-----------------------------------------------------------------------------
(***************************************************************************)
(* latm.cpp                                                                *)
(***************************************************************************)
\* 2^n, as a function the provers can unfold.
Pow2[n \in Nat] == IF n = 0 THEN 1 ELSE 2 * Pow2[n - 1]

Escape == Pow2[ByteBits] - 1    \* kPayloadLengthEscape

\* BitWriter::put: most significant bit first.
put(value, bits) == [i \in 1..bits |-> (value \div Pow2[bits - i]) % 2]

put_bytes(bytes) ==
  [k \in 1..Len(bytes) * ByteBits |->
     put(bytes[((k - 1) \div ByteBits) + 1], ByteBits)[((k - 1) % ByteBits) + 1]]

\* BitWriter::take: the last byte is filled with zeros.
take(bits) ==
  bits \o [i \in 1..((ByteBits - (Len(bits) % ByteBits)) % ByteBits) |-> 0]

\* audioMuxVersion, allStreamsSameTimeFraming, numSubFrames, numProgram,
\* numLayer; the AudioSpecificConfig; frameLengthType, latmBufferFullness,
\* otherDataPresent, crcCheckPresent.
write_stream_mux_config(asc) ==
  put(0, 1) \o put(1, 1) \o put(0, 6) \o put(0, 4) \o put(0, 3)
    \o put_bytes(asc)
    \o put(0, 3) \o put(255, 8) \o put(0, 1) \o put(0, 1)

\* Mutant: a length equal to the escape is written as one byte.
write_payload_length_info_Greater(length) ==
  LET escapes == IF length = 0 THEN 0 ELSE (length - 1) \div Escape
  IN  put_bytes([i \in 1..escapes |-> Escape] \o <<length - escapes * Escape>>)

\* An escape byte for each whole Escape of the length, then the rest.
write_payload_length_info(length) ==
  put_bytes([i \in 1..(length \div Escape) |-> Escape] \o <<length % Escape>>)

latm_pack(asc, au) ==
  take(put(0, 1) \o write_stream_mux_config(asc)
         \o write_payload_length_info(Len(au)) \o put_bytes(au))

\* The AudioSpecificConfig the AAC encoder reports, and an access unit of
\* the given length whose bytes tell its places apart.
Asc   == <<2, Escape>>
Au(n) == [i \in 1..n |-> (i + n) % (Escape + 1)]

-----------------------------------------------------------------------------
(***************************************************************************)
(* The headset reads an AudioMuxElement (ISO/IEC 14496-3).                 *)
(***************************************************************************)
\* The number that the n bits after the first at stand for.
Value(bits, at, n) ==
  LET v[k \in 0..n] == IF k = 0 THEN 0 ELSE 2 * v[k - 1] + bits[at + k]
  IN  v[n]

HeadBits == 16 + ByteBits * Len(Asc) + 13

\* The bits before the AudioSpecificConfig, the configuration the decoder was
\* set up for, and the fields after it.
MuxUnderstood(bits) ==
  /\ Len(bits) >= HeadBits
  /\ Value(bits, 0, 2) = 0 /\ Value(bits, 2, 1) = 1 /\ Value(bits, 3, 13) = 0
  /\ \A j \in 1..Len(Asc) : Value(bits, 16 + (j - 1) * ByteBits, ByteBits) = Asc[j]
  /\ Value(bits, HeadBits - 13, 3) = 0 /\ Value(bits, HeadBits - 2, 2) = 0

\* Bytes of the length up to the first that is not the escape, then the unit.
Decode(bits) ==
  LET Byte(i) == Value(bits, HeadBits + (i - 1) * ByteBits, ByteBits)
      whole   == (Len(bits) - HeadBits) \div ByteBits
      ends    == {i \in 1..whole : Byte(i) # Escape}
      last    == CHOOSE i \in ends : \A j \in ends : i <= j
      length  == (last - 1) * Escape + Byte(last)
  IN  IF ~MuxUnderstood(bits) \/ ends = {} \/ last + length > whole
      THEN << >>
      ELSE [i \in 1..length |-> Byte(last + i)]

-----------------------------------------------------------------------------
(***************************************************************************)
(* The service's encoder.  drain holds codec_mtx from the encoding to the  *)
(* end of send_frame, so the codec and its parameters change only between. *)
(***************************************************************************)
\* A fresh encoder.  Media Foundation may have no usable AAC encoder.
NewEncoders(c) ==
  [ready : IF c = "AAC" THEN BOOLEAN ELSE {TRUE}, size : {128}, held : {0}]

Init ==
  /\ codec = "SBC" /\ enc \in NewEncoders("SBC") /\ changes = 0
  /\ send = Idle /\ RtpSeqNum = 0 /\ RtpTimestamp = 0
  /\ state = "Idle" /\ channel = 0 /\ ind = "none"
  /\ sessions = 0 /\ frames = 0
  /\ pos = [n |-> 0, pcm |-> 0, fits |-> TRUE]
  /\ sink = [session |-> 0, prev |-> NoClock, last |-> NoPacket]

\* CodecFactory::create, then set_param("freq"), which starts AAC once more.
rebuild_codec(c) ==
  /\ send = Idle /\ changes < MaxChanges
  /\ codec' = c /\ enc' \in NewEncoders(c) /\ changes' = changes + 1
  /\ UNCHANGED <<send, rtpVars, linkVars, frames, pos, sink>>

\* The parameters that change what the encoder consumes or holds: SBC's
\* blocks and subbands, and the capture rate set again.  AAC then starts
\* anew; LDAC drops what it has buffered.
set_param ==
  /\ send = Idle /\ changes < MaxChanges
  /\ \/ codec = "SBC" /\ \E s \in SbcSizes : enc' = [enc EXCEPT !.size = s]
     \/ codec # "SBC" /\ enc' \in NewEncoders(codec)
  /\ changes' = changes + 1
  /\ UNCHANGED <<codec, send, rtpVars, linkVars, frames, pos, sink>>

\* What encode hands over: the PCM it stands for, how many codec frames it
\* holds, and the access unit and its LATM packet if it is AAC.
Frame(pcm, count, au) ==
  [Idle EXCEPT !.pc = "check", !.codec = codec, !.pcm = pcm, !.count = count,
               !.au = au, !.body = IF codec = "AAC" THEN latm_pack(Asc, au) ELSE << >>]

\* drain and send_frame: the frame goes to the driver, or encode gave none.
Handed(f) == send' = f /\ frames' = frames + 1
Nothing   == UNCHANGED <<send, frames>>

\* One SBC frame, since drain feeds exactly one; LC3 is 10 ms at 48 kHz;
\* aptX takes what there is.  Each may fail.
EncodeOne(pcm) ==
  /\ UNCHANGED enc
  /\ Nothing \/ Handed(Frame(pcm, 1, << >>))

\* ldacBT_encode takes 128 PCM frames and gives nothing until its packet is
\* full: then as many LDAC frames as it took calls.
EncodeLdac ==
  \/ enc.held < 1 /\ enc' = [enc EXCEPT !.held = @ + 1] /\ Nothing
  \/ /\ enc' = [enc EXCEPT !.held = 0]
     /\ Handed(Frame((enc.held + 1) * 128, enc.held + 1, << >>))

\* CodecAac::encode.  ProcessInput is refused while the encoder is full, and
\* then nothing is drained either; the unit is lost if it cannot be fetched
\* or its packet does not fit the scratch buffer.
EncodeAac ==
  \/ ~enc.ready /\ UNCHANGED enc /\ Nothing
  \/ enc.ready /\ UNCHANGED enc /\ Nothing                   \* submit fails
  \/ /\ enc.ready /\ enc.held < MftDepth
     /\ \/ enc' = [enc EXCEPT !.held = @ + 1] /\ Nothing     \* nothing drained
        \/ /\ UNCHANGED enc
           /\ \E n \in AuSizes :
                LET f == Frame(1024, 1, Au(n))
                IN  IF Len(f.body) > OutBytes * ByteBits THEN Nothing ELSE Handed(f)

Encode ==
  /\ send = Idle /\ frames < MaxFrames
  /\ CASE codec = "SBC"  -> EncodeOne(enc.size)
       [] codec = "LC3"  -> EncodeOne(480)
       [] codec = "APTX" -> EncodeOne(4)
       [] codec = "LDAC" -> EncodeLdac
       [] codec = "AAC"  -> EncodeAac
  /\ UNCHANGED <<codec, changes, rtpVars, linkVars, pos, sink>>

-----------------------------------------------------------------------------
(***************************************************************************)
(* l2cap_stream.c                                                          *)
(***************************************************************************)
\* Mutant: LC3 is taken for a codec of 128 PCM frames, as SBC is.
OwbMediaFraming_Lc3As128(c) ==
  CASE c = "APTX" -> [rtp |-> FALSE, header |-> FALSE, ts |-> 0]
    [] c = "AAC"  -> [rtp |-> TRUE,  header |-> FALSE, ts |-> 1024]
    [] c = "LC3"  -> [rtp |-> TRUE,  header |-> FALSE, ts |-> 128]
    [] OTHER      -> [rtp |-> TRUE,  header |-> TRUE,  ts |-> 128]

OwbMediaFraming(c) ==
  CASE c = "APTX" -> [rtp |-> FALSE, header |-> FALSE, ts |-> 0]
    [] c = "AAC"  -> [rtp |-> TRUE,  header |-> FALSE, ts |-> 1024]
    [] c = "LC3"  -> [rtp |-> TRUE,  header |-> FALSE, ts |-> 480]
    [] OTHER      -> [rtp |-> TRUE,  header |-> TRUE,  ts |-> 128]

SendFrame == UNCHANGED <<serviceVars, linkVars, frames>>

\* The framing policy is written for one frame of the codec's usual size.
Fits(f) == f.codec \in {"AAC", "LC3"} \/ (f.codec = "SBC" /\ f.pcm = 128)

\* The state, the length a BRB can carry and the memory for the packet; history:
\* what is built.
SendCheck ==
  /\ send.pc = "check"
  /\ \/ send' = Idle /\ UNCHANGED pos      \* not Streaming, too long, or no memory
     \/ /\ state = "Streaming"
        /\ IF OwbMediaFraming(send.codec).rtp
           THEN /\ send' = [send EXCEPT !.pc = "seq", !.born = sessions,
                                        !.n = pos.n, !.at = pos.pcm]
                /\ pos' = [n |-> (pos.n + 1) % SeqSize,
                           pcm |-> (pos.pcm + send.pcm) % TsSize,
                           fits |-> pos.fits /\ Fits(send)]
           ELSE send' = [send EXCEPT !.pc = "submit"] /\ UNCHANGED pos
  /\ UNCHANGED <<rtpVars, sink>> /\ SendFrame

\* hdr->seq_num = RtpSeqNum++
LoadSeq ==
  /\ send.pc = "seq"
  /\ send' = [send EXCEPT !.pc = "inc", !.seq = RtpSeqNum]
  /\ UNCHANGED <<rtpVars, pos, sink>> /\ SendFrame

StoreSeq ==
  /\ send.pc = "inc"
  /\ RtpSeqNum' = (send.seq + 1) % SeqSize
  /\ send' = [send EXCEPT !.pc = "ts"]
  /\ UNCHANGED <<RtpTimestamp, pos, sink>> /\ SendFrame

LoadTs ==
  /\ send.pc = "ts"
  /\ send' = [send EXCEPT !.pc = "add", !.ts = RtpTimestamp]
  /\ UNCHANGED <<rtpVars, pos, sink>> /\ SendFrame

\* RtpTimestamp += ts_incr, from the value in the header or one read again.
StoreTs ==
  /\ send.pc = "add"
  /\ \E t \in {send.ts, RtpTimestamp} :
       RtpTimestamp' = (t + OwbMediaFraming(send.codec).ts) % TsSize
  /\ send' = [send EXCEPT !.pc = "submit"]
  /\ UNCHANGED <<RtpSeqNum, pos, sink>> /\ SendFrame

\* What is on the air: the payload header always says one frame.
Packet ==
  LET framing == OwbMediaFraming(send.codec)
  IN  [codec |-> send.codec, count |-> send.count, au |-> send.au, body |-> send.body,
       header |-> IF framing.header THEN 1 ELSE 0, fits |-> pos.fits,
       clock |-> [rtp |-> framing.rtp, born |-> send.born, seq |-> send.seq,
                  ts |-> send.ts, n |-> send.n, at |-> send.at]]

\* The headset gets it on the channel that is open now, or the transfer
\* fails.
Submit ==
  /\ send.pc = "submit"
  /\ send' = Idle
  /\ \/ UNCHANGED sink                       \* no BRB, or it fails
     \/ /\ channel # 0
        /\ sink' = [session |-> channel, last |-> Packet,
                    prev |-> IF sink.session = channel THEN sink.last.clock ELSE NoClock]
  /\ UNCHANGED <<rtpVars, pos>> /\ SendFrame

\* L2capSignalingIndicationCallback, IndicationRemoteDisconnect.
IndHandles ==
  /\ ind = "none" /\ channel # 0
  /\ channel' = 0 /\ ind' = "seq"
  /\ UNCHANGED <<state, rtpVars>>

IndSeq == ind = "seq" /\ ind' = "ts" /\ RtpSeqNum' = 0
          /\ UNCHANGED <<state, channel, RtpTimestamp>>

IndTs == ind = "ts" /\ ind' = "state" /\ RtpTimestamp' = 0
         /\ UNCHANGED <<state, channel, RtpSeqNum>>

IndState == ind = "state" /\ ind' = "none" /\ state' = "Idle"
            /\ UNCHANGED <<channel, rtpVars>>

Disconnect ==
  /\ IndHandles \/ IndSeq \/ IndTs \/ IndState
  /\ UNCHANGED <<serviceVars, send, sessions, frames, pos, sink>>

\* A handshake has come to its end with a new media channel (A2dpDriver).
\* It takes several round trips over the air, so an indication that was
\* under way has ended.
Start ==
  /\ state = "Idle" /\ ind = "none" /\ sessions < MaxSessions
  /\ state' = "Streaming" /\ sessions' = sessions + 1 /\ channel' = sessions'
  /\ pos' = [pos EXCEPT !.fits = TRUE]
  /\ UNCHANGED <<serviceVars, send, rtpVars, ind, frames, sink>>

\* AvdtpSetPreferredCodec, in the same queue as the frames: the counters go on.
Suspend ==
  /\ state = "Streaming" /\ ind = "none" /\ send = Idle
  /\ state' = "Idle"
  /\ UNCHANGED <<serviceVars, send, rtpVars, channel, ind, sessions, frames,
                 pos, sink>>

Next ==
  \/ \E c \in Codecs : rebuild_codec(c)
  \/ set_param \/ Encode
  \/ SendCheck \/ LoadSeq \/ StoreSeq \/ LoadTs \/ StoreTs \/ Submit
  \/ Disconnect \/ Start \/ Suspend

Spec == Init /\ [][Next]_vars

-----------------------------------------------------------------------------
Counts == 0..(SeqSize - 1)
Times  == 0..(TsSize - 1)
Octets == 0..Escape

Encoders == [ready : BOOLEAN, size : Nat, held : Nat]
Sends    == [pc : {"idle", "check", "seq", "inc", "ts", "add", "submit"},
             codec : Codecs \cup {"none"}, pcm : Nat, count : Nat,
             au : Seq(Octets), body : Seq({0, 1}),
             born : Nat, n : Counts, at : Times, seq : Counts, ts : Times]
Clocks   == [rtp : BOOLEAN, born : Nat, seq : Counts, ts : Times, n : Counts, at : Times]
Packets  == [codec : Codecs \cup {"none"}, count : Nat, au : Seq(Octets), body : Seq({0, 1}),
             header : {0, 1}, fits : BOOLEAN, clock : Clocks]

\* The frame under way, the counters and what the headset got have their
\* types: the counters stay within their width, and what latm_pack makes is a
\* sequence of bits.
TypeOK ==
  /\ codec \in Codecs /\ enc \in Encoders /\ send \in Sends
  /\ RtpSeqNum \in Counts /\ RtpTimestamp \in Times
  /\ state \in {"Idle", "Streaming"} /\ ind \in {"none", "seq", "ts", "state"}
  /\ channel \in Nat /\ sessions \in Nat /\ frames \in Nat /\ changes \in Nat
  /\ pos \in [n : Counts, pcm : Times, fits : BOOLEAN]
  /\ sink \in [session : Nat, prev : Clocks, last : Packets]

\* What a headset configured for the packet's codec finds in it.
Understood(p) ==
  CASE p.codec = "AAC"  -> p.clock.rtp /\ p.header = 0 /\ Decode(p.body) = p.au
    [] p.codec = "SBC"  -> p.clock.rtp /\ p.header = p.count
    [] p.codec = "LDAC" -> p.clock.rtp /\ p.header # 0
    [] p.codec = "LC3"  -> p.clock.rtp /\ p.header = 0
    [] p.codec = "APTX" -> ~p.clock.rtp /\ p.header = 0

\* latm_pack, OwbMediaFraming: a headset configured for the codec of the
\* frame finds the headers its codec prescribes, and in an AAC packet exactly
\* the access unit the encoder emitted, whatever its length.  (LDAC's frame
\* count is only right for packets of one frame.)
PacketsDecode == sink.last.codec # "none" => Understood(sink.last)

\* How far a is ahead of b on a counter of this size.
Ahead(a, b, size) == (a + size - b) % size

\* L2capSendMediaFrame: between two packets made in the headset's session the
\* sequence number advances by the packets built, lost ones included, and the
\* timestamp by the PCM they stand for, wherever a disconnect indication has
\* cut into the updates before.  (Only for frames of the size the framing
\* policy assumes: LDAC packets and SBC frames of another size drift.)
TimestampsFollow ==
  LET p == sink.prev
      q == sink.last.clock
  IN  /\ p.rtp /\ p.born = sink.session
      /\ q.rtp /\ q.born = sink.session /\ sink.last.fits
      => /\ Ahead(q.seq, p.seq, SeqSize) = Ahead(q.n, p.n, SeqSize)
         /\ Ahead(q.ts, p.ts, TsSize) = Ahead(q.at, p.at, TsSize)
=============================================================================

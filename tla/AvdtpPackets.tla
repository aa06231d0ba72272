---------------------------- MODULE AvdtpPackets ----------------------------
(***************************************************************************)
(* The WDK-free packet code of the driver: the parser of the DISCOVER and  *)
(* GET_CAPABILITIES responses and the builder of SET_CONFIGURATION, at the *)
(* level of bytes.  A2dpDriver takes the outcome of this code (a SEID, a   *)
(* codec) as given; here it is computed, one loop iteration per step, from *)
(* a packet that may be cut anywhere (the work item reads at most          *)
(* sizeof(AvdtpWorkBuf) bytes and allows a short transfer).                *)
(*                                                                         *)
(* Every byte string is a prefix of a sequence of well-formed units, so    *)
(* the sink is modelled as sending such a sequence and a prefix of it      *)
(* arrives.  What the sink meant (`units') is kept beside the bytes, and   *)
(* the outcome is compared with it.                                        *)
(***************************************************************************)
EXTENDS Naturals, Sequences

CONSTANTS
  Seps,             \* stream end points the sink may list
  Capabilities,     \* service capabilities the sink may list
  MaxUnits          \* bound: units in one response

Byte == 0..255
SEID_NONE == 0
SEP_INFO_LEN == 2
CAPABILITY_HEADER_LEN == 2
MEDIA_TRANSPORT == 1
MEDIA_CODEC == 7
AUDIO == 0
SET_CONFIGURATION_MAX_LEN == 19
LocalSeid == 1
\* The header of an accepted answer: RESPONSE_ACCEPT, then the signal.
DiscoverHeader == <<2, 1>>
GetCapabilitiesHeader == <<2, 2>>

Codecs == {"sbc", "ldac", "aptx", "aptxhd", "aac", "lc3", "aptx_adaptive"}

\* kCodecConfigs: the bytes after the Media Type octet, and how many of them
\* identify the codec.  LC3 and aptX Adaptive have no entry.
kCodecConfigs ==
  [sbc    |-> [info |-> <<0, 33, 21, 2, 53>>, match_len |-> 1],
   aac    |-> [info |-> <<2, 128, 1, 4, 3, 232, 0>>, match_len |-> 1],
   aptx   |-> [info |-> <<255, 79, 0, 0, 0, 1, 0, 34>>, match_len |-> 7],
   aptxhd |-> [info |-> <<255, 215, 0, 0, 0, 36, 0, 34, 0, 0, 0, 0>>,
               match_len |-> 7],
   ldac   |-> [info |-> <<255, 45, 1, 0, 0, 170, 0, 32, 1>>, match_len |-> 7]]

Configs == DOMAIN kCodecConfigs

\* A stream end point is <<SEID, in use, is a sink, media type>>, a capability
\* <<category, the codec it offers or "none", content>>.
Seid(s) == s[1]
FreeAudioSink(s) == ~s[2] /\ s[3] /\ s[4] = AUDIO
Content(c) == c[3]

\* How the sink writes them (external): SEID and In Use in one octet, media
\* type and TSEP in the next; category, length, content.
EncodeSep(s) ==
  << s[1] * 4 + (IF s[2] THEN 2 ELSE 0), s[4] * 16 + (IF s[3] THEN 8 ELSE 0) >>
EncodeCapability(c) == <<c[1], Len(Content(c))>> \o Content(c)

ASSUME InputAssumption ==
  /\ MaxUnits \in Nat
  /\ Seps \subseteq (1..62) \X BOOLEAN \X BOOLEAN \X (0..15)
  /\ \A c \in Capabilities : /\ c \in Byte \X (Codecs \cup {"none"}) \X Seq(Byte)
                              /\ Len(Content(c)) \in Byte

ASSUME TableAssumption ==
  \A c \in Configs :
    /\ kCodecConfigs[c] \in [info : Seq(Byte), match_len : Nat]
    /\ kCodecConfigs[c].match_len <= Len(kCodecConfigs[c].info)

\* A capability offers a codec of the table exactly if it is an audio Media
\* Codec that begins with the octets that identify the codec.
ASSUME NamingAssumption ==
  \A c \in Capabilities, name \in Configs :
    c[2] = name <=>
      /\ c[1] = MEDIA_CODEC
      /\ Len(Content(c)) > kCodecConfigs[name].match_len
      /\ Content(c)[1] \div 16 = AUDIO
      /\ \A k \in 1..kCodecConfigs[name].match_len :
           Content(c)[1 + k] = kCodecConfigs[name].info[k]

-----------------------------------------------------------------------------
VARIABLES
  pc,               \* the loop or call the work item is in
  units,            \* what the sink meant by the packet
  data,             \* the bytes that arrived: Data, Length
  i,                \* the loop index, an offset into the payload
  reads,            \* offsets into data that the last step read
  seid,             \* the result of find_free_audio_sink_seid
  RemoteSeid,
  PreferredCodecId,
  codec,            \* the result of select_codec
  buf               \* the SET_CONFIGURATION payload

vars == <<pc, units, data, i, reads, seid, RemoteSeid, PreferredCodecId,
          codec, buf>>

Labels == {"discover", "find", "found", "caps", "contain", "build", "done"}

TypeOK ==
  /\ pc \in Labels
  /\ data \in Seq(Byte)
  /\ i \in 0..Len(data)
  /\ reads \subseteq Nat
  /\ seid \in 0..63
  /\ RemoteSeid \in 0..63
  /\ PreferredCodecId \in Codecs
  /\ codec \in Codecs
  /\ buf \in Seq(Byte) /\ Len(buf) <= SET_CONFIGURATION_MAX_LEN

\* The byte at offset o.  A read past the end could return anything; that no
\* step makes one is ReadsInBounds.
At(o) == IF o < Len(data) THEN data[o + 1] ELSE 0

\* payload, pay_len of AvdtpHandleSignalingPacket: the packet after its header.
Payload(o) == 2 + o
pay_len == IF Len(data) > 2 THEN Len(data) - 2 ELSE 0

-----------------------------------------------------------------------------
Init ==
  /\ pc = "discover"
  /\ units = <<>>
  /\ data = <<>>
  /\ i = 0
  /\ reads = {}
  /\ seid = SEID_NONE
  /\ RemoteSeid = SEID_NONE
  /\ PreferredCodecId \in Codecs
  /\ codec = "sbc"
  /\ buf = <<>>

Concat(ss) ==
  LET upto[k \in 0..Len(ss)] == IF k = 0 THEN <<>> ELSE upto[k - 1] \o ss[k]
  IN  upto[Len(ss)]

\* AvdtpHandleSignalingPacket with an answer, whole or cut, to DISCOVER or to
\* GET_CAPABILITIES (a packet shorter than its header is dropped).  The other
\* answers carry no payload the driver reads and are A2dpDriver's.
AvdtpHandleSignalingPacket(bytes) ==
  /\ \E n \in 2..Len(bytes) : data' = SubSeq(bytes, 1, n)
  /\ reads' = {0, 1}
  /\ UNCHANGED <<i, seid, RemoteSeid, PreferredCodecId, codec, buf>>

ReceiveDiscover ==
  /\ pc = "discover"
  /\ \E m \in 0..MaxUnits : \E sent \in [1..m -> Seps] :
       /\ units' = sent
       /\ AvdtpHandleSignalingPacket(
            DiscoverHeader \o Concat([k \in 1..m |-> EncodeSep(sent[k])]))
  /\ pc' = "find"

ReceiveCapabilities ==
  /\ pc = "caps"
  /\ \E m \in 0..MaxUnits : \E sent \in [1..m -> Capabilities] :
       /\ units' = sent
       /\ AvdtpHandleSignalingPacket(
            GetCapabilitiesHeader \o Concat([k \in 1..m |-> EncodeCapability(sent[k])]))
  /\ pc' = "contain"

is_free_audio_sink(o) ==
  /\ (At(o) \div 2) % 2 = 0
  /\ (At(o + 1) \div 8) % 2 = 1
  /\ At(o + 1) \div 16 = AUDIO

\* Mutant: the loop runs while one octet is left.
SepLeft_OneOctet == i < pay_len

\* The loop condition: a whole end point is left.
SepLeft == i + SEP_INFO_LEN <= pay_len

\* One iteration of owb_avdtp_find_free_audio_sink_seid.
find_free_audio_sink_seid ==
  /\ pc = "find"
  /\ IF SepLeft
     THEN LET o == Payload(i) IN
          /\ reads' = {o, o + 1}
          /\ IF is_free_audio_sink(o)
             THEN /\ seid' = (At(o) \div 4) % 64
                  /\ pc' = "found"
                  /\ UNCHANGED i
             ELSE i' = i + SEP_INFO_LEN /\ UNCHANGED <<seid, pc>>
     ELSE /\ seid' = SEID_NONE
          /\ reads' = {}
          /\ pc' = "found"
          /\ UNCHANGED i
  /\ UNCHANGED <<units, data, RemoteSeid, PreferredCodecId, codec, buf>>

\* HandleDiscoverResponse goes on: with a SEID it sends GET_CAPABILITIES,
\* without one it returns and DISCOVER stays unanswered.  The packet is gone.
HandleDiscoverResponse ==
  /\ pc = "found"
  /\ IF seid = SEID_NONE
     THEN pc' = "discover" /\ UNCHANGED RemoteSeid
     ELSE pc' = "caps" /\ RemoteSeid' = seid
  /\ units' = <<>> /\ data' = <<>> /\ i' = 0 /\ reads' = {}
  /\ UNCHANGED <<seid, PreferredCodecId, codec, buf>>

\* Offsets media_codec_matches reads of the capability at o, in its order:
\* the category and the length, then the content if they allow it.
MatchReads(o, config) ==
  {o, o + 1} \cup
  (IF At(o) = MEDIA_CODEC /\ At(o + 1) >= 1 + config.match_len
   THEN (o + CAPABILITY_HEADER_LEN)..(o + CAPABILITY_HEADER_LEN + config.match_len)
   ELSE {})

\* Mutant: the media type is not compared.
media_codec_matches_AnyMedia(o, config) ==
  /\ At(o) = MEDIA_CODEC
  /\ At(o + 1) >= 1 + config.match_len
  /\ \A k \in 1..config.match_len :
       At(o + CAPABILITY_HEADER_LEN + k) = config.info[k]

media_codec_matches(o, config) ==
  /\ At(o) = MEDIA_CODEC
  /\ At(o + 1) >= 1 + config.match_len
  /\ At(o + CAPABILITY_HEADER_LEN) \div 16 = AUDIO
  /\ \A k \in 1..config.match_len :
       At(o + CAPABILITY_HEADER_LEN + k) = config.info[k]

\* select_codec returns.
Select(c) == codec' = c /\ pc' = "build" /\ i' = 0

\* Mutant: the length octet is trusted.
Overruns_Trusted(capability_len) == FALSE

\* The capability at i claims more octets than are left.
Overruns(capability_len) == i + capability_len > pay_len

\* One iteration of capabilities_contain_config, with the early return of
\* owb_avdtp_capabilities_contain_codec and owb_avdtp_select_codec around it.
capabilities_contain_config ==
  /\ pc = "contain"
  /\ UNCHANGED <<units, data, seid, RemoteSeid, PreferredCodecId, buf>>
  /\ IF PreferredCodecId \notin Configs
          \/ i + CAPABILITY_HEADER_LEN > pay_len
     THEN reads' = {} /\ Select("sbc")
     ELSE LET o == Payload(i)
              config == kCodecConfigs[PreferredCodecId]
              capability_len == CAPABILITY_HEADER_LEN + At(o + 1)
          IN  IF Overruns(capability_len)
              THEN reads' = {o + 1} /\ Select("sbc")
              ELSE /\ reads' = MatchReads(o, config)
                   /\ IF media_codec_matches(o, config)
                      THEN Select(PreferredCodecId)
                      ELSE i' = i + capability_len /\ UNCHANGED <<codec, pc>>

encode_seid(s) == (s % 64) * 4

\* owb_avdtp_build_set_configuration, called by HandleGetCapabilitiesResponse.
\* A payload that does not fit is not built, and nothing is sent.
build_set_configuration ==
  /\ pc = "build"
  /\ LET config == kCodecConfigs[codec]
         losc == 1 + Len(config.info)
         total == 2 + CAPABILITY_HEADER_LEN + CAPABILITY_HEADER_LEN + losc
     IN  buf' = IF SET_CONFIGURATION_MAX_LEN < total THEN <<>>
                ELSE << encode_seid(RemoteSeid), encode_seid(LocalSeid),
                        MEDIA_TRANSPORT, 0, MEDIA_CODEC, losc, AUDIO * 16 >>
                       \o config.info
  /\ pc' = "done"
  /\ reads' = {}
  /\ UNCHANGED <<units, data, i, seid, RemoteSeid, PreferredCodecId, codec>>

Next ==
  \/ ReceiveDiscover
  \/ find_free_audio_sink_seid
  \/ HandleDiscoverResponse
  \/ ReceiveCapabilities
  \/ capabilities_contain_config
  \/ build_set_configuration

Spec == Init /\ [][Next]_vars

-----------------------------------------------------------------------------
(* What the packets mean, and the properties.                              *)

\* The end points of a DISCOVER response that are free audio sinks.
FreeSinks == {k \in DOMAIN units : FreeAudioSink(units[k])}

\* The capabilities of the response that arrived with all their octets.
Complete ==
  {k \in DOMAIN units :
     Len(Concat([j \in 1..k |-> EncodeCapability(units[j])])) <= pay_len}

\* The parser never reads past the bytes that arrived, whatever the lengths
\* inside them say: avdtp_packets.c:111, 131-134 and the match of 119-126.
ReadsInBounds == \A o \in reads : o < Len(data)

\* The end point addressed is the first one the sink listed as a free audio
\* sink, and the SET_CONFIGURATION built for it names the preferred codec
\* exactly if a capability that arrived complete offers it, SBC otherwise; it
\* carries that codec's bytes behind a length octet that is right, and it fits
\* the buffer (avdtp_packets.c:109-174, avdtp_packets.h:15).
ConfigurationAgrees ==
  /\ pc = "found" /\ seid # SEID_NONE =>
       \E k \in FreeSinks : /\ seid = Seid(units[k])
                            /\ \A j \in FreeSinks : k <= j
  /\ pc = "done" =>
       LET offered == \E k \in Complete : units[k][2] = PreferredCodecId
           named == IF offered /\ PreferredCodecId \in Configs
                    THEN PreferredCodecId ELSE "sbc"
       IN  /\ Len(buf) > 7
           /\ buf[1] = 4 * RemoteSeid
           /\ buf[6] = Len(buf) - 6
           /\ codec = named
           /\ SubSeq(buf, 8, Len(buf)) = kCodecConfigs[named].info
=============================================================================

--------------------------- MODULE MCAvdtpPackets ---------------------------
EXTENDS AvdtpPackets

\* End points: free, in use, a source, a video sink; small and large SEIDs.
MCSeps ==
  {<<1, FALSE, TRUE, AUDIO>>,
   <<62, FALSE, TRUE, AUDIO>>,
   <<2, TRUE, TRUE, AUDIO>>,
   <<3, FALSE, FALSE, AUDIO>>,
   <<4, FALSE, TRUE, 1>>}

MediaCodec(c, content) == <<MEDIA_CODEC, c, content>>

\* Media Transport, Content Protection with one octet too many, Media Codecs of
\* the sink (its own parameter octets), one too short to name a codec, another
\* codec of the aptX vendor, and a video codec with the bytes of AAC.
MCCapabilities ==
  {<<MEDIA_TRANSPORT, "none", <<>>>>,
   <<4, "none", <<7, 2, 0>>>>,
   MediaCodec("sbc", <<0, 0, 255, 255, 2, 53>>),
   MediaCodec("aac", <<0, 2, 128, 1, 4, 131, 232, 0>>),
   MediaCodec("ldac", <<0, 255, 45, 1, 0, 0, 170, 0, 60, 7>>),
   MediaCodec("aptx", <<0, 255, 79, 0, 0, 0, 1, 0, 255>>),
   MediaCodec("aptxhd", <<0, 255, 215, 0, 0, 0, 36, 0, 255, 0, 0, 0, 0>>),
   MediaCodec("none", <<0>>),
   MediaCodec("none", <<0, 255, 79, 0, 0, 0, 2, 0, 255>>),
   MediaCodec("none", <<16, 2, 128>>)}
=============================================================================

-------------------------- MODULE MCStreamPipeline --------------------------
EXTENDS StreamPipeline, TLC
CONSTANTS sbc, ldac, aptx, adaptive
\* Two SBC layouts, a longer framed codec, a blob codec and the stub codec.
FramesOf == (sbc :> {2, 4}) @@ (ldac :> {6}) @@ (aptx :> {0}) @@ (adaptive :> {0})
=============================================================================

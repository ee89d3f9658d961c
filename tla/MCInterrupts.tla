---------------------------- MODULE MCInterrupts ----------------------------
(* The 60 Hz timer, whose bit is gated until the Mac has started, and the   *)
(* audio task, which triggers whether or not its bit was set.               *)
EXTENDS Interrupts, TLC
CONSTANTS timer, audio, F60HZ, AUDIO
MCRaises == (timer :> F60HZ) @@ (audio :> AUDIO)
=============================================================================

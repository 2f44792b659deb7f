----------------------------- MODULE PulseSink -----------------------------
(***************************************************************************)
(* audio.c: the null sink and the remap source that k4w_audio_pulse_open   *)
(* loads into the PulseAudio server with pactl, and the stream it plays    *)
(* to.  The server is external: modules stay loaded when k4wd dies, and a  *)
(* pactl command may do its work and still be reported as failed.          *)
(***************************************************************************)
EXTENDS Naturals

CONSTANT MaxModules \* bound on the modules of a kind in the server, for TLC

ASSUME PulseAssumption == MaxModules \in Nat \ {0}

VARIABLES
    nullSinks, remaps,     \* modules of k4wd's in the server
    sinkKnown, remapKnown, \* g_null_sink_module, g_remap_module are >= 0
    pulseStream,           \* pulse_sink is not NULL
    pactlFailed            \* history: a module was loaded or kept unnoticed

server == <<nullSinks, remaps>>
pulseVars == <<server, sinkKnown, remapKnown, pulseStream, pactlFailed>>

PulseInit ==
    /\ nullSinks = 0 /\ remaps = 0
    /\ sinkKnown = FALSE /\ remapKnown = FALSE /\ pulseStream = FALSE
    /\ pactlFailed = FALSE

Count(b) == IF b THEN 1 ELSE 0

\* ensure_null_sink: without an index that is reported there is no remap source
LoadNullSink(reported) ==
    \E loaded \in BOOLEAN :
        /\ reported => loaded
        /\ loaded => nullSinks < MaxModules
        /\ nullSinks' = nullSinks + Count(loaded)
        /\ sinkKnown' = reported
        /\ pactlFailed' = (pactlFailed \/ loaded # reported)
        /\ UNCHANGED <<remaps, remapKnown, pulseStream>>

LoadRemap ==
    \E loaded, reported \in BOOLEAN :
        /\ reported => loaded
        /\ loaded => remaps < MaxModules
        /\ remaps' = remaps + Count(loaded)
        /\ remapKnown' = (remapKnown \/ reported)
        /\ pactlFailed' = (pactlFailed \/ loaded # reported)
        /\ UNCHANGED <<nullSinks, sinkKnown, pulseStream>>

\* Mutant: the null sink is left to be unloaded by the end of the process.
UnloadRemapOnly ==
    \E r \in {0, Count(remapKnown)} :
        /\ remaps' = remaps - r
        /\ pactlFailed' = (pactlFailed \/ r < Count(remapKnown))
        /\ sinkKnown' = FALSE /\ remapKnown' = FALSE
        /\ UNCHANGED nullSinks

\* unload_null_sink: a module that pactl fails to unload is forgotten
Unload ==
    \E n \in {0, Count(sinkKnown)}, r \in {0, Count(remapKnown)} :
        /\ nullSinks' = nullSinks - n /\ remaps' = remaps - r
        /\ pactlFailed' = \/ pactlFailed
                          \/ n < Count(sinkKnown) \/ r < Count(remapKnown)
        /\ sinkKnown' = FALSE /\ remapKnown' = FALSE

\* pa_simple_new: without a sink of our own it may still find an older one
OpenPulseStream ==
    \/ pulseStream' = TRUE /\ UNCHANGED <<server, sinkKnown, remapKnown,
                                          pactlFailed>>
    \/ pulseStream' = FALSE /\ Unload

\* k4w_audio_pulse_close, with or without a stream
ClosePulse == pulseStream' = FALSE /\ Unload

\* What the process knew is gone with it.
PulseDies ==
    /\ sinkKnown' = FALSE /\ remapKnown' = FALSE /\ pulseStream' = FALSE
    /\ UNCHANGED <<server, pactlFailed>>
=============================================================================

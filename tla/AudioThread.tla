---------------------------- MODULE AudioThread ----------------------------
(***************************************************************************)
(* audio_thread_func of kinect.c: find and open the Kinect's ALSA card,    *)
(* then capture until told to stop, dropping the capture when a motor      *)
(* command asks for a pause and reopening it afterwards.                   *)
(***************************************************************************)
EXTENDS DaemonState

AudioGoto(from, to) == audioPC = from /\ audioPC' = to

\* Everything an audio step leaves alone, whatever it does.
AudioFrame ==
    /\ UNCHANGED <<gRunning, running, motorPaused, gAudioPaused>>
    /\ UNCHANGED <<syncOn, motorHeld, mainVars, cmdVars, history>>

\* A step that only moves the program counter.
AudioMoves ==
    /\ UNCHANGED <<gAudioRunning, gAudioDropped, pcm, cardBound, wasPaused>>
    /\ UNCHANGED retry
    /\ AudioFrame

-----------------------------------------------------------------------------
(* Start-up, up to the first iteration of the loop *)

\* Bind snd-usb-audio if no card is there; writing to sysfs may fail.
AudioRebind ==
    /\ AudioGoto("rebind", "open")
    /\ cardBound' \in {cardBound, TRUE}
    /\ UNCHANGED <<gAudioRunning, gAudioDropped, pcm, wasPaused, retry>>
    /\ AudioFrame

\* The card is looked up by USB id and opened; without it the thread ends.
AudioOpen ==
    /\ \/ /\ cardBound
          /\ AudioGoto("open", "configure")
          /\ pcm' = "open"
       \/ /\ AudioGoto("open", "done")
          /\ UNCHANGED pcm
    /\ UNCHANGED <<gAudioRunning, gAudioDropped, cardBound, wasPaused, retry>>
    /\ AudioFrame

AudioConfigure ==
    /\ AudioGoto("configure", "setRunning")
    /\ AudioMoves

\* The flag is written last, whatever k4w_kinect_stop has done to it by then.
AudioSetRunning ==
    /\ AudioGoto("setRunning", "loop")
    /\ gAudioRunning' = TRUE
    /\ wasPaused' = FALSE
    /\ UNCHANGED <<gAudioDropped, pcm, cardBound, retry>>
    /\ AudioFrame

-----------------------------------------------------------------------------
(* The capture loop *)

AudioLoop ==
    /\ IF gAudioRunning THEN AudioGoto("loop", "check")
                        ELSE AudioGoto("loop", "exitCheck")
    /\ AudioMoves

AudioCheck ==
    /\ audioPC = "check"
    /\ audioPC' = IF gAudioPaused THEN "pausedBranch"
                  ELSE IF wasPaused THEN "resumeBranch" ELSE "hasPcm"
    /\ AudioMoves

\* The capture is dropped and acknowledged once per pause the thread notices.
AudioPausedBranch ==
    /\ audioPC = "pausedBranch"
    /\ \/ /\ ~wasPaused /\ pcm # "null"
          /\ audioPC' = "drop"
          /\ UNCHANGED wasPaused
       \/ /\ wasPaused \/ pcm = "null"
          /\ audioPC' = "loop"
          /\ wasPaused' = TRUE
    /\ UNCHANGED <<gAudioRunning, gAudioDropped, pcm, cardBound, retry>>
    /\ AudioFrame

AudioDrop ==
    /\ AudioGoto("drop", "ack")
    /\ AudioMoves

AudioAck ==
    /\ AudioGoto("ack", "loop")
    /\ gAudioDropped' = TRUE
    /\ wasPaused' = TRUE
    /\ UNCHANGED <<gAudioRunning, pcm, cardBound, retry>>
    /\ AudioFrame

\* Mutant: the old handle is not closed before the reopening.
AudioResumeBranchLeaks ==
    /\ AudioGoto("resumeBranch", "reopen")
    /\ retry' = 0
    /\ UNCHANGED <<gAudioRunning, gAudioDropped, pcm, cardBound, wasPaused>>
    /\ AudioFrame

AudioResumeBranch ==
    /\ audioPC = "resumeBranch"
    /\ audioPC' = IF pcm # "null" THEN "closeOld" ELSE "reopen"
    /\ retry' = 0
    /\ UNCHANGED <<gAudioRunning, gAudioDropped, pcm, cardBound, wasPaused>>
    /\ AudioFrame

AudioCloseOld ==
    /\ AudioGoto("closeOld", "nullOld")
    /\ pcm' = "freed"
    /\ UNCHANGED <<gAudioRunning, gAudioDropped, cardBound, wasPaused, retry>>
    /\ AudioFrame

AudioNullOld ==
    /\ AudioGoto("nullOld", "reopen")
    /\ pcm' = "null"
    /\ UNCHANGED <<gAudioRunning, gAudioDropped, cardBound, wasPaused, retry>>
    /\ AudioFrame

\* One attempt.  After the last failed one the thread goes on with g_pcm NULL.
AudioReopen ==
    /\ \/ /\ cardBound
          /\ AudioGoto("reopen", "reconfigure")
          /\ pcm' = "open"
          /\ UNCHANGED <<wasPaused, retry>>
       \/ /\ retry + 1 < ReopenRetries
          /\ AudioGoto("reopen", "reopen")
          /\ retry' = retry + 1
          /\ UNCHANGED <<pcm, wasPaused>>
       \/ /\ retry + 1 = ReopenRetries
          /\ AudioGoto("reopen", "loop")
          /\ wasPaused' = FALSE
          /\ UNCHANGED <<pcm, retry>>
    /\ UNCHANGED <<gAudioRunning, gAudioDropped, cardBound>>
    /\ AudioFrame

\* Mutant: was_paused is reset only when the reopening failed.
AudioReconfigureKeepsPaused ==
    /\ AudioGoto("reconfigure", "loop")
    /\ AudioMoves

AudioReconfigure ==
    /\ AudioGoto("reconfigure", "loop")
    /\ wasPaused' = FALSE
    /\ UNCHANGED <<gAudioRunning, gAudioDropped, pcm, cardBound, retry>>
    /\ AudioFrame

AudioHasPcm ==
    /\ audioPC = "hasPcm"
    /\ audioPC' = IF pcm # "null" THEN "read" ELSE "loop"
    /\ AudioMoves

\* snd_pcm_readi returns samples, which go to shared memory and PulseAudio, or
\* an error, which is recovered from; either way the loop goes on.
AudioRead ==
    /\ AudioGoto("read", "loop")
    /\ AudioMoves

-----------------------------------------------------------------------------
(* After the loop: if (g_pcm) { snd_pcm_close(g_pcm); g_pcm = NULL; } *)

AudioExitCheck ==
    /\ audioPC = "exitCheck"
    /\ audioPC' = IF pcm # "null" THEN "exitClose" ELSE "done"
    /\ AudioMoves

AudioExitClose ==
    /\ AudioGoto("exitClose", "exitNull")
    /\ pcm' = "freed"
    /\ UNCHANGED <<gAudioRunning, gAudioDropped, cardBound, wasPaused, retry>>
    /\ AudioFrame

AudioExitNull ==
    /\ AudioGoto("exitNull", "done")
    /\ pcm' = "null"
    /\ UNCHANGED <<gAudioRunning, gAudioDropped, cardBound, wasPaused, retry>>
    /\ AudioFrame

-----------------------------------------------------------------------------
AudioStart == AudioRebind \/ AudioOpen \/ AudioConfigure \/ AudioSetRunning
AudioPause == AudioPausedBranch \/ AudioDrop \/ AudioAck
AudioResume == \/ AudioResumeBranch \/ AudioCloseOld \/ AudioNullOld
               \/ AudioReopen \/ AudioReconfigure
AudioExit == AudioExitCheck \/ AudioExitClose \/ AudioExitNull

AudioNext == \/ AudioStart \/ AudioLoop \/ AudioCheck \/ AudioPause
             \/ AudioResume \/ AudioHasPcm \/ AudioRead \/ AudioExit
=============================================================================

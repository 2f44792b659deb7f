------------------------------ MODULE V4l2Out ------------------------------
(***************************************************************************)
(* v4l2.c: k4w_v4l2_open settles on a pixel format with the output device, *)
(* k4w_v4l2_write_frame asks the device for its format before every frame  *)
(* and converts the frame to it.  The device is external: its driver may   *)
(* accept a format and set another, and other programs may set one too.    *)
(***************************************************************************)
EXTENDS Functions

VARIABLES
    format,  \* of the device, "none" unless v4l2_fd is open
    queried, \* what VIDIOC_G_FMT returned for the frame in hand
    reset,   \* history: another program set the format since then
    misfit   \* history: a frame was written in a format that the device did
             \* not have, though nobody had changed it and the code knew it

v4l2Vars == <<format, queried, reset, misfit>>

V4l2Init ==
    /\ format = "none" /\ queried = "none"
    /\ reset = FALSE /\ misfit = FALSE

\* The formats tried, in this order; the driver may put another in their place.
Preferred == <<"MJPEG", "YUYV", "RGB24">>
Formats == Range(Preferred) \cup {"other"}

\* The device is missing or refuses all formats, or it accepts one of them.
OpenV4l2 ==
    /\ \/ format' = "none"
       \/ \E i \in DOMAIN Preferred : format' \in {Preferred[i], "other"}
    /\ UNCHANGED <<queried, reset, misfit>>

\* Mutant: the format that is asked for first is taken for granted.
QueryPreferred ==
    /\ queried' = IF format = "none" THEN "none" ELSE Preferred[1]
    /\ UNCHANGED <<format, reset, misfit>>

\* Without a device, or if the query fails, the frame is not written.
QueryFormat ==
    /\ queried' \in {format, "none"}
    /\ UNCHANGED <<format, reset, misfit>>

\* What is neither MJPEG nor YUYV is sent RGB24, also to a device whose driver
\* chose a format that the code does not know.
Sent == IF queried \in {"MJPEG", "YUYV"} THEN queried ELSE "RGB24"

\* A JPEG that outgrows its buffer is dropped.
WriteV4l2 ==
    /\ \/ misfit' = (misfit \/ ( /\ queried # "none" /\ ~reset
                                /\ Sent # format /\ format # "other"))
       \/ queried = "MJPEG" /\ UNCHANGED misfit
    /\ queried' = "none" /\ reset' = FALSE
    /\ UNCHANGED format

CloseV4l2 ==
    /\ format' = "none" /\ queried' = "none" /\ reset' = FALSE
    /\ UNCHANGED misfit

OtherProgramSetsFormat ==
    /\ format # "none" /\ format' \in Formats \ {format}
    /\ reset' = (queried # "none")
    /\ UNCHANGED <<queried, misfit>>
=============================================================================

---------------------------- MODULE FrameMailbox ----------------------------
(***************************************************************************)
(* What a frame segment of k4wd promises its readers: a mailbox that holds *)
(* the latest frame.  Frames are numbered in the order of publication, and *)
(* a delivered frame is a pair of numbers, the frames its first and second *)
(* half come from.  A reader takes the latest frame and delivers it        *)
(* whole, unless Slack newer ones were published in the meantime: then     *)
(* either half may be of a newer frame, never of an older one.             *)
(***************************************************************************)
EXTENDS Integers

CONSTANTS Readers, \* threads that read the segment
          Slack    \* publications a reader may miss while it copies

None == -1

VARIABLES latest,  \* number of the newest published frame, 0 before the first
          held,    \* frame each reader is copying, or None
          shown    \* the halves each reader delivered last

mailboxVars == <<latest, held, shown>>

MailboxInit ==
    /\ latest = 0
    /\ held = [r \in Readers |-> None]
    /\ shown = [r \in Readers |-> <<0, 0>>]

PublishFrame ==
    /\ latest' = latest + 1
    /\ UNCHANGED <<held, shown>>

TakeLatest(r) ==
    /\ held[r] = None
    /\ held' = [held EXCEPT ![r] = latest]
    /\ UNCHANGED <<latest, shown>>

GiveUp(r) ==
    /\ held[r] # None
    /\ held' = [held EXCEPT ![r] = None]
    /\ UNCHANGED <<latest, shown>>

\* The halves a reader may deliver of the frame f it took.
Deliverable(f) ==
    IF latest < f + Slack THEN {<<f, f>>}
    ELSE (f..latest + 1) \X (f..latest + 1)

DeliverFrame(r) ==
    /\ held[r] # None
    /\ \E halves \in Deliverable(held[r]) :
           shown' = [shown EXCEPT ![r] = halves]
    /\ held' = [held EXCEPT ![r] = None]
    /\ UNCHANGED latest

MailboxNext ==
    \/ PublishFrame
    \/ \E r \in Readers : TakeLatest(r) \/ GiveUp(r) \/ DeliverFrame(r)

MailboxSpec == MailboxInit /\ [][MailboxNext]_mailboxVars
=============================================================================

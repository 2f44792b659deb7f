------------------------------- MODULE PidLock -------------------------------
(***************************************************************************)
(* The lock that keeps a second k4wd from starting: acquire_pid_lock and   *)
(* release_pid_lock of main.c, one action per file operation.  A process   *)
(* is its pid.  A process may be killed anywhere, and then leaves the file *)
(* behind; its pid may be given to another k4wd or to another program.     *)
(* k4wd runs as the user's, by k4wd.service, and as root, by the panel's   *)
(* sudo: kill(pid, 0) fails on root's processes, and in /tmp one removes   *)
(* only one's own files.  The file's creator is kept with it, because a    *)
(* process writes its pid to the file it created even if that is gone.     *)
(***************************************************************************)
EXTENDS Naturals, FiniteSets

CONSTANTS Processes,
          None,  \* no process
          Users,
          Root,
          MaxRemovals \* bound on removals

ASSUME LockAssumption ==
    /\ IsFiniteSet(Processes) /\ None \notin Processes
    /\ Root \in Users /\ MaxRemovals \in Nat

VARIABLES pc,
          uid,     \* of each process
          creator, \* who created /tmp/k4w.pid, or None if there is no file
          owner,   \* the user it belongs to
          content, \* the pid in it, or None while it is empty
          old,     \* the pid each process read
          quiet,      \* history: no process or file has gone, and no pid or
                      \* file of somebody else's was in the way
          overlapped, \* history: two were in acquire_pid_lock at once
          failed,     \* history: a file operation failed for want of resources
          removals    \* history: files of daemons that others removed

file == <<creator, owner, content>>
history == <<quiet, overlapped, failed, removals>>
vars == <<pc, uid, file, old, history>>

PCs == {"off", "other", "create", "readOld", "check", "unlink", "createAgain",
        "write", "running", "refused"}
Gone == {"off", "refused"}    \* no process of that pid
NotK4wd == Gone \cup {"other"}  \* nor when another program has it
Acquiring == PCs \ (NotK4wd \cup {"running"})
Inside == {"write", "running"} \* past the lock

Running == {p \in Processes : pc[p] = "running"}

\* An earlier process may have left its file behind, with or without a pid.
Init ==
    /\ pc = [p \in Processes |-> "off"]
    /\ uid = [p \in Processes |-> Root]
    /\ creator \in Processes \cup {None} /\ content \in {creator, None}
    /\ owner \in Users
    /\ quiet = TRUE /\ overlapped = FALSE /\ failed = FALSE /\ removals = 0
    /\ old = [p \in Processes |-> None]

\* The uid of a pid that is nobody's does not matter.
Become(p, to) ==
    /\ pc' = [pc EXCEPT ![p] = to]
    /\ uid' = IF to \in Gone THEN [uid EXCEPT ![p] = Root] ELSE uid

Goto(p, from, to) == pc[p] = from /\ Become(p, to)

FileExists == creator # None

\* kill(pid, 0) == 0: EPERM counts as dead.
Alive(p, pid) ==
    /\ pid # None /\ pc[pid] \notin Gone
    /\ uid[p] \in {Root, uid[pid]}

\* unlink succeeds: /tmp is sticky.
MayRemove(p) == uid[p] \in {Root, owner}

CreateFile(p) == creator' = p /\ owner' = uid[p] /\ content' = None

Unlink(p) ==
    IF MayRemove(p) THEN creator' = None /\ content' = None /\ owner' = Root
    ELSE UNCHANGED file

-----------------------------------------------------------------------------
\* k4wd, or another program, gets a free pid.
Appear(p, as) ==
    /\ pc[p] \in Gone /\ pc' = [pc EXCEPT ![p] = as]
    /\ \E u \in Users : uid' = [uid EXCEPT ![p] = u]
    /\ UNCHANGED <<file, old, quiet, failed, removals>>

Start(p) ==
    /\ Appear(p, "create")
    /\ overlapped' = (overlapped \/ \E q \in Processes : pc[q] \in Acquiring)

OtherStarts(p) == Appear(p, "other") /\ UNCHANGED overlapped

OtherEnds(p) ==
    /\ Goto(p, "other", "off")
    /\ UNCHANGED <<file, old, history>>

\* open(O_CREAT | O_EXCL)
Create(p) ==
    /\ \/ /\ FileExists
          /\ Goto(p, "create", "readOld")
          /\ UNCHANGED file
       \/ /\ ~FileExists
          /\ Goto(p, "create", "write")
          /\ CreateFile(p)
    /\ UNCHANGED <<old, history>>

\* open fails with something else than EEXIST, "PID file error", or the second
\* open does.
OpenFails(p) ==
    /\ Goto(p, "create", "refused") \/ Goto(p, "createAgain", "refused")
    /\ failed' = TRUE
    /\ UNCHANGED <<file, old, quiet, overlapped, removals>>

\* An empty file reads as pid 0.
ReadOld(p) ==
    /\ \/ FileExists /\ Goto(p, "readOld", "check")
       \/ ~FileExists /\ Goto(p, "readOld", "unlink")
    /\ old' = [old EXCEPT ![p] = content]
    /\ UNCHANGED <<file, history>>

\* fopen fails: the umask of another user's k4wd, or want of resources
ReadFails(p) ==
    /\ FileExists
    /\ Goto(p, "readOld", "unlink")
    /\ failed' = (failed \/ MayRemove(p))
    /\ UNCHANGED <<file, old, quiet, overlapped, removals>>

\* Mutant: every lock that is there is taken for a stale one.
CheckNothing(p) ==
    /\ Goto(p, "check", "unlink")
    /\ UNCHANGED <<file, old, history>>

\* Mutant: every lock that is there is respected.
CheckExists(p) ==
    /\ Goto(p, "check", "refused")
    /\ UNCHANGED <<file, old, history>>

\* "Another instance running", whoever has the pid by now, or "Stale PID"
Check(p) ==
    /\ \/ /\ Alive(p, old[p])
          /\ Goto(p, "check", "refused")
          /\ quiet' = (quiet /\ old[p] # p /\ pc[old[p]] # "other")
       \/ /\ ~Alive(p, old[p])
          /\ Goto(p, "check", "unlink")
          /\ UNCHANGED quiet
    /\ old' = [old EXCEPT ![p] = None]
    /\ UNCHANGED <<file, overlapped, failed, removals>>

\* Mutant: nobody's file is in the way.
UnlinkForced(p) ==
    /\ Goto(p, "unlink", "createAgain")
    /\ creator' = None /\ content' = None /\ owner' = Root
    /\ UNCHANGED <<old, history>>

UnlinkStale(p) ==
    /\ Goto(p, "unlink", "createAgain")
    /\ Unlink(p)
    /\ quiet' = (quiet /\ (FileExists /\ ~MayRemove(p)
                               => pc[creator] \in Inside))
    /\ UNCHANGED <<old, overlapped, failed, removals>>

CreateAgain(p) ==
    /\ \/ /\ FileExists
          /\ Goto(p, "createAgain", "refused")
          /\ UNCHANGED file
       \/ /\ ~FileExists
          /\ Goto(p, "createAgain", "write")
          /\ CreateFile(p)
    /\ UNCHANGED <<old, history>>

\* Mutant: the pid is not written.
WriteNothing(p) ==
    /\ Goto(p, "write", "running")
    /\ UNCHANGED <<file, old, history>>

\* Nobody looks whether the write succeeds.
WritePid(p) ==
    /\ Goto(p, "write", "running")
    /\ \/ /\ content' = IF creator = p THEN p ELSE content
          /\ UNCHANGED failed
       \/ failed' = TRUE /\ UNCHANGED content
    /\ UNCHANGED <<creator, owner, old, quiet, overlapped, removals>>

\* The end of main(), or of a failed k4w_kinect_init: whatever file is there
\* is unlinked.
Release(p) ==
    /\ Goto(p, "running", "off")
    /\ Unlink(p)
    /\ quiet' = FALSE
    /\ UNCHANGED <<old, overlapped, failed, removals>>

\* SIGKILL, SIGSEGV or SIGPIPE at any time
Crash(p) ==
    /\ pc[p] \notin NotK4wd /\ Become(p, "off")
    /\ quiet' = FALSE
    /\ UNCHANGED <<file, old, overlapped, failed, removals>>

\* The panel's start, reset and shutdown remove the file after at most killing
\* the process it named when they read it, and k4wd.service removes it before
\* each start without looking.
RemoveByOthers ==
    /\ FileExists
    /\ creator' = None /\ content' = None /\ owner' = Root
    /\ IF pc[creator] \in Inside
       THEN removals < MaxRemovals /\ removals' = removals + 1
       ELSE UNCHANGED removals
    /\ quiet' = FALSE
    /\ UNCHANGED <<pc, uid, old, overlapped, failed>>

Acquire(p) ==
    \/ Start(p) \/ Create(p) \/ OpenFails(p) \/ ReadOld(p) \/ ReadFails(p)
    \/ Check(p) \/ UnlinkStale(p) \/ CreateAgain(p) \/ WritePid(p)

Next == \/ \E p \in Processes : \/ Acquire(p) \/ Release(p) \/ Crash(p)
                                \/ OtherStarts(p) \/ OtherEnds(p)
        \/ RemoveByOthers

Spec == Init /\ [][Next]_vars

-----------------------------------------------------------------------------
TypeOK ==
    /\ pc \in [Processes -> PCs] /\ uid \in [Processes -> Users]
    /\ creator \in Processes \cup {None} /\ content \in Processes \cup {None}
    /\ owner \in Users
    /\ old \in [Processes -> Processes \cup {None}]
    /\ quiet \in BOOLEAN /\ overlapped \in BOOLEAN /\ failed \in BOOLEAN
    /\ removals \in Nat
    /\ creator = None => content = None

\* Every daemon beyond the first is owed to somebody who removed the file of a
\* daemon that was alive, as the panel and k4wd.service may; whatever crashes
\* leave, whoever gets their pids and whichever user each k4wd runs as, unless
\* two starts once overlapped in acquire_pid_lock (main.c:46) or a call failed.
DaemonsCounted ==
    ~overlapped /\ ~failed => Cardinality(Running) <= 1 + removals

\* As long as nobody else removed the file of a living daemon, no starts
\* overlapped and no call failed, the file names the running daemon: the GUI's
\* reset and shutdown, which signal the process in it (mainwindow.cpp:563 and
\* 632), signal the right one.
FileNamesDaemon ==
    ~overlapped /\ ~failed /\ removals = 0
        => \A p \in Running : creator = p /\ content = p

\* Why a start may be refused, unless starts overlapped or a call failed: a
\* daemon is running; or the pid in the file is alive again, as the starter's
\* own or another program's; or the file is another user's.  An empty file or
\* a dead pid of one's own user never blocks the next start (main.c:55-64).
RefusedForAReason ==
    [][~overlapped' /\ ~failed' =>
           \A p \in Processes :
               pc[p] # "refused" /\ pc'[p] = "refused"
                   => \/ Running # {}
                      \/ pc[p] = "check" /\ old[p] = p
                      \/ pc[p] = "check" /\ pc[old[p]] = "other"
                      \/ pc[p] = "createAgain" /\ ~MayRemove(p)]_vars

\* However many processes start at once, and whatever file an earlier one left,
\* they do not all refuse to run because of each other.
SomeoneGetsIn ==
    /\ quiet /\ ~failed
    /\ \A p \in Processes : pc[p] \notin Acquiring
    /\ Running = {}
    => \A p \in Processes : pc[p] # "refused"
=============================================================================

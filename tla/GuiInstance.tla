---------------------------- MODULE GuiInstance ----------------------------
(***************************************************************************)
(* How the control panel keeps to one instance (ctl/main.cpp): a start     *)
(* looks for the process named in /tmp/kinect-for-linux.pid and asks it,   *)
(* over a local socket, to show its window; if nobody answers it cleans up *)
(* and takes the place.  A process that ends removes the files whoever     *)
(* they belong to, and its QLocalServer removes the socket once more when  *)
(* it is destroyed, after the window and its waits for two threads.        *)
(***************************************************************************)
CONSTANTS
    Procs,  \* processes, each started once
    None,
    Stale,  \* what an instance that crashed left: a pid and a socket
    Reused  \* a pid that was left and by now is another program's

ASSUME InstanceAssumption ==
    /\ Procs \cap {None, Stale, Reused} = {} /\ Stale # Reused

VARIABLES
    pc,
    pidFile,  \* the process it names, Stale, Reused, or None
    socket,   \* the process the socket file leads to, Stale, or None
    listens,  \* processes whose server has bound the path
    asked,    \* for each process, who asked it to show its window
    answered, \* history: processes whose request was fulfilled
    overlap   \* history: a start or a request met another start or an end

files == <<pidFile, socket>>
history == <<answered, overlap>>
vars == <<pc, files, listens, asked, history>>

Starting == {"readPid", "connect", "removePid", "removeServer", "bind",
             "writePid", "show"}
Ending == {"removePidAtEnd", "removeSocketAtEnd", "closeServer"}
Over == {"new", "done", "killed"}
PCs == Starting \cup Ending \cup Over \cup {"run"}

Alive(p) == p = Reused \/ (p \in Procs /\ pc[p] \notin Over)

Init ==
    /\ pc = [p \in Procs |-> "new"]
    /\ pidFile \in {None, Stale, Reused} /\ socket \in {None, Stale}
    /\ listens = {} /\ asked = [p \in Procs |-> {}]
    /\ answered = {} /\ overlap = FALSE

Goto(p, from, to) == pc[p] = from /\ pc' = [pc EXCEPT ![p] = to]
Meets(p, states) == \E q \in Procs \ {p} : pc[q] \in states

-----------------------------------------------------------------------------
Start(p) ==
    /\ Goto(p, "new", "readPid")
    /\ overlap' = (overlap \/ Meets(p, Starting \cup Ending))
    /\ UNCHANGED <<files, listens, asked, answered>>

\* Mutant: the named process is not looked for.
ReadPidOnly(p) ==
    /\ Goto(p, "readPid", IF pidFile = None THEN "removeServer"
                          ELSE "removePid")
    /\ UNCHANGED <<files, listens, asked, history>>

ReadPid(p) ==
    /\ Goto(p, "readPid", IF pidFile = None THEN "removeServer"
                          ELSE IF Alive(pidFile) THEN "connect"
                          ELSE "removePid")
    /\ UNCHANGED <<files, listens, asked, history>>

Asks(p, q) ==
    /\ Goto(p, "connect", "done")
    /\ asked' = [asked EXCEPT ![q] = @ \cup {p}]

\* Mutant: the start ends whether or not somebody answers.
ConnectOrGiveUp(p) ==
    /\ \/ socket \in listens /\ Asks(p, socket)
       \/ /\ socket \notin listens
          /\ Goto(p, "connect", "done") /\ UNCHANGED asked
    /\ UNCHANGED <<files, listens, history>>

\* A server that listens lets clients connect before it looks at them.
Connect(p) ==
    /\ \/ socket \in listens /\ Asks(p, socket)
       \/ /\ socket \notin listens
          /\ Goto(p, "connect", "removePid") /\ UNCHANGED asked
    /\ UNCHANGED <<files, listens, history>>

\* "Stale PID": the pid file goes, and with the next step the socket.
RemovePid(p) ==
    /\ Goto(p, "removePid", "removeServer")
    /\ pidFile' = None
    /\ UNCHANGED <<socket, listens, asked, history>>

\* Mutant: an old socket stays where it is.
RemoveNoServer(p) ==
    /\ Goto(p, "removeServer", "bind")
    /\ UNCHANGED <<files, listens, asked, history>>

RemoveServer(p) ==
    /\ Goto(p, "removeServer", "bind")
    /\ socket' = None
    /\ UNCHANGED <<pidFile, listens, asked, history>>

\* listen fails if somebody else has bound the path; nobody looks.
Bind(p) ==
    /\ Goto(p, "bind", "writePid")
    /\ IF socket = None THEN socket' = p /\ listens' = listens \cup {p}
       ELSE UNCHANGED <<socket, listens>>
    /\ UNCHANGED <<pidFile, asked, history>>

WritePid(p) ==
    /\ Goto(p, "writePid", "show")
    /\ pidFile' = p
    /\ UNCHANGED <<socket, listens, asked, history>>

\* The window is made and shown, and the event loop begins.
Show(p) ==
    /\ Goto(p, "show", "run")
    /\ UNCHANGED <<files, listens, asked, history>>

\* newConnection: the window is shown and raised.
Raise(p) ==
    /\ pc[p] = "run" /\ asked[p] # {}
    /\ answered' = answered \cup asked[p]
    /\ asked' = [asked EXCEPT ![p] = {}]
    /\ UNCHANGED <<pc, files, listens, overlap>>

-----------------------------------------------------------------------------
(* The end: the window is closed, or "Salir" *)

Quit(p) ==
    /\ Goto(p, "run", "removePidAtEnd")
    /\ overlap' = (overlap \/ Meets(p, Starting) \/ asked[p] # {})
    /\ UNCHANGED <<files, listens, asked, answered>>

RemovePidAtEnd(p) ==
    /\ Goto(p, "removePidAtEnd", "removeSocketAtEnd")
    /\ pidFile' = None
    /\ UNCHANGED <<socket, listens, asked, history>>

RemoveSocketAtEnd(p) ==
    /\ Goto(p, "removeSocketAtEnd", "closeServer")
    /\ socket' = None
    /\ UNCHANGED <<pidFile, listens, asked, history>>

\* The window has waited its 2 s for each thread; the server goes last.
CloseServer(p) ==
    /\ Goto(p, "closeServer", "done")
    /\ socket' = IF p \in listens THEN None ELSE socket
    /\ listens' = listens \ {p}
    /\ asked' = [asked EXCEPT ![p] = {}]
    /\ UNCHANGED <<pidFile, history>>

Crash(p) ==
    /\ pc[p] \notin Over /\ pc' = [pc EXCEPT ![p] = "killed"]
    /\ overlap' = (overlap \/ asked[p] # {})
    /\ listens' = listens \ {p}
    /\ asked' = [asked EXCEPT ![p] = {}]
    /\ UNCHANGED <<files, answered>>

-----------------------------------------------------------------------------
Step(p) == \/ ReadPid(p) \/ Connect(p) \/ RemovePid(p) \/ RemoveServer(p)
           \/ Bind(p) \/ WritePid(p) \/ Show(p) \/ Raise(p)
           \/ RemovePidAtEnd(p) \/ RemoveSocketAtEnd(p) \/ CloseServer(p)

Next == \E p \in Procs : Start(p) \/ Step(p) \/ Quit(p) \/ Crash(p)

Spec == Init /\ [][Next]_vars

\* What main() does goes on.  Nobody has to start, close or kill a panel.
FairSpec == Spec /\ \A p \in Procs : WF_vars(Step(p))

-----------------------------------------------------------------------------
\* The variables keep to their types, and only servers are asked.
TypeOK ==
    /\ pc \in [Procs -> PCs]
    /\ pidFile \in Procs \cup {None, Stale, Reused}
    /\ socket \in Procs \cup {None, Stale}
    /\ listens \subseteq {p \in Procs : pc[p] \notin Over}
    /\ asked \in [Procs -> SUBSET Procs]
    /\ \A p \in Procs : asked[p] # {} => p \in listens
    /\ answered \subseteq Procs /\ overlap \in BOOLEAN

\* As long as no start met another start or an end, crashes and reused pids
\* never lead to two panels (main.cpp:38).
OneInstance ==
    ~overlap => \A p, q \in Procs : pc[p] = "run" /\ pc[q] = "run" => p = q

\* And the panel that runs is the one both files lead to, so that the next
\* start finds it.
InstanceCanBeFound ==
    ~overlap => \A p \in Procs : pc[p] = "run" => pidFile = p /\ socket = p

\* Whoever starts the panel gets to see one, its own or the one that runs,
\* unless it is killed or the one that it asked ends before it looks.
StartsShowAWindow ==
    \A p \in Procs :
        pc[p] \in Starting
            ~> pc[p] \in {"run", "killed"} \/ p \in answered \/ overlap

\* main.cpp:42 "We are the first instance": what OneInstance says without its
\* premise, which is not so.
FirstInstance ==
    \A p, q \in Procs : pc[p] = "bind" /\ pc[q] = "run" => p = q
=============================================================================

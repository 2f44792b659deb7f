--------------------------- MODULE PidLock_proofs ---------------------------
(***************************************************************************)
(* Proofs about the pid lock for any number of processes and users.  LInv  *)
(* says which part of the file the process in acquire_pid_lock can rely on *)
(* at each of its steps as long as no two starts overlap and no call       *)
(* fails, and counts the daemons against the files that others removed.    *)
(***************************************************************************)
EXTENDS PidLock, FiniteSetTheorems, TLAPS

Holders == {p \in Processes : pc[p] \in Inside}

\* 1 if the creator of the file that is there is past the lock
Named == IF creator # None /\ pc[creator] \in Inside THEN 1 ELSE 0

\* Only one process is in acquire_pid_lock.
OneAcquires ==
    \A p, q \in Processes : pc[p] \in Acquiring /\ pc[q] \in Acquiring => p = q

\* Who is past the lock created the file, if nobody else removed one.
FileIsTheirs ==
    /\ \A p \in Processes : pc[p] = "write" => creator \in {p, None}
    /\ removals = 0 => \A p \in Holders : creator = p

\* The file of a daemon is its user's and, when the daemon runs, names it.
FileIsNamed ==
    creator # None /\ pc[creator] \in Inside
        => /\ owner = uid[creator]
           /\ pc[creator] = "running" => content = creator

\* What p read is still true of the daemon whose file is there, and p does not
\* get rid of it; once p went past "unlink" only another user's file is left.
ReadIsCurrent ==
    \A p \in Processes :
        /\ creator # None /\ pc[creator] = "running" =>
               /\ pc[p] = "check" => old[p] = creator
               /\ pc[p] = "unlink" => ~MayRemove(p)
        /\ pc[p] = "createAgain" /\ creator # None => ~MayRemove(p)

\* Each removal costs at most one daemon its file.
Counted == Cardinality(Holders) <= removals + Named

InOrder == ~overlapped /\ ~failed

LInv == /\ TypeOK
        /\ InOrder => /\ OneAcquires /\ FileIsTheirs /\ FileIsNamed
                      /\ ReadIsCurrent /\ Counted

\* One step of any process.
Does(p) == \/ Acquire(p) \/ Release(p) \/ Crash(p)
           \/ OtherStarts(p) \/ OtherEnds(p)

LEMMA HoldersFinite == IsFiniteSet(Holders) /\ Cardinality(Holders) \in Nat
<1>1. Holders \subseteq Processes
  BY DEF Holders
<1> QED
  BY <1>1, LockAssumption, FS_Subset, FS_CardinalityType

LEMMA LInvInit == Init => LInv
<1> SUFFICES ASSUME Init PROVE LInv
  OBVIOUS
<1> USE LockAssumption
<1>1. TypeOK
  BY DEF Init, TypeOK, PCs
<1>2. Holders = {}
  BY DEF Init, Holders, Inside
<1>3. Counted
  <2>1. Cardinality(Holders) = 0
    BY <1>2, FS_EmptySet
  <2> QED
    BY <2>1 DEF Counted, Init, Named
<1>4. OneAcquires /\ FileIsTheirs /\ FileIsNamed /\ ReadIsCurrent
  BY <1>2 DEF Init, OneAcquires, FileIsTheirs, FileIsNamed, ReadIsCurrent,
     Acquiring, NotK4wd, Gone, PCs, Inside
<1> QED
  BY <1>1, <1>3, <1>4 DEF LInv

\* The variables keep to their types.
LEMMA TypeStep ==
    ASSUME TypeOK, [Next]_vars
    PROVE  TypeOK'
<1> USE LockAssumption
<1>0. CASE UNCHANGED vars
  BY <1>0 DEF vars, file, history, TypeOK
<1>1. CASE RemoveByOthers
  <2>1. removals' \in Nat
    BY <1>1 DEF RemoveByOthers, TypeOK
  <2> QED
    BY <1>1, <2>1 DEF RemoveByOthers, TypeOK
<1>2. ASSUME NEW p \in Processes, Does(p)
      PROVE  TypeOK'
  <2> USE DEF TypeOK, file, history
  <2>1. CASE Start(p) \/ OtherStarts(p)
    BY <2>1 DEF Start, OtherStarts, Appear, PCs
  <2>2. CASE Create(p) \/ CreateAgain(p)
    <3>1. /\ pc' \in [Processes -> PCs] /\ uid' \in [Processes -> Users]
          /\ owner' \in Users
      BY <2>2 DEF Create, CreateAgain, Goto, Become, CreateFile, PCs
    <3>2. /\ creator' \in Processes \cup {None}
          /\ content' \in Processes \cup {None}
          /\ creator' = None => content' = None
      BY <2>2 DEF Create, CreateAgain, CreateFile
    <3> QED
      BY <2>2, <3>1, <3>2 DEF Create, CreateAgain
  <2>3. CASE OpenFails(p)
    BY <2>3 DEF OpenFails, Goto, Become, PCs
  <2>8. CASE ReadOld(p)
    BY <2>8 DEF ReadOld, Goto, Become, PCs
  <2>9. CASE ReadFails(p)
    <3>1. failed' \in BOOLEAN
      BY <2>9 DEF ReadFails
    <3>2. /\ pc' \in [Processes -> PCs] /\ uid' \in [Processes -> Users]
      BY <2>9 DEF ReadFails, Goto, Become, PCs
    <3> QED
      BY <2>9, <3>1, <3>2 DEF ReadFails
  <2>4. CASE Check(p)
    BY <2>4 DEF Check, Goto, Become, PCs
  <2>5. CASE UnlinkStale(p) \/ Release(p)
    BY <2>5 DEF UnlinkStale, Release, Unlink, Goto, Become, PCs
  <2>6. CASE WritePid(p)
    BY <2>6 DEF WritePid, Goto, Become, PCs
  <2>7. CASE Crash(p) \/ OtherEnds(p)
    BY <2>7 DEF Crash, OtherEnds, Goto, Become, PCs
  <2> QED
    BY <1>2, <2>1, <2>2, <2>3, <2>4, <2>5, <2>6, <2>7, <2>8, <2>9
       DEF Does, Acquire
<1> QED
  BY <1>0, <1>1, <1>2 DEF Next, Does

\* A history that is out of order stays so.
LEMMA OrderStep ==
    ASSUME TypeOK, [Next]_vars, InOrder'
    PROVE  InOrder
<1>1. overlapped => overlapped'
  BY DEF TypeOK, vars, history, Next, Acquire, Start, Create, OpenFails,
     ReadOld, ReadFails, Check, UnlinkStale, CreateAgain, WritePid, Release,
     Crash, OtherStarts, OtherEnds, RemoveByOthers
<1>2. failed => failed'
  BY DEF TypeOK, vars, history, Next, Acquire, Start, Create, OpenFails,
     ReadOld, ReadFails, Check, UnlinkStale, CreateAgain, WritePid, Release,
     Crash, OtherStarts, OtherEnds, RemoveByOthers, Appear
<1> QED
  BY <1>1, <1>2 DEF InOrder

\* What does not count keeps from step to step.
LEMMA FileStep ==
    ASSUME LInv, [Next]_vars, InOrder, InOrder'
    PROVE  (OneAcquires /\ FileIsTheirs /\ FileIsNamed /\ ReadIsCurrent)'
<1> USE LockAssumption DEF LInv
<1>t. TypeOK'
  BY TypeStep
<1> USE DEF Holders, Inside
<1>0. CASE UNCHANGED vars
  BY <1>0 DEF vars, file, history, OneAcquires, FileIsTheirs, FileIsNamed,
     ReadIsCurrent, MayRemove
<1>1. CASE RemoveByOthers
  BY <1>1 DEF RemoveByOthers, OneAcquires, FileIsTheirs, FileIsNamed,
     ReadIsCurrent, TypeOK
<1>2. ASSUME NEW p \in Processes, Does(p)
      PROVE  (OneAcquires /\ FileIsTheirs /\ FileIsNamed /\ ReadIsCurrent)'
  <2> USE DEF TypeOK, OneAcquires, FileIsTheirs, FileIsNamed, ReadIsCurrent,
              MayRemove, PCs, Acquiring, NotK4wd, Gone, file, history,
              InOrder, Goto, Become
  <2>1. CASE Start(p)
    <3>1. \A q \in Processes : pc[q] \notin Acquiring
      BY <2>1 DEF Start
    <3>2. /\ pc' = [pc EXCEPT ![p] = "create"] /\ pc[p] \in Gone
          /\ UNCHANGED <<file, old, removals>>
          /\ \A q \in Processes \ {p} : uid'[q] = uid[q]
      BY <2>1 DEF Start, Appear
    <3>3. OneAcquires'
      BY <3>1, <3>2
    <3>4. FileIsTheirs' /\ FileIsNamed' /\ ReadIsCurrent'
      BY <3>1, <3>2
    <3> QED
      BY <3>3, <3>4
  <2>2. CASE OtherStarts(p)
    BY <2>2 DEF OtherStarts, Appear
  <2>3. CASE OtherEnds(p)
    BY <2>3 DEF OtherEnds
  <2>4. CASE Create(p)
    BY <2>4 DEF Create, FileExists, CreateFile
  <2>5. CASE OpenFails(p)
    BY <2>5 DEF OpenFails
  <2>6. CASE ReadOld(p)
    BY <2>6 DEF ReadOld, FileExists
  <2>7. CASE ReadFails(p)
    BY <2>7 DEF ReadFails, FileExists
  <2>8. CASE Check(p)
    BY <2>8 DEF Check, Alive
  <2>9. CASE UnlinkStale(p)
    BY <2>9 DEF UnlinkStale, Unlink
  <2>10. CASE CreateAgain(p)
    BY <2>10 DEF CreateAgain, FileExists, CreateFile
  <2>11. CASE WritePid(p)
    <3>1. /\ pc[p] = "write" /\ pc' = [pc EXCEPT ![p] = "running"]
          /\ content' = IF creator = p THEN p ELSE content
          /\ UNCHANGED <<uid, creator, owner, old, removals>>
      BY <2>11 DEF WritePid
    <3>2. OneAcquires' /\ FileIsTheirs'
      BY <3>1
    <3>3. FileIsNamed'
      BY <3>1
    <3>4. ReadIsCurrent'
      BY <3>1
    <3> QED
      BY <3>2, <3>3, <3>4
  <2>12. CASE Release(p)
    BY <2>12 DEF Release, Unlink
  <2>13. CASE Crash(p)
    BY <2>13 DEF Crash
  <2> QED
    BY <1>2, <2>1, <2>2, <2>3, <2>4, <2>5, <2>6, <2>7, <2>8, <2>9, <2>10,
       <2>11, <2>12, <2>13 DEF Does, Acquire
<1> QED
  BY <1>0, <1>1, <1>2 DEF Next, Does

\* Steps in which nobody comes past the lock or leaves, and the daemon whose
\* file is there keeps it.
LEMMA SameCount ==
    ASSUME LInv, InOrder, TypeOK',
           \A p \in Processes : pc'[p] \in Inside <=> pc[p] \in Inside,
           creator # None /\ pc[creator] \in Inside => creator' = creator,
           removals' = removals
    PROVE  Counted'
<1>1. Holders' = Holders
  BY DEF Holders
<1>2. Named <= Named'
  BY DEF Named, LInv, TypeOK
<1>3. Named \in Nat /\ Named' \in Nat /\ removals \in Nat
  BY DEF Named, LInv, TypeOK
<1>4. Cardinality(Holders) <= removals + Named
  BY DEF LInv, Counted
<1>5. Cardinality(Holders) <= removals' + Named'
  BY <1>2, <1>3, <1>4, HoldersFinite
<1> QED
  BY <1>1, <1>5 DEF Counted

\* Steps in which p comes past the lock, with a file of its own.
LEMMA OneMore ==
    ASSUME LInv, InOrder, NEW p \in Processes,
           pc[p] \notin Inside, creator = None,
           pc' = [pc EXCEPT ![p] = "write"], creator' = p,
           removals' = removals
    PROVE  Counted'
<1>1. Holders' = Holders \cup {p} /\ p \notin Holders
  BY DEF Holders, LInv, TypeOK, Inside
<1>2. Cardinality(Holders') = Cardinality(Holders) + 1
  BY <1>1, HoldersFinite, FS_AddElement
<1>3. Named = 0 /\ Named' = 1
  BY LockAssumption DEF Named, LInv, TypeOK, Inside
<1>4. Cardinality(Holders) <= removals + Named /\ removals \in Nat
  BY DEF LInv, Counted, TypeOK
<1>5. Cardinality(Holders') <= removals' + Named'
  BY <1>2, <1>3, <1>4, HoldersFinite
<1> QED
  BY <1>5 DEF Counted

\* Steps in which p leaves.
LEMMA OneLess ==
    ASSUME LInv, InOrder, NEW p \in Processes, pc[p] \in Inside,
           pc' = [pc EXCEPT ![p] = "off"], removals' = removals
    PROVE  Counted'
<1>1. Holders' = Holders \ {p} /\ p \in Holders
  BY DEF Holders, LInv, TypeOK, Inside
<1>2. Cardinality(Holders') = Cardinality(Holders) - 1
  BY <1>1, HoldersFinite, FS_RemoveElement
<1>3. Named \in 0..1 /\ Named' \in 0..1
  BY DEF Named
<1>4. Cardinality(Holders) <= removals + Named /\ removals \in Nat
  BY DEF LInv, Counted, TypeOK
<1>5. Cardinality(Holders') <= removals' + Named'
  BY <1>2, <1>3, <1>4, HoldersFinite
<1> QED
  BY <1>5 DEF Counted

LEMMA CountStep ==
    ASSUME LInv, [Next]_vars, InOrder, InOrder'
    PROVE  Counted'
<1> USE LockAssumption
<1>t. TypeOK /\ TypeOK'
  BY TypeStep DEF LInv
<1>0. CASE UNCHANGED vars
  <2> SUFFICES /\ \A p \in Processes : pc'[p] \in Inside <=> pc[p] \in Inside
               /\ creator' = creator /\ removals' = removals
    BY <1>t, SameCount
  <2> QED
    BY <1>0 DEF vars, file, history
<1>1. CASE RemoveByOthers
  <2>1. pc' = pc /\ creator' = None /\ creator # None
    BY <1>1 DEF RemoveByOthers, FileExists
  <2>2. CASE pc[creator] \in Inside
    <3>1. Holders' = Holders /\ Named = 1 /\ Named' = 0
      BY <2>1, <2>2 DEF Holders, Named
    <3>2. removals' = removals + 1
      BY <1>1, <2>2 DEF RemoveByOthers
    <3>3. Cardinality(Holders) <= removals' + 0
      BY <1>t, <3>1, <3>2, HoldersFinite DEF LInv, Counted, TypeOK
    <3> QED
      BY <3>1, <3>3 DEF Counted
  <2>3. CASE pc[creator] \notin Inside
    <3>1. removals' = removals
      BY <1>1, <2>3 DEF RemoveByOthers
    <3> QED
      BY <1>t, <2>1, <2>3, <3>1, SameCount
  <2> QED
    BY <2>2, <2>3
<1>2. ASSUME NEW p \in Processes, Does(p)
      PROVE  Counted'
  <2>1. removals' = removals
    BY <1>2 DEF Does, Acquire, Start, Create, OpenFails, ReadOld, ReadFails,
       Check, UnlinkStale, CreateAgain, WritePid, Release, Crash,
       OtherStarts, OtherEnds, Appear, history
  <2>2. CASE /\ Create(p) \/ CreateAgain(p)
             /\ ~FileExists
    <3>1. /\ pc[p] \notin Inside /\ creator = None /\ creator' = p
          /\ pc' = [pc EXCEPT ![p] = "write"]
      BY <2>2 DEF Create, CreateAgain, FileExists, CreateFile, Goto, Become,
         Inside
    <3> QED
      BY <2>1, <3>1, OneMore
  <2>3. CASE Release(p) \/ (Crash(p) /\ pc[p] \in Inside)
    <3>1. pc[p] \in Inside /\ pc' = [pc EXCEPT ![p] = "off"]
      BY <2>3 DEF Release, Crash, Goto, Become, Inside
    <3> QED
      BY <2>1, <3>1, OneLess
  <2>4. CASE UnlinkStale(p)
    <3>1. pc[p] = "unlink" /\ pc' = [pc EXCEPT ![p] = "createAgain"]
      BY <2>4 DEF UnlinkStale, Goto, Become
    <3>2. ASSUME creator # None, pc[creator] \in Inside
          PROVE  creator' = creator
      <4>1. pc[creator] = "running"
        BY <1>t, <3>1, <3>2 DEF LInv, TypeOK, OneAcquires, Inside, Acquiring,
           PCs, NotK4wd, Gone
      <4>2. ~MayRemove(p)
        BY <3>1, <3>2, <4>1 DEF LInv, ReadIsCurrent
      <4> QED
        BY <2>4, <4>2 DEF UnlinkStale, Unlink, file
    <3>3. \A q \in Processes : pc'[q] \in Inside <=> pc[q] \in Inside
      BY <1>t, <3>1 DEF TypeOK, Inside
    <3> QED
      BY <1>t, <2>1, <3>2, <3>3, SameCount
  <2>5. CASE /\ ~((Create(p) \/ CreateAgain(p)) /\ ~FileExists)
             /\ ~(Release(p) \/ (Crash(p) /\ pc[p] \in Inside))
             /\ ~UnlinkStale(p)
    <3>1. creator' = creator
      BY <1>2, <2>5 DEF Does, Acquire, Start, Create, OpenFails, ReadOld,
         ReadFails, Check, CreateAgain, WritePid, Crash, OtherStarts,
         OtherEnds, Appear, file
    <3>2. \E x \in PCs : /\ pc' = [pc EXCEPT ![p] = x]
                         /\ x \in Inside <=> pc[p] \in Inside
      BY <1>2, <2>5 DEF Does, Acquire, Start, Create, OpenFails, ReadOld,
         ReadFails, Check, CreateAgain, WritePid, Crash, OtherStarts,
         OtherEnds, Appear, Goto, Become, Inside, PCs, Gone
    <3>3. \A q \in Processes : pc'[q] \in Inside <=> pc[q] \in Inside
      <4>1. PICK x \in PCs : /\ pc' = [pc EXCEPT ![p] = x]
                             /\ x \in Inside <=> pc[p] \in Inside
        BY <3>2
      <4>2. pc'[p] = x /\ \A q \in Processes \ {p} : pc'[q] = pc[q]
        BY <1>t, <4>1 DEF TypeOK
      <4> QED
        BY <4>1, <4>2
    <3> QED
      BY <1>t, <2>1, <3>1, <3>3, SameCount
  <2> QED
    BY <2>2, <2>3, <2>4, <2>5
<1> QED
  BY <1>0, <1>1, <1>2 DEF Next, Does

LEMMA LInvStep ==
    ASSUME LInv, [Next]_vars
    PROVE  LInv'
<1>1. TypeOK'
  BY TypeStep DEF LInv
<1>2. ASSUME InOrder'
      PROVE  /\ (OneAcquires /\ FileIsTheirs /\ FileIsNamed)'
             /\ (ReadIsCurrent /\ Counted)'
  <2>1. InOrder
    BY <1>2, OrderStep DEF LInv
  <2> QED
    BY <1>2, <2>1, FileStep, CountStep
<1> QED
  BY <1>1, <1>2 DEF LInv

-----------------------------------------------------------------------------
\* LInv holds in every behaviour of the lock (main.c:46-80).
THEOREM LockInvariant == Spec => []LInv
<1> QED
  BY LInvInit, LInvStep, PTL DEF Spec

\* Every daemon beyond the first is owed to the removal of a living daemon's
\* file, as the panel and k4wd.service do it, unless two starts overlapped or
\* a call failed: neither crashes nor reused pids nor the mixture of root's and
\* the user's k4wd bring a second one (main.c:46-80).
THEOREM DaemonsAreCounted == Spec => []DaemonsCounted
<1>1. LInv => DaemonsCounted
  <2> SUFFICES ASSUME LInv, InOrder PROVE Cardinality(Running) <= 1 + removals
    BY DEF DaemonsCounted, InOrder
  <2>1. Running \subseteq Holders
    BY DEF Running, Holders, Inside
  <2>2. /\ Cardinality(Running) \in Nat
        /\ Cardinality(Running) <= Cardinality(Holders)
    BY <2>1, HoldersFinite, FS_Subset, FS_CardinalityType
  <2>3. Cardinality(Holders) <= removals + Named /\ removals \in Nat
    BY DEF LInv, Counted, TypeOK
  <2>4. Named \in 0..1
    BY DEF Named
  <2> QED
    BY <2>2, <2>3, <2>4, HoldersFinite
<1> QED
  BY <1>1, LockInvariant, PTL

\* As long as no file of a living daemon was removed, no starts overlapped and
\* no call failed, the file names the running daemon, so the GUI signals the
\* right process.
THEOREM FileIsRight == Spec => []FileNamesDaemon
<1>1. LInv => FileNamesDaemon
  <2> SUFFICES ASSUME LInv, InOrder, removals = 0, NEW p \in Running
               PROVE  creator = p /\ content = p
    BY DEF FileNamesDaemon, InOrder
  <2>1. p \in Holders /\ p \in Processes /\ pc[p] = "running"
    BY DEF Running, Holders, Inside
  <2>2. creator = p
    BY <2>1 DEF LInv, FileIsTheirs
  <2> QED
    BY <2>1, <2>2, LockAssumption DEF LInv, FileIsNamed, Inside
<1> QED
  BY <1>1, LockInvariant, PTL

\* Unless two starts overlapped or a call failed, a start is refused only while
\* a daemon runs, because the pid in the file has come to life again, or for
\* another user's file (main.c:55-64).
THEOREM RefusalIsRight == Spec => RefusedForAReason
<1>1. ASSUME LInv, [Next]_vars
      PROVE  [~overlapped' /\ ~failed' =>
                  \A p \in Processes :
                      pc[p] # "refused" /\ pc'[p] = "refused"
                          => \/ Running # {}
                             \/ pc[p] = "check" /\ old[p] = p
                             \/ pc[p] = "check" /\ pc[old[p]] = "other"
                             \/ pc[p] = "createAgain" /\ ~MayRemove(p)]_vars
  <2> SUFFICES ASSUME Next, InOrder', NEW p \in Processes,
                      pc[p] # "refused", pc'[p] = "refused"
               PROVE  \/ Running # {}
                      \/ pc[p] = "check" /\ old[p] = p
                      \/ pc[p] = "check" /\ pc[old[p]] = "other"
                      \/ pc[p] = "createAgain" /\ ~MayRemove(p)
    BY <1>1 DEF InOrder
  <2> USE LockAssumption, <1>1
  <2>1. TypeOK /\ InOrder
    BY OrderStep DEF LInv
  <2>2. PICK q \in Processes : Does(q)
    BY DEF Next, Does, RemoveByOthers
  <2>3. Check(q) \/ CreateAgain(q)
    BY <2>1, <2>2 DEF Does, Acquire, Start, Create, OpenFails, ReadOld,
       ReadFails, UnlinkStale, WritePid, Release, Crash, OtherStarts,
       OtherEnds, Appear, Goto, Become, TypeOK, InOrder
  <2>4. p = q
    BY <2>1, <2>3 DEF Check, CreateAgain, Goto, Become, TypeOK
  <2>5. CASE CreateAgain(p)
    <3>1. pc[p] = "createAgain" /\ creator # None
      BY <2>1, <2>5 DEF CreateAgain, FileExists, Goto, Become, TypeOK
    <3> QED
      BY <2>1, <3>1 DEF LInv, ReadIsCurrent
  <2>6. CASE Check(p)
    <3>1. pc[p] = "check" /\ Alive(p, old[p])
      BY <2>1, <2>6 DEF Check, Goto, Become, TypeOK
    <3>2. old[p] \in Processes /\ pc[old[p]] \notin Gone
      BY <2>1, <3>1 DEF Alive, TypeOK
    <3>3. old[p] # p => pc[old[p]] \notin Acquiring
      BY <2>1, <3>1, <3>2 DEF LInv, OneAcquires, Acquiring, PCs, NotK4wd, Gone
    <3>4. \/ old[p] = p \/ pc[old[p]] = "other" \/ pc[old[p]] = "running"
      BY <2>1, <3>2, <3>3 DEF Acquiring, PCs, NotK4wd, TypeOK
    <3> QED
      BY <3>1, <3>2, <3>4 DEF Running
  <2> QED
    BY <2>3, <2>4, <2>5, <2>6
<1> QED
  BY <1>1, LockInvariant, PTL DEF Spec, RefusedForAReason

-----------------------------------------------------------------------------
(* Starts that overlap.  As long as nothing goes, somebody who was refused *)
(* leaves somebody behind who is still there or is still to come.          *)

Active == {p \in Processes : pc[p] \notin NotK4wd}

\* Once a file was unlinked, the next one is of a process that gets in.
NewFile ==
    \A p \in Processes :
        pc[p] = "createAgain" /\ creator # None => pc[creator] \in Inside

SInv == /\ TypeOK
        /\ quiet => NewFile
        /\ quiet /\ ~failed /\ (\E p \in Processes : pc[p] = "refused")
               => Active # {}

LEMMA SInvStep ==
    ASSUME SInv, [Next]_vars
    PROVE  SInv'
<1> USE LockAssumption
<1>t. TypeOK /\ TypeOK'
  BY TypeStep DEF SInv
<1>0. CASE UNCHANGED vars
  BY <1>0 DEF vars, file, history, SInv, TypeOK, NewFile, Active
<1>1. CASE RemoveByOthers
  BY <1>1, <1>t DEF RemoveByOthers, SInv
<1>2. ASSUME NEW p \in Processes, Does(p)
      PROVE  SInv'
  <2> USE DEF SInv
  <2>1. quiet' => quiet
    BY <1>2 DEF Does, Acquire, Start, Create, OpenFails, ReadOld, ReadFails,
       Check, UnlinkStale, CreateAgain, WritePid, Release, Crash,
       OtherStarts, OtherEnds, Appear, history, TypeOK
  <2>2. failed => failed'
    BY <1>2 DEF Does, Acquire, Start, Create, OpenFails, ReadOld, ReadFails,
       Check, UnlinkStale, CreateAgain, WritePid, Release, Crash,
       OtherStarts, OtherEnds, Appear, history, TypeOK
  <2>3. quiet' => NewFile'
    <3> USE <1>2, <1>t, <2>1 DEF NewFile, TypeOK, Goto, Become, file, history,
            PCs, Gone, Inside
    <3>1. CASE Start(p) \/ OtherStarts(p) \/ OtherEnds(p)
      BY <3>1 DEF Start, OtherStarts, OtherEnds, Appear
    <3>2. CASE Create(p) \/ CreateAgain(p)
      BY <3>2 DEF Create, CreateAgain, FileExists, CreateFile
    <3>3. CASE OpenFails(p) \/ ReadOld(p) \/ ReadFails(p) \/ Check(p)
      BY <3>3 DEF OpenFails, ReadOld, ReadFails, Check
    <3>4. CASE UnlinkStale(p)
      BY <3>4 DEF UnlinkStale, Unlink, FileExists, MayRemove
    <3>5. CASE WritePid(p)
      BY <3>5 DEF WritePid
    <3>6. CASE Release(p) \/ Crash(p)
      BY <3>6 DEF Release, Crash
    <3> QED
      BY <1>2, <3>1, <3>2, <3>3, <3>4, <3>5, <3>6 DEF Does, Acquire
  <2>4. ASSUME quiet', ~failed', \E q \in Processes : pc'[q] = "refused"
        PROVE  \E q \in Processes : pc'[q] \notin NotK4wd
    <3> USE <1>t, <2>1, <2>2, <2>4 DEF TypeOK, Goto, Become, NotK4wd, Gone,
            Active, Inside
    <3>1. CASE Check(p)
      BY <3>1 DEF Check, Alive
    <3>2. CASE CreateAgain(p)
      BY <3>2 DEF CreateAgain, FileExists, NewFile
    <3>3. CASE Start(p) \/ OtherStarts(p) \/ OtherEnds(p)
      BY <3>3 DEF Start, OtherStarts, OtherEnds, Appear
    <3>4. CASE \/ Create(p) \/ ReadOld(p) \/ ReadFails(p) \/ UnlinkStale(p)
               \/ WritePid(p)
      BY <3>4 DEF Create, ReadOld, ReadFails, UnlinkStale, WritePid
    <3>5. CASE OpenFails(p) \/ Release(p) \/ Crash(p)
      BY <3>5 DEF OpenFails, Release, Crash
    <3> QED
      BY <1>2, <3>1, <3>2, <3>3, <3>4, <3>5 DEF Does, Acquire
  <2> QED
    BY <1>t, <2>3, <2>4 DEF Active
<1> QED
  BY <1>0, <1>1, <1>2 DEF Next, Does

\* However many starts overlap, they do not all refuse to run because of each
\* other (main.c:46-70).
THEOREM SomeoneRuns == Spec => []SomeoneGetsIn
<1>1. Init => SInv
  BY LInvInit DEF LInv, Init, SInv, NewFile
<1>2. SInv => SomeoneGetsIn
  BY DEF SInv, SomeoneGetsIn, Active, Running, Acquiring, NotK4wd, Gone, PCs,
     TypeOK
<1> QED
  BY <1>1, <1>2, SInvStep, PTL DEF Spec
=============================================================================

-------------------------- MODULE Lifecycle_proofs --------------------------
(***************************************************************************)
(* The firmware upload by itself, for every length of the image and of a   *)
(* page, and the life of k4wd that it is a part of: any number of starts,  *)
(* crashes, modules and pushed frames.                                     *)
(*                                                                         *)
(* UploadInv says, statement by statement, what is open, what the          *)
(* bootloader stores and which data it still waits for, as far as the      *)
(* handle reaches it.  LifeInv has one part for each thing main() sets up  *)
(* and tears down, and every part ties it to the place where main() is.    *)
(***************************************************************************)
EXTENDS Lifecycle, TLAPS

Early == {"probe", "openFile", "openBoot", "claim", "greet", "reopen",
          "checkUac"}

HeldInv ==
    /\ fwPC \in {"probe", "openFile", "settle", "reopen", "done"} => held = {}
    /\ fwPC = "openBoot" => held = {"file"}
    /\ fwPC = "claim" => held = {"file", "context", "handle"}
    /\ fwPC \in {"greet", "read", "command", "data", "launch", "cleanUp"}
           => held = Holdings
    /\ fwPC = "checkUac" => held = {"context"}

EarlyInv ==
    fwPC \in Early =>
        /\ memory = {} /\ expecting = 0 /\ offset = 0 /\ addr = 0
        /\ ~launched /\ ~outOfStep /\ ~misled

PagesInv ==
    fwPC \in {"read", "command", "data"} =>
        /\ addr = offset /\ ~misled /\ ~outOfStep
        /\ fwPC = "read" /\ attached
               => memory = Prefix(offset) /\ expecting = 0
        /\ fwPC \in {"command", "data"}
               => page > 0 /\ offset + page <= ImageChunks
        /\ fwPC = "command" => sent = 0
        /\ fwPC = "command" /\ attached
               => memory = Prefix(offset) /\ expecting = 0
        /\ fwPC = "data" => sent <= page
        /\ fwPC = "data" /\ attached
               => memory = Prefix(offset + sent) /\ expecting = page - sent

LaunchInv ==
    fwPC = "launch" =>
        /\ attached => memory = Prefix(offset)
        /\ attached /\ expecting > 0 => misled
        /\ offset < ImageChunks => cut
        /\ ~outOfStep

Results ==
    /\ fwResult # "none" => fwPC = "done"
    /\ launched => fwPC \in {"cleanUp", "settle", "done"}

UploadInv ==
    /\ FirmwareTyped /\ HeldInv
    /\ Results /\ EarlyInv /\ PagesInv /\ LaunchInv
    /\ LaunchedImageHasNoHole /\ HostKeepsStep /\ FailureTouchedNothing

-----------------------------------------------------------------------------
LEMMA PrefixGrows ==
    ASSUME NEW n \in Nat
    PROVE  Prefix(n + 1) = Prefix(n) \cup {<<n, n>>}
<1>1. 0..(n + 1 - 1) = (0..(n - 1)) \cup {n}
  OBVIOUS
<1> QED
  BY <1>1 DEF Prefix

LEMMA NoPrefix == Prefix(0) = {}
<1>1. 0..(0 - 1) = {}
  OBVIOUS
<1> QED
  BY <1>1 DEF Prefix

LEMMA InitUpload == FirmwareInit => UploadInv
<1> SUFFICES ASSUME FirmwareInit PROVE UploadInv
  OBVIOUS
<1> USE DEF FirmwareInit
<1>1. FirmwareTyped
  <2>1. memory \subseteq (0..(ImageChunks - 1)) \X (0..(ImageChunks - 1))
    OBVIOUS
  <2>2. held \subseteq Holdings /\ fwPC \in FwPCs
    BY DEF FwPCs
  <2>3. expecting \in 0..PageChunks /\ offset \in 0..ImageChunks
    BY FirmwareAssumption
  <2>4. page \in 0..PageChunks /\ sent \in 0..PageChunks /\ addr \in Nat
    BY FirmwareAssumption
  <2> QED
    BY <2>1, <2>2, <2>3, <2>4 DEF FirmwareTyped
<1>2. HeldInv
  BY DEF HeldInv
<1>3. EarlyInv /\ PagesInv /\ LaunchInv
  BY DEF EarlyInv, PagesInv, LaunchInv, Early
<1>4. /\ Results /\ LaunchedImageHasNoHole /\ HostKeepsStep
      /\ FailureTouchedNothing
  BY DEF Results, LaunchedImageHasNoHole, HostKeepsStep, FailureTouchedNothing
<1> QED
  BY <1>1, <1>2, <1>3, <1>4 DEF UploadInv

LEMMA OpeningKeeps == UploadInv /\ Opening => UploadInv'
<1> SUFFICES ASSUME UploadInv, Opening PROVE UploadInv'
  OBVIOUS
<1> USE DEF UploadInv, FwGoto, Opens, Refuse
<1>1. CASE Probe
  <2> USE <1>1 DEF Probe
  <2>1. FirmwareTyped'
    BY FirmwareAssumption DEF FirmwareTyped, FwPCs, Holdings, EarlyInv,
       PagesInv, LaunchInv, Early
  <2>2. HeldInv'
    BY DEF HeldInv, Holdings
  <2>3. Results'
    BY DEF Results, Early, EarlyInv
  <2>4. EarlyInv' /\ PagesInv' /\ LaunchInv'
    BY FirmwareAssumption DEF FirmwareTyped, FwPCs, Holdings, EarlyInv,
       PagesInv, LaunchInv, Early, Results
  <2>5. LaunchedImageHasNoHole' /\ HostKeepsStep' /\ FailureTouchedNothing'
    BY DEF EarlyInv, PagesInv, LaunchInv, Early, Results,
       LaunchedImageHasNoHole, HostKeepsStep, FailureTouchedNothing
  <2> QED
    BY <2>1, <2>2, <2>3, <2>4, <2>5 DEF UploadInv
<1>2. CASE OpenFile
  <2> USE <1>2 DEF OpenFile
  <2>1. FirmwareTyped'
    BY FirmwareAssumption DEF FirmwareTyped, FwPCs, Holdings, EarlyInv,
       PagesInv, LaunchInv, Early
  <2>2. HeldInv'
    BY DEF HeldInv, Holdings
  <2>3. Results'
    BY DEF Results, Early, EarlyInv
  <2>4. EarlyInv' /\ PagesInv' /\ LaunchInv'
    BY FirmwareAssumption DEF FirmwareTyped, FwPCs, Holdings, EarlyInv,
       PagesInv, LaunchInv, Early, Results
  <2>5. LaunchedImageHasNoHole' /\ HostKeepsStep' /\ FailureTouchedNothing'
    BY DEF EarlyInv, PagesInv, LaunchInv, Early, Results,
       LaunchedImageHasNoHole, HostKeepsStep, FailureTouchedNothing
  <2> QED
    BY <2>1, <2>2, <2>3, <2>4, <2>5 DEF UploadInv
<1>3. CASE OpenBoot
  <2> USE <1>3 DEF OpenBoot
  <2>1. FirmwareTyped'
    BY FirmwareAssumption DEF FirmwareTyped, FwPCs, Holdings, EarlyInv,
       PagesInv, LaunchInv, Early
  <2>2. HeldInv'
    BY DEF HeldInv, Holdings
  <2>3. Results'
    BY DEF Results, Early, EarlyInv
  <2>4. EarlyInv' /\ PagesInv' /\ LaunchInv'
    BY FirmwareAssumption DEF FirmwareTyped, FwPCs, Holdings, EarlyInv,
       PagesInv, LaunchInv, Early, Results
  <2>5. LaunchedImageHasNoHole' /\ HostKeepsStep' /\ FailureTouchedNothing'
    BY DEF EarlyInv, PagesInv, LaunchInv, Early, Results,
       LaunchedImageHasNoHole, HostKeepsStep, FailureTouchedNothing
  <2> QED
    BY <2>1, <2>2, <2>3, <2>4, <2>5 DEF UploadInv
<1>4. CASE ClaimInterface
  <2> USE <1>4 DEF ClaimInterface
  <2>1. FirmwareTyped'
    BY FirmwareAssumption DEF FirmwareTyped, FwPCs, Holdings, EarlyInv,
       PagesInv, LaunchInv, Early
  <2>2. HeldInv'
    BY DEF HeldInv, Holdings
  <2>3. Results'
    BY DEF Results, Early, EarlyInv
  <2>4. EarlyInv' /\ PagesInv' /\ LaunchInv'
    BY FirmwareAssumption DEF FirmwareTyped, FwPCs, Holdings, EarlyInv,
       PagesInv, LaunchInv, Early, Results
  <2>5. LaunchedImageHasNoHole' /\ HostKeepsStep' /\ FailureTouchedNothing'
    BY DEF EarlyInv, PagesInv, LaunchInv, Early, Results,
       LaunchedImageHasNoHole, HostKeepsStep, FailureTouchedNothing
  <2> QED
    BY <2>1, <2>2, <2>3, <2>4, <2>5 DEF UploadInv
<1> QED
  BY <1>1, <1>2, <1>3, <1>4 DEF Opening

LEMMA UploadingKeeps == UploadInv /\ Uploading => UploadInv'
<1> SUFFICES ASSUME UploadInv, Uploading PROVE UploadInv'
  OBVIOUS
<1> USE DEF UploadInv, FwGoto, Transfer, CommandArrives, device,
    uploadVars
<1>1. CASE Greet
  <2> USE <1>1 DEF Greet
  <2>1. FirmwareTyped'
    BY FirmwareAssumption DEF FirmwareTyped, FwPCs, Holdings, EarlyInv,
       PagesInv, LaunchInv, Early
  <2>2. HeldInv'
    BY DEF HeldInv, Holdings
  <2>3. Results'
    BY DEF Results, Early, EarlyInv
  <2>4. EarlyInv' /\ PagesInv' /\ LaunchInv'
    BY FirmwareAssumption, NoPrefix DEF FirmwareTyped, FwPCs, Holdings,
       EarlyInv, PagesInv, LaunchInv, Early, Results
  <2>5. LaunchedImageHasNoHole' /\ HostKeepsStep' /\ FailureTouchedNothing'
    BY DEF EarlyInv, PagesInv, LaunchInv, Early, Results,
       LaunchedImageHasNoHole, HostKeepsStep, FailureTouchedNothing
  <2> QED
    BY <2>1, <2>2, <2>3, <2>4, <2>5 DEF UploadInv
<1>2. CASE ReadPage
  <2> USE <1>2 DEF ReadPage
  <2>1. FirmwareTyped'
    BY FirmwareAssumption DEF FirmwareTyped, FwPCs, Holdings, EarlyInv,
       PagesInv, LaunchInv, Early
  <2>2. HeldInv'
    BY DEF HeldInv, Holdings
  <2>3. Results'
    BY DEF Results, Early, EarlyInv
  <2>4. EarlyInv' /\ PagesInv' /\ LaunchInv'
    <3>1. EarlyInv'
      BY DEF EarlyInv, Early
    <3>2. PagesInv'
      BY FirmwareAssumption DEF FirmwareTyped, EarlyInv, PagesInv, Early
    <3>3. LaunchInv'
      <4>1. PICK n \in 0..PageChunks :
                /\ fwPC' = IF n = 0 THEN "launch" ELSE "command"
                /\ cut' = (cut \/ (n = 0 /\ offset < ImageChunks))
        OBVIOUS
      <4>2. fwPC' = "launch" => n = 0
        BY <4>1
      <4>3. fwPC' = "launch" /\ offset' < ImageChunks => cut'
        BY <4>1, <4>2
      <4>4. /\ attached' => memory' = Prefix(offset') /\ expecting' = 0
            /\ ~outOfStep'
        BY DEF PagesInv
      <4> QED
        BY <4>3, <4>4 DEF LaunchInv
    <3> QED
      BY <3>1, <3>2, <3>3
  <2>5. LaunchedImageHasNoHole' /\ HostKeepsStep' /\ FailureTouchedNothing'
    BY DEF EarlyInv, PagesInv, LaunchInv, Early, Results,
       LaunchedImageHasNoHole, HostKeepsStep, FailureTouchedNothing
  <2> QED
    BY <2>1, <2>2, <2>3, <2>4, <2>5 DEF UploadInv
<1>3. CASE PageCommand
  <2> USE <1>3 DEF PageCommand
  <2>1. FirmwareTyped'
    BY FirmwareAssumption DEF FirmwareTyped, FwPCs, Holdings, EarlyInv,
       PagesInv, LaunchInv, Early
  <2>2. HeldInv'
    BY DEF HeldInv, Holdings
  <2>3. Results'
    BY DEF Results, Early, EarlyInv
  <2>4. EarlyInv' /\ PagesInv' /\ LaunchInv'
    <3>1. EarlyInv'
      BY DEF EarlyInv, Early
    <3>2. PagesInv'
      BY FirmwareAssumption DEF FirmwareTyped, EarlyInv, PagesInv, Early
    <3>3. LaunchInv'
      <4>1. PICK ok \in BOOLEAN, arrives \in BOOLEAN :
                /\ misled' = (misled \/ (arrives /\ ~ok))
                /\ fwPC' = IF ok THEN "data" ELSE "launch"
                /\ cut' = (cut \/ ~ok)
                /\ arrives => outOfStep' = (outOfStep \/ expecting > 0)
                /\ arrives => attached
                /\ ~arrives => /\ outOfStep' = outOfStep
                               /\ expecting' = expecting
        OBVIOUS
      <4>2. fwPC' = "launch" => ~ok /\ cut'
        BY <4>1
      <4>3. attached' => memory' = Prefix(offset') /\ expecting = 0
        BY DEF PagesInv
      <4>4. attached' /\ expecting' > 0 => arrives
        BY <4>1, <4>3
      <4>5. fwPC' = "launch" /\ attached' /\ expecting' > 0 => misled'
        BY <4>1, <4>2, <4>4
      <4>6. ~outOfStep'
        <5>1. arrives => ~(expecting > 0)
          BY <4>1, <4>3
        <5>2. ~outOfStep
          BY DEF PagesInv
        <5> QED
          BY <4>1, <5>1, <5>2
      <4> QED
        BY <4>2, <4>3, <4>5, <4>6 DEF LaunchInv
    <3> QED
      BY <3>1, <3>2, <3>3
  <2>5. LaunchedImageHasNoHole' /\ HostKeepsStep' /\ FailureTouchedNothing'
    BY DEF EarlyInv, PagesInv, LaunchInv, Early, Results,
       LaunchedImageHasNoHole, HostKeepsStep, FailureTouchedNothing
  <2> QED
    BY <2>1, <2>2, <2>3, <2>4, <2>5 DEF UploadInv
<1>4. CASE SendChunk
  <2> USE <1>4 DEF SendChunk
  <2>1. FirmwareTyped'
    BY FirmwareAssumption DEF FirmwareTyped, FwPCs, Holdings, EarlyInv,
       PagesInv, LaunchInv, Early
  <2>2. HeldInv'
    BY DEF HeldInv, Holdings
  <2>3. Results'
    BY DEF Results, Early, EarlyInv
  <2>4. EarlyInv' /\ PagesInv' /\ LaunchInv'
    <3>1. EarlyInv'
      BY DEF EarlyInv, Early
    <3>2. PagesInv'
      <4>1. PICK ok \in BOOLEAN, arrives \in BOOLEAN :
                /\ ok => arrives
                /\ misled' = (misled \/ (arrives /\ ~ok))
                /\ fwPC' = IF ok THEN "data" ELSE "cleanUp"
                /\ sent' = IF ok THEN sent + 1 ELSE sent
                /\ arrives
                     => /\ memory' = memory
                                     \cup {<<addr + sent, offset + sent>>}
                        /\ expecting' = expecting - 1
        OBVIOUS
      <4>2. CASE ok
        <5>1. /\ fwPC' = "data" /\ sent' = sent + 1 /\ misled' = misled
              /\ memory' = memory \cup {<<offset + sent, offset + sent>>}
              /\ expecting' = expecting - 1
          BY <4>1, <4>2 DEF PagesInv, FirmwareTyped
        <5>2. /\ offset + sent \in Nat
              /\ offset + (sent + 1) = (offset + sent) + 1
          BY FirmwareAssumption DEF FirmwareTyped
        <5>3. attached => memory' = Prefix(offset + (sent + 1))
          BY <5>1, <5>2, PrefixGrows DEF PagesInv
        <5> QED
          BY <5>1, <5>3, FirmwareAssumption DEF PagesInv, FirmwareTyped
      <4>3. CASE ~ok
        BY <4>1, <4>3 DEF PagesInv
      <4> QED
        BY <4>2, <4>3
    <3>3. LaunchInv'
      BY FirmwareAssumption, PrefixGrows DEF FirmwareTyped, PagesInv,
         LaunchInv
    <3> QED
      BY <3>1, <3>2, <3>3
  <2>5. LaunchedImageHasNoHole' /\ HostKeepsStep' /\ FailureTouchedNothing'
    BY DEF EarlyInv, PagesInv, LaunchInv, Early, Results,
       LaunchedImageHasNoHole, HostKeepsStep, FailureTouchedNothing
  <2> QED
    BY <2>1, <2>2, <2>3, <2>4, <2>5 DEF UploadInv
<1>5. CASE PageDone
  <2> USE <1>5 DEF PageDone
  <2>1. FirmwareTyped'
    BY FirmwareAssumption DEF FirmwareTyped, FwPCs, Holdings, EarlyInv,
       PagesInv, LaunchInv, Early
  <2>2. HeldInv'
    BY DEF HeldInv, Holdings
  <2>3. Results'
    BY DEF Results, Early, EarlyInv
  <2>4. EarlyInv' /\ PagesInv' /\ LaunchInv'
    BY FirmwareAssumption DEF FirmwareTyped, FwPCs, Holdings, EarlyInv,
       PagesInv, LaunchInv, Early, Results
  <2>5. LaunchedImageHasNoHole' /\ HostKeepsStep' /\ FailureTouchedNothing'
    BY DEF EarlyInv, PagesInv, LaunchInv, Early, Results,
       LaunchedImageHasNoHole, HostKeepsStep, FailureTouchedNothing
  <2> QED
    BY <2>1, <2>2, <2>3, <2>4, <2>5 DEF UploadInv
<1>6. CASE Launch
  <2> USE <1>6 DEF Launch
  <2>1. FirmwareTyped'
    BY FirmwareAssumption DEF FirmwareTyped, FwPCs, Holdings, EarlyInv,
       PagesInv, LaunchInv, Early
  <2>2. HeldInv'
    BY DEF HeldInv, Holdings
  <2>3. Results'
    BY DEF Results, Early, EarlyInv
  <2>4. EarlyInv' /\ PagesInv' /\ LaunchInv'
    BY FirmwareAssumption DEF FirmwareTyped, FwPCs, Holdings, EarlyInv,
       PagesInv, LaunchInv, Early, Results
  <2>5. LaunchedImageHasNoHole' /\ HostKeepsStep' /\ FailureTouchedNothing'
    BY DEF EarlyInv, PagesInv, LaunchInv, Early, Results,
       LaunchedImageHasNoHole, HostKeepsStep, FailureTouchedNothing
  <2> QED
    BY <2>1, <2>2, <2>3, <2>4, <2>5 DEF UploadInv
<1>7. CASE CleanUp
  <2> USE <1>7 DEF CleanUp
  <2>1. FirmwareTyped'
    BY FirmwareAssumption DEF FirmwareTyped, FwPCs, Holdings, EarlyInv,
       PagesInv, LaunchInv, Early
  <2>2. HeldInv'
    BY DEF HeldInv, Holdings
  <2>3. Results'
    BY DEF Results, Early, EarlyInv
  <2>4. EarlyInv' /\ PagesInv' /\ LaunchInv'
    BY FirmwareAssumption DEF FirmwareTyped, FwPCs, Holdings, EarlyInv,
       PagesInv, LaunchInv, Early, Results
  <2>5. LaunchedImageHasNoHole' /\ HostKeepsStep' /\ FailureTouchedNothing'
    BY DEF EarlyInv, PagesInv, LaunchInv, Early, Results,
       LaunchedImageHasNoHole, HostKeepsStep, FailureTouchedNothing
  <2> QED
    BY <2>1, <2>2, <2>3, <2>4, <2>5 DEF UploadInv
<1> QED
  BY <1>1, <1>2, <1>3, <1>4, <1>5, <1>6, <1>7 DEF Uploading

LEMMA RestKeeps ==
    UploadInv /\ (Settle \/ Reopen \/ CheckUac \/ PlugUnplug) => UploadInv'
<1> SUFFICES ASSUME UploadInv, Settle \/ Reopen \/ CheckUac \/ PlugUnplug
             PROVE  UploadInv'
  OBVIOUS
<1> USE DEF UploadInv, FwGoto, FwReturn, Opens, device, uploadVars
<1>1. CASE Settle
  <2> USE <1>1 DEF Settle
  <2>1. FirmwareTyped'
    BY FirmwareAssumption DEF FirmwareTyped, FwPCs, Holdings, EarlyInv,
       PagesInv, LaunchInv, Early
  <2>2. HeldInv'
    BY DEF HeldInv, Holdings
  <2>3. Results'
    BY DEF Results, Early, EarlyInv
  <2>4. EarlyInv' /\ PagesInv' /\ LaunchInv'
    BY FirmwareAssumption DEF FirmwareTyped, FwPCs, Holdings, EarlyInv,
       PagesInv, LaunchInv, Early, Results
  <2>5. LaunchedImageHasNoHole' /\ HostKeepsStep' /\ FailureTouchedNothing'
    BY DEF EarlyInv, PagesInv, LaunchInv, Early, Results,
       LaunchedImageHasNoHole, HostKeepsStep, FailureTouchedNothing
  <2> QED
    BY <2>1, <2>2, <2>3, <2>4, <2>5 DEF UploadInv
<1>2. CASE Reopen
  <2> USE <1>2 DEF Reopen
  <2>1. FirmwareTyped'
    BY FirmwareAssumption DEF FirmwareTyped, FwPCs, Holdings, EarlyInv,
       PagesInv, LaunchInv, Early
  <2>2. HeldInv'
    BY DEF HeldInv, Holdings
  <2>3. Results'
    BY DEF Results, Early, EarlyInv
  <2>4. EarlyInv' /\ PagesInv' /\ LaunchInv'
    BY FirmwareAssumption DEF FirmwareTyped, FwPCs, Holdings, EarlyInv,
       PagesInv, LaunchInv, Early, Results
  <2>5. LaunchedImageHasNoHole' /\ HostKeepsStep' /\ FailureTouchedNothing'
    BY DEF EarlyInv, PagesInv, LaunchInv, Early, Results,
       LaunchedImageHasNoHole, HostKeepsStep, FailureTouchedNothing
  <2> QED
    BY <2>1, <2>2, <2>3, <2>4, <2>5 DEF UploadInv
<1>3. CASE CheckUac
  <2> USE <1>3 DEF CheckUac
  <2>1. FirmwareTyped'
    BY FirmwareAssumption DEF FirmwareTyped, FwPCs, Holdings, EarlyInv,
       PagesInv, LaunchInv, Early
  <2>2. HeldInv'
    BY DEF HeldInv, Holdings
  <2>3. Results'
    BY DEF Results, Early, EarlyInv
  <2>4. EarlyInv' /\ PagesInv' /\ LaunchInv'
    BY FirmwareAssumption DEF FirmwareTyped, FwPCs, Holdings, EarlyInv,
       PagesInv, LaunchInv, Early, Results
  <2>5. LaunchedImageHasNoHole' /\ HostKeepsStep' /\ FailureTouchedNothing'
    BY DEF EarlyInv, PagesInv, LaunchInv, Early, Results,
       LaunchedImageHasNoHole, HostKeepsStep, FailureTouchedNothing
  <2> QED
    BY <2>1, <2>2, <2>3, <2>4, <2>5 DEF UploadInv
<1>4. CASE PlugUnplug
  <2> USE <1>4 DEF PlugUnplug
  <2>1. FirmwareTyped'
    <3>1. mode' \in {"boot", "uac", "absent"}
      OBVIOUS
    <3>2. memory' \subseteq (0..(ImageChunks - 1)) \X (0..(ImageChunks - 1))
      OBVIOUS
    <3>3. expecting' \in 0..PageChunks
      BY FirmwareAssumption
    <3> QED
      BY <3>1, <3>2, <3>3 DEF FirmwareTyped
  <2>2. HeldInv'
    BY DEF HeldInv, Holdings
  <2>3. Results'
    BY DEF Results, Early, EarlyInv
  <2>4. EarlyInv' /\ PagesInv' /\ LaunchInv'
    BY FirmwareAssumption DEF FirmwareTyped, FwPCs, Holdings, EarlyInv,
       PagesInv, LaunchInv, Early, Results
  <2>5. LaunchedImageHasNoHole' /\ HostKeepsStep' /\ FailureTouchedNothing'
    BY DEF EarlyInv, PagesInv, LaunchInv, Early, Results,
       LaunchedImageHasNoHole, HostKeepsStep, FailureTouchedNothing
  <2> QED
    BY <2>1, <2>2, <2>3, <2>4, <2>5 DEF UploadInv
<1> QED
  BY <1>1, <1>2, <1>3, <1>4

LEMMA UploadStutters == UploadInv /\ UNCHANGED firmwareVars => UploadInv'
BY DEF firmwareVars, device, uploadVars, UploadInv, FirmwareTyped, HeldInv,
   Results, EarlyInv, PagesInv, LaunchInv, LaunchedImageHasNoHole,
   HostKeepsStep, FailureTouchedNothing

\* The inductive invariant of the upload, for every length of image and page.
THEOREM UploadInvariant == FirmwareSpec => []UploadInv
<1>1. UploadInv /\ [FirmwareNext]_firmwareVars => UploadInv'
  <2> SUFFICES ASSUME UploadInv, [FirmwareNext]_firmwareVars PROVE UploadInv'
    OBVIOUS
  <2>1. CASE FirmwareNext
    BY <2>1, OpeningKeeps, UploadingKeeps, RestKeeps
    DEF FirmwareNext, SetupStep
  <2>2. CASE UNCHANGED firmwareVars
    BY <2>2, UploadStutters
  <2> QED
    BY <2>1, <2>2
<1> QED
  BY InitUpload, <1>1, PTL DEF FirmwareSpec

\* The variables of the upload keep to their types; the address stays in step.
THEOREM UploadTyped == FirmwareSpec => []FirmwareTyped
<1>1. UploadInv => FirmwareTyped
  BY DEF UploadInv
<1> QED
  BY UploadInvariant, <1>1, PTL

\* Whatever fails, an image that the bootloader starts has no hole and nothing
\* out of place (firmware.c:80-115).
THEOREM NoHole == FirmwareSpec => []LaunchedImageHasNoHole
<1>1. UploadInv => LaunchedImageHasNoHole
  BY DEF UploadInv
<1> QED
  BY UploadInvariant, <1>1, PTL

\* The host keeps step with the bootloader although it ignores the replies.
THEOREM InStep == FirmwareSpec => []HostKeepsStep
<1>1. UploadInv => HostKeepsStep
  BY DEF UploadInv
<1> QED
  BY UploadInvariant, <1>1, PTL

\* No path through k4w_firmware_setup leaves a file, context, handle or
\* interface behind (firmware.c:41-66, 117-123).
THEOREM AllClosed == FirmwareSpec => []NothingLeftOpen
<1>1. UploadInv => NothingLeftOpen
  BY DEF UploadInv, NothingLeftOpen, HeldInv
<1> QED
  BY UploadInvariant, <1>1, PTL

\* A set-up that fails has not touched the bootloader.
THEOREM FailuresAreHarmless == FirmwareSpec => []FailureTouchedNothing
<1>1. UploadInv => FailureTouchedNothing
  BY DEF UploadInv
<1> QED
  BY UploadInvariant, <1>1, PTL

-----------------------------------------------------------------------------
(* Files.  What this process made is known from where main() is, and what  *)
(* it has still to remove too.                                             *)

FilesInv ==
    /\ mainAt \in MainPlaces /\ config \subseteq {"audio", "v4l2"}
    /\ made \subseteq Files /\ files \subseteq Files
    /\ mainAt \in {"off", "lock", "setupOnly"} => made = {}
    /\ mainAt \in {"setup", "camera", "depth"} => made \subseteq {"pid"}
    /\ mainAt \in {"video", "giveUp"} => made \subseteq {"pid", "depth"}
    /\ mainAt = "giveUp" => "depth" \notin files \cap made
    /\ mainAt \in {"closeSocket", "release"} => files \cap Shm = {}
    /\ mainAt = "release" => "socket" \notin files \cap made
    /\ mainAt = "exited" => files \cap made = {}
    /\ CleanRunRecovers

(* Modules.  An index that k4wd knows is one of a module that is loaded,   *)
(* and without crashes and failures there are no others.                   *)

SoundPlaces ==
    {"loadRemap", "openSound", "v4l2", "pwBuffer", "pwMake", "pwStart",
     "pwConnect", "undo1", "undo2", "undo3", "undo4", "socket", "run",
     "write", "push1", "push2", "stop1", "stop2", "stop3", "stop4", "stop5",
     "stop6", "release1", "release2"}

ModulesInv ==
    /\ nullSinks \in 0..MaxModules /\ remaps \in 0..MaxModules
    /\ sinkKnown \in BOOLEAN /\ remapKnown \in BOOLEAN
    /\ sinkKnown => nullSinks > 0 /\ mainAt \in SoundPlaces
    /\ remapKnown => remaps > 0 /\ mainAt \in SoundPlaces \ {"loadRemap"}
    /\ ~crashed /\ ~pactlFailed => /\ nullSinks = Count(sinkKnown)
                                   /\ remaps = Count(remapKnown)

(* Formats.  What was queried is what the device has, unless another       *)
(* program has set its format since.                                       *)

FormatInv ==
    /\ format \in Formats \cup {"none"} /\ queried \in Formats \cup {"none"}
    /\ queried # "none" => mainAt = "write"
    /\ queried # "none" /\ ~reset => queried = format
    /\ ~misfit

(* PipeWire.  The loop's thread runs in some places of main() only; while  *)
(* it copies, the buffer is live, and the buffer's second half is one      *)
(* frame behind its first at most.                                         *)

LoopRuns == {"pwConnect", "undo1", "undo2", "socket", "run", "write",
             "push1", "push2", "stop1", "stop2", "stop3"}
Teardown == {"undo1", "undo2", "stop1", "stop2", "stop3"}

ObjectsInv ==
    /\ pwLoop \in {"none", "made", "running"} /\ pwContext \in BOOLEAN
    /\ pwStream \in {"null", "live", "freed"}
    /\ pwBuffer \in {"none", "live", "freed"}
    /\ loopPC \in {"idle", "copyFirst", "copySecond", "queue"}
    /\ loopPC # "idle" => pwLoop = "running"
    /\ pwLoop = "running" => mainAt \in LoopRuns
    /\ mainAt = "pwStart" => pwStream = "live"
    /\ pwLoop = "running" /\ mainAt \notin Teardown => pwStream = "live"
    /\ loopPC \in {"copyFirst", "copySecond"} => pwBuffer = "live"
    /\ pwBuffer = "freed" => mainAt = "stop6"
    /\ ~badRead

FrameInv ==
    /\ pushed \in 0..MaxPushed /\ got \in 0..MaxPushed
    /\ bufSecond = pushed
    /\ bufFirst = IF mainAt = "push2" /\ Pushing THEN pushed + 1 ELSE pushed
    /\ mainAt = "push2" => pushed < MaxPushed
    /\ loopPC = "copySecond" => got <= bufSecond + 1
    /\ torn \in {"whole", "older"}

(* Progress.  How many steps of main() are left at most until it polls or  *)
(* has returned.  Four steps of the upload for each chunk not yet sent are *)
(* more than it takes.                                                     *)

ChunksLeft == ImageChunks - offset

UploadStepsLeft ==
    CASE fwPC = "done" -> 0
      [] fwPC \in {"settle", "checkUac"} -> 1
      [] fwPC \in {"reopen", "cleanUp"} -> 2
      [] fwPC = "launch" -> 3
      [] fwPC = "data" -> 4 * (ChunksLeft - page) + 6 + (page - sent)
      [] fwPC = "command" -> 4 * ChunksLeft + 4
      [] fwPC = "read" -> 4 * ChunksLeft + 5
      [] fwPC = "greet" -> 4 * ChunksLeft + 6
      [] fwPC = "claim" -> 4 * ChunksLeft + 7
      [] fwPC = "openBoot" -> 4 * ChunksLeft + 8
      [] fwPC = "openFile" -> 4 * ChunksLeft + 9
      [] fwPC = "probe" -> 4 * ChunksLeft + 10

StepsLeft ==
    CASE mainAt \in Idle \cup {"run"} -> 0
      [] mainAt \in {"socket", "push2", "release", "giveUp"} -> 1
      [] mainAt \in {"undo4", "push1", "closeSocket"} -> 2
      [] mainAt \in {"undo3", "write", "destroyShm"} -> 3
      [] mainAt \in {"undo2", "release2"} -> 4
      [] mainAt \in {"undo1", "release1"} -> 5
      [] mainAt \in {"pwConnect", "stop6"} -> 6
      [] mainAt \in {"pwStart", "stop5"} -> 7
      [] mainAt \in {"pwMake", "stop4"} -> 8
      [] mainAt \in {"pwBuffer", "stop3"} -> 9
      [] mainAt \in {"v4l2", "stop2"} -> 10
      [] mainAt \in {"openSound", "stop1"} -> 11
      [] mainAt = "loadRemap" -> 12
      [] mainAt = "loadSink" -> 13
      [] mainAt = "audio" -> 14
      [] mainAt = "video" -> 15
      [] mainAt = "depth" -> 16
      [] mainAt = "camera" -> 17
      [] mainAt = "setup" -> 18 + UploadStepsLeft
      [] mainAt = "lock" -> 19 + UploadStepsLeft
      [] mainAt = "setupOnly" -> 1 + UploadStepsLeft

\* Nobody else keeps main() from coming closer to the end of its phase, and
\* every step of its own brings it closer.
ComesCloser ==
    mainAt \notin Idle \cup {"run"} =>
        /\ StepsLeft' <= StepsLeft
        /\ MainStep => StepsLeft' < StepsLeft

-----------------------------------------------------------------------------
LEMMA FormatsAre == Formats = {"MJPEG", "YUYV", "RGB24", "other"}
<1>1. DOMAIN Preferred = 1..3
  BY DEF Preferred
<1>2. Preferred[1] = "MJPEG" /\ Preferred[2] = "YUYV" /\ Preferred[3] = "RGB24"
  BY DEF Preferred
<1> QED
  BY <1>1, <1>2 DEF Formats, Range

LEMMA FilesKept == FilesInv /\ [LifeNext]_lifeVars => FilesInv'
<1> SUFFICES ASSUME FilesInv, [LifeNext]_lifeVars PROVE FilesInv'
  OBVIOUS
<1> USE DEF FilesInv, At, FilesAre, NoFiles, MakeShm, ShmFails, Idle, Shm,
    Files, MainPlaces, CleanRunRecovers
<1>1. CASE Begin
  BY <1>1 DEF Begin
<1>2. CASE Lock
  BY <1>2 DEF Lock
<1>3. CASE SetupRuns
  BY <1>3 DEF SetupRuns
<1>4. CASE EndSetup
  BY <1>4 DEF EndSetup
<1>5. CASE TryCamera
  BY <1>5 DEF TryCamera
<1>6. CASE MakeDepth
  BY <1>6 DEF MakeDepth
<1>7. CASE MakeVideo
  BY <1>7 DEF MakeVideo
<1>8. CASE MakeAudio
  BY <1>8 DEF MakeAudio
<1>9. CASE OpenSound
  BY <1>9 DEF OpenSound
<1>10. CASE OpenV4l2Device
  BY <1>10 DEF OpenV4l2Device
<1>11. CASE SetUpPw
  BY <1>11 DEF SetUpPw
<1>12. CASE MakeSocket
  BY <1>12 DEF MakeSocket
<1>13. CASE VideoFrame
  BY <1>13 DEF VideoFrame
<1>14. CASE StopPw
  BY <1>14 DEF StopPw
<1>15. CASE CloseOutputs
  BY <1>15 DEF CloseOutputs
<1>16. CASE DestroyShm
  BY <1>16 DEF DestroyShm
<1>17. CASE CloseSocket
  BY <1>17 DEF CloseSocket
<1>18. CASE Release
  BY <1>18 DEF Release
<1>19. CASE PwLoopRuns
  BY <1>19 DEF PwLoopRuns
<1>20. CASE PlugDuringSetup
  BY <1>20 DEF PlugDuringSetup
<1>21. CASE FormatIsSet
  BY <1>21 DEF FormatIsSet
<1>22. CASE Crash
  BY <1>22 DEF Crash
<1>23. CASE UNCHANGED lifeVars
  BY <1>23 DEF lifeVars
<1> QED
  BY <1>1, <1>2, <1>3, <1>4, <1>5, <1>6, <1>7, <1>8, <1>9, <1>10, <1>11,
     <1>12, <1>13, <1>14, <1>15, <1>16, <1>17, <1>18, <1>19, <1>20, <1>21,
     <1>22, <1>23 DEF LifeNext, MainStep

LEMMA SinkLoaded ==
    ASSUME ModulesInv, NEW reported \in BOOLEAN, LoadNullSink(reported),
           mainAt = "loadSink", mainAt' \in SoundPlaces, UNCHANGED crashed
    PROVE  ModulesInv'
<1>1. ~sinkKnown /\ ~remapKnown
  BY DEF ModulesInv, SoundPlaces
<1>2. PICK loaded \in BOOLEAN :
          /\ reported => loaded
          /\ loaded => nullSinks < MaxModules
          /\ nullSinks' = nullSinks + Count(loaded)
          /\ sinkKnown' = reported
          /\ pactlFailed' = (pactlFailed \/ loaded # reported)
          /\ UNCHANGED <<remaps, remapKnown>>
  BY DEF LoadNullSink
<1>3. nullSinks' \in 0..MaxModules
  BY <1>2, PulseAssumption DEF ModulesInv, Count
<1>4. sinkKnown' => nullSinks' > 0
  BY <1>2, PulseAssumption DEF ModulesInv, Count
<1>5. ~crashed' /\ ~pactlFailed' => /\ nullSinks' = Count(sinkKnown')
                                   /\ remaps' = Count(remapKnown')
  <2> SUFFICES ASSUME ~crashed', ~pactlFailed'
               PROVE  /\ nullSinks' = Count(sinkKnown')
                      /\ remaps' = Count(remapKnown')
    OBVIOUS
  <2>1. loaded = reported /\ ~crashed /\ ~pactlFailed
    BY <1>2
  <2>2. nullSinks = 0 /\ remaps = 0
    BY <1>1, <2>1 DEF ModulesInv, Count
  <2> QED
    BY <1>1, <1>2, <2>1, <2>2 DEF Count
<1> QED
  BY <1>1, <1>2, <1>3, <1>4, <1>5 DEF ModulesInv

LEMMA RemapLoaded ==
    ASSUME ModulesInv, LoadRemap, UNCHANGED crashed,
           mainAt = "loadRemap", mainAt' \in SoundPlaces \ {"loadRemap"}
    PROVE  ModulesInv'
<1>1. ~remapKnown
  BY DEF ModulesInv
<1>2. PICK loaded \in BOOLEAN, reported \in BOOLEAN :
          /\ reported => loaded
          /\ loaded => remaps < MaxModules
          /\ remaps' = remaps + Count(loaded)
          /\ remapKnown' = (remapKnown \/ reported)
          /\ pactlFailed' = (pactlFailed \/ loaded # reported)
          /\ UNCHANGED <<nullSinks, sinkKnown>>
  BY DEF LoadRemap
<1>3. remaps' \in 0..MaxModules
  BY <1>2, PulseAssumption DEF ModulesInv, Count
<1>4. remapKnown' = reported
  BY <1>1, <1>2
<1>5. remapKnown' => remaps' > 0
  BY <1>2, <1>4, PulseAssumption DEF ModulesInv, Count
<1>6. ~crashed' /\ ~pactlFailed' => /\ nullSinks' = Count(sinkKnown')
                                   /\ remaps' = Count(remapKnown')
  <2> SUFFICES ASSUME ~crashed', ~pactlFailed'
               PROVE  /\ nullSinks' = Count(sinkKnown')
                      /\ remaps' = Count(remapKnown')
    OBVIOUS
  <2>1. loaded = reported /\ ~crashed /\ ~pactlFailed
    BY <1>2
  <2>2. nullSinks = Count(sinkKnown) /\ remaps = 0
    BY <1>1, <2>1 DEF ModulesInv, Count
  <2> QED
    BY <1>2, <1>4, <2>1, <2>2 DEF Count
<1> QED
  BY <1>2, <1>3, <1>4, <1>5, <1>6 DEF ModulesInv

LEMMA Unloaded ==
    ASSUME ModulesInv, Unload, UNCHANGED crashed
    PROVE  ModulesInv'
<1>1. PICK n \in {0, Count(sinkKnown)}, r \in {0, Count(remapKnown)} :
          /\ nullSinks' = nullSinks - n /\ remaps' = remaps - r
          /\ pactlFailed' = \/ pactlFailed
                            \/ n < Count(sinkKnown) \/ r < Count(remapKnown)
          /\ sinkKnown' = FALSE /\ remapKnown' = FALSE
  BY DEF Unload
<1>2. /\ Count(sinkKnown) \in 0..1 /\ Count(sinkKnown) <= nullSinks
      /\ Count(remapKnown) \in 0..1 /\ Count(remapKnown) <= remaps
  BY PulseAssumption DEF ModulesInv, Count
<1>3. nullSinks' \in 0..MaxModules /\ remaps' \in 0..MaxModules
  BY <1>1, <1>2, PulseAssumption DEF ModulesInv
<1>4. ~crashed' /\ ~pactlFailed' => nullSinks' = 0 /\ remaps' = 0
  <2> SUFFICES ASSUME ~crashed', ~pactlFailed'
               PROVE  nullSinks' = 0 /\ remaps' = 0
    OBVIOUS
  <2>1. n = Count(sinkKnown) /\ r = Count(remapKnown)
    BY <1>1, <1>2
  <2>2. ~crashed /\ ~pactlFailed
    BY <1>1
  <2> QED
    BY <1>1, <1>2, <2>1, <2>2, PulseAssumption DEF ModulesInv
<1> QED
  BY <1>1, <1>3, <1>4 DEF ModulesInv, Count

LEMMA ModulesKept == ModulesInv /\ [LifeNext]_lifeVars => ModulesInv'
<1> SUFFICES ASSUME ModulesInv, [LifeNext]_lifeVars PROVE ModulesInv'
  OBVIOUS
<1> USE DEF ModulesInv, At, FilesAre, NoFiles, parts, pulseVars, server,
    MakeShm, ShmFails, Idle, SoundPlaces
<1>1. CASE Begin
  BY <1>1 DEF Begin
<1>2. CASE Lock
  BY <1>2 DEF Lock
<1>3. CASE SetupRuns
  BY <1>3 DEF SetupRuns
<1>4. CASE EndSetup
  BY <1>4 DEF EndSetup
<1>5. CASE TryCamera
  BY <1>5 DEF TryCamera
<1>6. CASE MakeDepth
  BY <1>6 DEF MakeDepth
<1>7. CASE MakeVideo
  BY <1>7 DEF MakeVideo
<1>8. CASE MakeAudio
  BY <1>8 DEF MakeAudio
<1>9. CASE OpenSound
  <2>1. CASE At("loadSink", "loadRemap") /\ LoadNullSink(TRUE)
    BY <2>1, SinkLoaded DEF SoundPlaces
  <2>2. CASE At("loadSink", "openSound") /\ LoadNullSink(FALSE)
    BY <2>2, SinkLoaded DEF SoundPlaces
  <2>3. CASE At("loadRemap", "openSound") /\ LoadRemap
    BY <2>3, RemapLoaded DEF SoundPlaces
  <2>4. CASE At("openSound", "v4l2") /\ OpenPulseStream
    <3>1. CASE UNCHANGED <<server, sinkKnown, remapKnown, pactlFailed>>
      BY <2>4, <3>1 DEF server, SoundPlaces
    <3>2. CASE Unload
      BY <2>4, <3>2, Unloaded
    <3> QED
      BY <2>4, <3>1, <3>2 DEF OpenPulseStream
  <2> QED
    BY <1>9, <2>1, <2>2, <2>3, <2>4 DEF OpenSound
<1>10. CASE OpenV4l2Device
  BY <1>10 DEF OpenV4l2Device
<1>11. CASE SetUpPw
  BY <1>11 DEF SetUpPw
<1>12. CASE MakeSocket
  BY <1>12 DEF MakeSocket
<1>13. CASE VideoFrame
  BY <1>13 DEF VideoFrame
<1>14. CASE StopPw
  BY <1>14 DEF StopPw
<1>15. CASE CloseOutputs
  <2>1. CASE At("release1", "release2") /\ CloseV4l2 /\ UNCHANGED pulseVars
    BY <2>1 DEF pulseVars, server, SoundPlaces
  <2>2. CASE At("release2", "destroyShm") /\ ClosePulse
    BY <2>2, Unloaded DEF ClosePulse
  <2> QED
    BY <1>15, <2>1, <2>2 DEF CloseOutputs
<1>16. CASE DestroyShm
  BY <1>16 DEF DestroyShm
<1>17. CASE CloseSocket
  BY <1>17 DEF CloseSocket
<1>18. CASE Release
  BY <1>18 DEF Release
<1>19. CASE PwLoopRuns
  BY <1>19 DEF PwLoopRuns
<1>20. CASE PlugDuringSetup
  BY <1>20 DEF PlugDuringSetup
<1>21. CASE FormatIsSet
  BY <1>21 DEF FormatIsSet
<1>22. CASE Crash
  BY <1>22 DEF Crash, PulseDies
<1>23. CASE UNCHANGED lifeVars
  BY <1>23 DEF lifeVars
<1> QED
  BY <1>1, <1>2, <1>3, <1>4, <1>5, <1>6, <1>7, <1>8, <1>9, <1>10, <1>11,
     <1>12, <1>13, <1>14, <1>15, <1>16, <1>17, <1>18, <1>19, <1>20, <1>21,
     <1>22, <1>23 DEF LifeNext, MainStep

LEMMA FormatKept == FormatInv /\ [LifeNext]_lifeVars => FormatInv'
<1> SUFFICES ASSUME FormatInv, [LifeNext]_lifeVars PROVE FormatInv'
  OBVIOUS
<1> USE DEF FormatInv, At, FilesAre, NoFiles, parts, v4l2Vars, MakeShm,
    ShmFails, Idle, OpenV4l2, QueryFormat, WriteV4l2, Sent, CloseV4l2,
    OtherProgramSetsFormat
<1>1. CASE Begin
  BY <1>1, FormatsAre DEF Begin
<1>2. CASE Lock
  BY <1>2, FormatsAre DEF Lock
<1>3. CASE SetupRuns
  BY <1>3, FormatsAre DEF SetupRuns
<1>4. CASE EndSetup
  BY <1>4, FormatsAre DEF EndSetup
<1>5. CASE TryCamera
  BY <1>5, FormatsAre DEF TryCamera
<1>6. CASE MakeDepth
  BY <1>6, FormatsAre DEF MakeDepth
<1>7. CASE MakeVideo
  BY <1>7, FormatsAre DEF MakeVideo
<1>8. CASE MakeAudio
  BY <1>8, FormatsAre DEF MakeAudio
<1>9. CASE OpenSound
  BY <1>9, FormatsAre DEF OpenSound
<1>10. CASE OpenV4l2Device
  <2>1. \A i \in DOMAIN Preferred : Preferred[i] \in Formats
    BY DEF Formats, Range
  <2>2. "other" \in Formats
    BY FormatsAre
  <2>3. CASE OpenV4l2
    <3>1. format' \in Formats \cup {"none"}
      BY <2>1, <2>2, <2>3
    <3> QED
      BY <1>10, <2>3, <3>1 DEF OpenV4l2Device
  <2>4. CASE UNCHANGED v4l2Vars
    BY <1>10, <2>4 DEF OpenV4l2Device
  <2> QED
    BY <1>10, <2>3, <2>4 DEF OpenV4l2Device
<1>11. CASE SetUpPw
  BY <1>11, FormatsAre DEF SetUpPw
<1>12. CASE MakeSocket
  BY <1>12, FormatsAre DEF MakeSocket
<1>13. CASE VideoFrame
  <2>1. CASE At("run", "write") /\ QueryFormat
    BY <2>1, FormatsAre
  <2>2. CASE At("write", "push1") /\ WriteV4l2
    <3>1. queried = "none" \/ reset \/ Sent = format \/ format = "other"
      BY FormatsAre
    <3>2. ~misfit'
      BY <2>2, <3>1
    <3> QED
      BY <2>2, <3>2
  <2>3. CASE mainAt \in {"push1", "push2"} /\ UNCHANGED v4l2Vars
    BY <2>3
  <2> QED
    BY <1>13, <2>1, <2>2, <2>3 DEF VideoFrame
<1>14. CASE StopPw
  BY <1>14, FormatsAre DEF StopPw
<1>15. CASE CloseOutputs
  BY <1>15, FormatsAre DEF CloseOutputs
<1>16. CASE DestroyShm
  BY <1>16, FormatsAre DEF DestroyShm
<1>17. CASE CloseSocket
  BY <1>17, FormatsAre DEF CloseSocket
<1>18. CASE Release
  BY <1>18, FormatsAre DEF Release
<1>19. CASE PwLoopRuns
  BY <1>19, FormatsAre DEF PwLoopRuns
<1>20. CASE PlugDuringSetup
  BY <1>20, FormatsAre DEF PlugDuringSetup
<1>21. CASE FormatIsSet
  BY <1>21, FormatsAre DEF FormatIsSet
<1>22. CASE Crash
  BY <1>22, FormatsAre DEF Crash
<1>23. CASE UNCHANGED lifeVars
  BY <1>23 DEF lifeVars
<1> QED
  BY <1>1, <1>2, <1>3, <1>4, <1>5, <1>6, <1>7, <1>8, <1>9, <1>10, <1>11,
     <1>12, <1>13, <1>14, <1>15, <1>16, <1>17, <1>18, <1>19, <1>20, <1>21,
     <1>22, <1>23 DEF LifeNext, MainStep

LEMMA ObjectsKept == ObjectsInv /\ [LifeNext]_lifeVars => ObjectsInv'
<1> SUFFICES ASSUME ObjectsInv, [LifeNext]_lifeVars PROVE ObjectsInv'
  OBVIOUS
<1> USE DEF ObjectsInv, At, FilesAre, NoFiles, parts, pwVars, pwObjects,
    pwFrame, loopVars, MakeShm, ShmFails, Idle, LoopRuns, Teardown,
    AllocateBuffer, MakeObjects, StartLoop, DestroyStream, ForgetStream,
    StopLoop, DestroyContext, DestroyLoop, FreeBuffer, ForgetBuffer,
    PushFirst, PushSecond, Pushing, LoopGoto, UseStream, ReadBuffer, PwDies,
    LoopThread, Dequeue, CopyFirstHalf, CopySecondHalf, Queue
<1>1. CASE Begin
  BY <1>1 DEF Begin
<1>2. CASE Lock
  BY <1>2 DEF Lock
<1>3. CASE SetupRuns
  BY <1>3 DEF SetupRuns
<1>4. CASE EndSetup
  BY <1>4 DEF EndSetup
<1>5. CASE TryCamera
  BY <1>5 DEF TryCamera
<1>6. CASE MakeDepth
  BY <1>6 DEF MakeDepth
<1>7. CASE MakeVideo
  BY <1>7 DEF MakeVideo
<1>8. CASE MakeAudio
  BY <1>8 DEF MakeAudio
<1>9. CASE OpenSound
  BY <1>9 DEF OpenSound
<1>10. CASE OpenV4l2Device
  BY <1>10 DEF OpenV4l2Device
<1>11. CASE SetUpPw
  <2>1. CASE At("pwBuffer", "pwMake") /\ AllocateBuffer
    BY <2>1
  <2>2. CASE At("pwMake", "pwStart") /\ MakeObjects(TRUE)
    BY <2>2
  <2>3. CASE At("pwMake", "socket") /\ MakeObjects(FALSE)
    BY <2>3
  <2>4. CASE At("pwStart", "pwConnect") /\ StartLoop
    BY <2>4
  <2>5. CASE At("pwConnect", "socket") /\ UNCHANGED pwVars
    BY <2>5
  <2>6. CASE At("pwConnect", "undo1") /\ DestroyStream
    BY <2>6
  <2>7. CASE At("undo1", "undo2") /\ ForgetStream
    BY <2>7
  <2>8. CASE At("undo2", "undo3") /\ StopLoop
    BY <2>8
  <2>9. CASE At("undo3", "undo4") /\ DestroyContext
    BY <2>9
  <2>10. CASE At("undo4", "socket") /\ DestroyLoop
    BY <2>10
  <2> QED
    BY <1>11, <2>1, <2>2, <2>3, <2>4, <2>5, <2>6, <2>7, <2>8, <2>9, <2>10 DEF
       SetUpPw
<1>12. CASE MakeSocket
  BY <1>12 DEF MakeSocket
<1>13. CASE VideoFrame
  BY <1>13 DEF VideoFrame
<1>14. CASE StopPw
  <2>1. CASE At("run", "stop1") /\ DestroyStream
    BY <2>1
  <2>2. CASE At("stop1", "stop2") /\ ForgetStream
    BY <2>2
  <2>3. CASE At("stop2", "stop3") /\ DestroyContext
    BY <2>3
  <2>4. CASE At("stop3", "stop4") /\ StopLoop
    BY <2>4
  <2>5. CASE At("stop4", "stop5") /\ DestroyLoop
    BY <2>5
  <2>6. CASE At("stop5", "stop6") /\ FreeBuffer
    BY <2>6
  <2>7. CASE At("stop6", "release1") /\ ForgetBuffer
    BY <2>7
  <2> QED
    BY <1>14, <2>1, <2>2, <2>3, <2>4, <2>5, <2>6, <2>7 DEF StopPw
<1>15. CASE CloseOutputs
  BY <1>15 DEF CloseOutputs
<1>16. CASE DestroyShm
  BY <1>16 DEF DestroyShm
<1>17. CASE CloseSocket
  BY <1>17 DEF CloseSocket
<1>18. CASE Release
  BY <1>18 DEF Release
<1>19. CASE PwLoopRuns
  <2>0. UNCHANGED mainAt
    BY <1>19 DEF PwLoopRuns
  <2>1. CASE Dequeue
    BY <2>1, <2>0
  <2>2. CASE CopyFirstHalf
    BY <2>2, <2>0
  <2>3. CASE CopySecondHalf
    BY <2>3, <2>0
  <2>4. CASE Queue
    BY <2>4, <2>0
  <2> QED
    BY <1>19, <2>1, <2>2, <2>3, <2>4 DEF PwLoopRuns, LoopThread
<1>20. CASE PlugDuringSetup
  BY <1>20 DEF PlugDuringSetup
<1>21. CASE FormatIsSet
  BY <1>21 DEF FormatIsSet
<1>22. CASE Crash
  BY <1>22 DEF Crash
<1>23. CASE UNCHANGED lifeVars
  BY <1>23 DEF lifeVars
<1> QED
  BY <1>1, <1>2, <1>3, <1>4, <1>5, <1>6, <1>7, <1>8, <1>9, <1>10, <1>11,
     <1>12, <1>13, <1>14, <1>15, <1>16, <1>17, <1>18, <1>19, <1>20, <1>21,
     <1>22, <1>23 DEF LifeNext, MainStep

LEMMA FrameKept == ObjectsInv /\ FrameInv /\ [LifeNext]_lifeVars => FrameInv'
<1> SUFFICES ASSUME ObjectsInv, FrameInv, [LifeNext]_lifeVars PROVE FrameInv'
  OBVIOUS
<1> USE DEF ObjectsInv, LoopRuns, FrameInv, At, FilesAre, NoFiles, parts,
    pwVars, pwObjects, pwFrame, loopVars, MakeShm, ShmFails, Idle,
    AllocateBuffer, MakeObjects, StartLoop, DestroyStream, ForgetStream,
    StopLoop, DestroyContext, DestroyLoop, FreeBuffer, ForgetBuffer,
    PushFirst, PushSecond, Pushing, LoopGoto, UseStream, ReadBuffer, PwDies,
    LoopThread, Dequeue, CopyFirstHalf, CopySecondHalf, Queue
<1>1. CASE Begin
  BY <1>1, PwAssumption DEF Begin
<1>2. CASE Lock
  BY <1>2, PwAssumption DEF Lock
<1>3. CASE SetupRuns
  BY <1>3, PwAssumption DEF SetupRuns
<1>4. CASE EndSetup
  BY <1>4, PwAssumption DEF EndSetup
<1>5. CASE TryCamera
  BY <1>5, PwAssumption DEF TryCamera
<1>6. CASE MakeDepth
  BY <1>6, PwAssumption DEF MakeDepth
<1>7. CASE MakeVideo
  BY <1>7, PwAssumption DEF MakeVideo
<1>8. CASE MakeAudio
  BY <1>8, PwAssumption DEF MakeAudio
<1>9. CASE OpenSound
  BY <1>9, PwAssumption DEF OpenSound
<1>10. CASE OpenV4l2Device
  BY <1>10, PwAssumption DEF OpenV4l2Device
<1>11. CASE SetUpPw
  BY <1>11, PwAssumption DEF SetUpPw
<1>12. CASE MakeSocket
  BY <1>12, PwAssumption DEF MakeSocket
<1>13. CASE VideoFrame
  <2>1. CASE At("run", "write") /\ UNCHANGED pwVars
    BY <2>1, PwAssumption
  <2>2. CASE At("write", "push1") /\ UNCHANGED pwVars
    BY <2>2, PwAssumption
  <2>3. CASE At("push1", "push2") /\ PushFirst
    BY <2>3, PwAssumption
  <2>4. CASE At("push1", "run") /\ UNCHANGED pwVars
    BY <2>4, PwAssumption
  <2>5. CASE At("push2", "run") /\ PushSecond
    BY <2>5, PwAssumption
  <2> QED
    BY <1>13, <2>1, <2>2, <2>3, <2>4, <2>5 DEF VideoFrame
<1>14. CASE StopPw
  BY <1>14, PwAssumption DEF StopPw
<1>15. CASE CloseOutputs
  BY <1>15, PwAssumption DEF CloseOutputs
<1>16. CASE DestroyShm
  BY <1>16, PwAssumption DEF DestroyShm
<1>17. CASE CloseSocket
  BY <1>17, PwAssumption DEF CloseSocket
<1>18. CASE Release
  BY <1>18, PwAssumption DEF Release
<1>19. CASE PwLoopRuns
  BY <1>19, PwAssumption DEF PwLoopRuns
<1>20. CASE PlugDuringSetup
  BY <1>20, PwAssumption DEF PlugDuringSetup
<1>21. CASE FormatIsSet
  BY <1>21, PwAssumption DEF FormatIsSet
<1>22. CASE Crash
  BY <1>22, PwAssumption DEF Crash
<1>23. CASE UNCHANGED lifeVars
  BY <1>23 DEF lifeVars
<1> QED
  BY <1>1, <1>2, <1>3, <1>4, <1>5, <1>6, <1>7, <1>8, <1>9, <1>10, <1>11,
     <1>12, <1>13, <1>14, <1>15, <1>16, <1>17, <1>18, <1>19, <1>20, <1>21,
     <1>22, <1>23 DEF LifeNext, MainStep

LEMMA UploadKept == UploadInv /\ [LifeNext]_lifeVars => UploadInv'
<1> SUFFICES ASSUME UploadInv, [LifeNext]_lifeVars PROVE UploadInv'
  OBVIOUS
<1>1. ASSUME UNCHANGED firmwareVars PROVE UploadInv'
  BY <1>1, UploadStutters
<1>2. ASSUME ForgetSetup PROVE UploadInv'
  <2>1. FirmwareInit'
    BY <1>2 DEF ForgetSetup, FirmwareInit
  <2> QED
    BY <2>1, InitUpload, PTL
<1>3. CASE Begin
  BY <1>3 DEF Begin, uploadVars, UploadInv, FirmwareTyped, HeldInv, Results,
     EarlyInv, PagesInv, LaunchInv, LaunchedImageHasNoHole, HostKeepsStep,
     FailureTouchedNothing
<1>4. CASE SetupRuns \/ PlugDuringSetup
  BY <1>4, OpeningKeeps, UploadingKeeps, RestKeeps
  DEF SetupRuns, PlugDuringSetup, SetupStep
<1>5. CASE EndSetup \/ Crash
  BY <1>2, <1>5 DEF EndSetup, Crash
<1>6. CASE Lock \/ TryCamera \/ MakeDepth \/ MakeVideo \/ MakeAudio
  BY <1>1, <1>6
  DEF Lock, TryCamera, MakeDepth, MakeVideo, MakeAudio, MakeShm, ShmFails,
      FilesAre, parts
<1>7. CASE OpenSound \/ OpenV4l2Device \/ SetUpPw \/ MakeSocket
  BY <1>1, <1>7
  DEF OpenSound, OpenV4l2Device, SetUpPw, MakeSocket, FilesAre, parts
<1>8. CASE VideoFrame \/ StopPw \/ CloseOutputs
  BY <1>1, <1>8 DEF VideoFrame, StopPw, CloseOutputs
<1>9. CASE DestroyShm \/ CloseSocket \/ Release
  BY <1>1, <1>9 DEF DestroyShm, CloseSocket, Release, FilesAre, parts
<1>10. CASE PwLoopRuns \/ FormatIsSet
  BY <1>1, <1>10 DEF PwLoopRuns, FormatIsSet
<1>11. CASE UNCHANGED lifeVars
  BY <1>1, <1>11 DEF lifeVars, parts
<1> QED
  BY <1>3, <1>4, <1>5, <1>6, <1>7, <1>8, <1>9, <1>10, <1>11
  DEF LifeNext, MainStep

-----------------------------------------------------------------------------
LifeInv ==
    FilesInv /\ ModulesInv /\ FormatInv /\ ObjectsInv /\ FrameInv /\ UploadInv

LEMMA InitLife == LifeInit => LifeInv
<1> SUFFICES ASSUME LifeInit PROVE LifeInv
  OBVIOUS
<1> USE DEF LifeInit
<1>1. FilesInv
  BY DEF FilesInv, MainPlaces, Idle, CleanRunRecovers
<1>2. ModulesInv
  <2>1. Count(sinkKnown) = 0 /\ Count(remapKnown) = 0
    BY DEF PulseInit, Count
  <2>2. nullSinks \in 0..MaxModules /\ remaps \in 0..MaxModules
    BY PulseAssumption DEF PulseInit
  <2> QED
    BY <2>1, <2>2 DEF ModulesInv, PulseInit
<1>3. FormatInv
  BY DEF FormatInv, V4l2Init
<1>4. ObjectsInv /\ FrameInv
  <2>1. mainAt # "push2" /\ 0 \in 0..MaxPushed
    BY PwAssumption
  <2>2. ObjectsInv
    BY DEF ObjectsInv, PwInit
  <2>3. FrameInv
    BY <2>1 DEF FrameInv, PwInit
  <2> QED
    BY <2>2, <2>3
<1>5. UploadInv
  BY InitUpload
<1> QED
  BY <1>1, <1>2, <1>3, <1>4, <1>5 DEF LifeInv

LEMMA LifeKept == LifeInv /\ [LifeNext]_lifeVars => LifeInv'
BY FilesKept, ModulesKept, FormatKept, ObjectsKept, FrameKept, UploadKept
DEF LifeInv

\* The inductive invariant of the life of k4wd: at every statement of main(),
\* what there is of files, modules, formats and PipeWire's objects, whatever
\* failed before and however often k4wd was killed.
THEOREM LifeInvariant == LifeSpec => []LifeInv
BY InitLife, LifeKept, PTL DEF LifeSpec

\* The variables of the life cycle keep to their types.
THEOREM LifeTypeCorrect == LifeSpec => []LifeTyped
<1>1. LifeInv => LifeTyped
  BY PwAssumption
  DEF LifeInv, LifeTyped, UploadInv, FilesInv, ModulesInv, FormatInv,
      ObjectsInv, FrameInv
<1> QED
  BY LifeInvariant, <1>1, PTL

\* Wherever main() returns, its own files are gone, and modules of k4wd's are
\* in the sound server only after a crash or a failure of pactl
\* (main.c:99-147, kinect.c:385, audio.c:58).
THEOREM NothingStaysBehind == LifeSpec => []ExitLeavesNothing
<1>1. LifeInv => ExitLeavesNothing
  BY DEF LifeInv, FilesInv, ModulesInv, ExitLeavesNothing, Idle, SoundPlaces,
     Count
<1> QED
  BY LifeInvariant, <1>1, PTL

\* A run that came as far as its socket and returned has removed what any
\* number of crashes before it left in /tmp and /dev/shm.
THEOREM CleanRuns == LifeSpec => []CleanRunRecovers
<1>1. LifeInv => CleanRunRecovers
  BY DEF LifeInv, FilesInv
<1> QED
  BY LifeInvariant, <1>1, PTL

\* Frames are written to the V4L2 device in the format it had when it was
\* asked, unless another program interfered (v4l2.c:90-131).
THEOREM FramesFit == LifeSpec => []FramesFitDevice
<1>1. LifeInv => FramesFitDevice
  BY DEF LifeInv, FormatInv, FramesFitDevice
<1> QED
  BY LifeInvariant, <1>1, PTL

\* PipeWire's thread never copies from a buffer that is freed, though neither
\* thread takes a lock (pw_source.c:198-212).
THEOREM BufferOutlives == LifeSpec => []BufferOutlivesLoop
<1>1. LifeInv => BufferOutlivesLoop
  BY DEF LifeInv, ObjectsInv, BufferOutlivesLoop
<1> QED
  BY LifeInvariant, <1>1, PTL

\* However many frames are pushed, a consumer's frame lags by one at most in
\* its second half (pw_source.c:35).
THEOREM TornByOne == LifeSpec => []TornByOneFrame
<1>1. LifeInv => TornByOneFrame
  BY DEF LifeInv, FrameInv, TornByOneFrame
<1> QED
  BY LifeInvariant, <1>1, PTL

\* PipeWire's thread finds its stream gone only while it is torn down
\* (pw_source.c:198).
THEOREM LateCalls == LifeSpec => LateCallsOnlyInTeardown
<1>1. LifeInv /\ [LifeNext]_lifeVars =>
          [~badCall /\ badCall' => mainAt \in Teardown]_lifeVars
  <2> SUFFICES ASSUME LifeInv, LifeNext, ~badCall, badCall'
               PROVE  mainAt \in Teardown
    BY DEF lifeVars, parts, pwVars, loopVars
  <2>1. ASSUME UNCHANGED badCall PROVE FALSE
    BY <2>1
  <2>2. CASE PwLoopRuns
    <3>1. Queue
      BY <2>1, <2>2
      DEF PwLoopRuns, LoopThread, Dequeue, CopyFirstHalf, CopySecondHalf
    <3>2. pwStream # "live" /\ pwLoop = "running"
      BY <3>1 DEF Queue, LoopGoto, UseStream, LifeInv, ObjectsInv
    <3> QED
      BY <3>2 DEF LifeInv, ObjectsInv
  <2>3. CASE SetUpPw
    BY <2>1, <2>3
    DEF SetUpPw, AllocateBuffer, MakeObjects, StartLoop, DestroyStream,
        ForgetStream, StopLoop, DestroyContext, DestroyLoop, loopVars, pwVars
  <2>4. CASE StopPw
    BY <2>4
    DEF StopPw, DestroyStream, ForgetStream, DestroyContext, StopLoop,
        DestroyLoop, FreeBuffer, ForgetBuffer, loopVars
  <2>5. CASE VideoFrame
    BY <2>1, <2>5 DEF VideoFrame, PushFirst, PushSecond, pwVars, loopVars
  <2>6. CASE Crash
    BY <2>6 DEF Crash, PwDies
  <2>7. CASE \/ Begin \/ Lock \/ SetupRuns \/ EndSetup \/ TryCamera
             \/ MakeDepth \/ MakeVideo \/ MakeAudio \/ MakeSocket
    BY <2>1, <2>7
    DEF Begin, Lock, SetupRuns, EndSetup, TryCamera, MakeDepth, MakeVideo,
        MakeAudio, MakeSocket, MakeShm, ShmFails, FilesAre, parts, pwVars,
        loopVars
  <2>8. CASE \/ OpenSound \/ OpenV4l2Device \/ CloseOutputs \/ DestroyShm
             \/ CloseSocket \/ Release \/ PlugDuringSetup \/ FormatIsSet
    BY <2>1, <2>8
    DEF OpenSound, OpenV4l2Device, CloseOutputs, DestroyShm, CloseSocket,
        Release, PlugDuringSetup, FormatIsSet, FilesAre, parts, pwVars,
        loopVars
  <2> QED
    BY <2>2, <2>3, <2>4, <2>5, <2>6, <2>7, <2>8 DEF LifeNext, MainStep
<1> QED
  BY LifeInvariant, <1>1, PTL DEF LifeSpec, LateCallsOnlyInTeardown, Teardown

\* What holds of the upload by itself holds of every upload in the life of
\* k4wd, a crash in the middle of one included.
THEOREM UploadsInLife ==
    LifeSpec => [](LaunchedImageHasNoHole /\ HostKeepsStep /\ NothingLeftOpen)
<1>1. LifeInv => LaunchedImageHasNoHole /\ HostKeepsStep /\ NothingLeftOpen
  BY DEF LifeInv, UploadInv, NothingLeftOpen, HeldInv
<1> QED
  BY LifeInvariant, <1>1, PTL
-----------------------------------------------------------------------------
LEMMA UploadBounded ==
    UploadInv => UploadStepsLeft \in 0..(4 * ImageChunks + 10)
<1> SUFFICES ASSUME UploadInv
             PROVE  UploadStepsLeft \in 0..(4 * ImageChunks + 10)
  OBVIOUS
<1>1. /\ ImageChunks \in Nat /\ offset \in Nat /\ offset <= ImageChunks
      /\ page \in Nat /\ sent \in Nat /\ fwPC \in FwPCs
  BY FirmwareAssumption DEF UploadInv, FirmwareTyped
<1>2. fwPC = "data" => /\ page > 0 /\ offset + page <= ImageChunks
                       /\ sent <= page
  BY DEF UploadInv, PagesInv
<1>3. CASE fwPC = "data"
  BY <1>1, <1>2, <1>3 DEF UploadStepsLeft, ChunksLeft
<1>4. CASE fwPC # "data"
  <2>1. ChunksLeft \in 0..ImageChunks
    BY <1>1 DEF ChunksLeft
  <2>2. \/ UploadStepsLeft \in 0..3
        \/ \E n \in 4..10 : UploadStepsLeft = 4 * ChunksLeft + n
    BY <1>1, <1>4 DEF UploadStepsLeft, FwPCs
  <2> QED
    BY <1>1, <2>1, <2>2
<1> QED
  BY <1>3, <1>4

LEMMA UploadCloser ==
    UploadInv /\ SetupStep => UploadStepsLeft' < UploadStepsLeft
<1> SUFFICES ASSUME UploadInv, SetupStep
             PROVE  UploadStepsLeft' < UploadStepsLeft
  OBVIOUS
<1>1. /\ ImageChunks \in Nat /\ offset \in Nat /\ offset <= ImageChunks
      /\ page \in Nat /\ sent \in Nat /\ fwPC \in FwPCs
  BY FirmwareAssumption DEF UploadInv, FirmwareTyped
<1>2. /\ fwPC \in {"command", "data"}
            => page > 0 /\ offset + page <= ImageChunks
      /\ fwPC = "command" => sent = 0
      /\ fwPC = "data" => sent <= page
  BY DEF UploadInv, PagesInv
<1> USE DEF UploadStepsLeft, ChunksLeft, FwGoto, Opens, Refuse, FwReturn,
    uploadVars
<1>3. CASE Opening
  BY <1>1, <1>3 DEF Opening, Probe, OpenFile, OpenBoot, ClaimInterface
<1>4. CASE Greet
  BY <1>1, <1>4 DEF Greet
<1>5. CASE ReadPage
  BY <1>1, <1>5, FirmwareAssumption DEF ReadPage
<1>6. CASE PageCommand
  <2>1. /\ fwPC = "command" /\ fwPC' \in {"data", "launch"}
        /\ UNCHANGED <<offset, page, sent>>
    BY <1>6 DEF PageCommand
  <2> QED
    BY <1>1, <1>2, <2>1
<1>7. CASE SendChunk
  <2>1. /\ fwPC = "data" /\ UNCHANGED <<offset, page>>
        /\ \/ fwPC' = "data" /\ sent' = sent + 1
           \/ fwPC' = "cleanUp"
    BY <1>7 DEF SendChunk
  <2> QED
    BY <1>1, <1>2, <2>1
<1>8. CASE PageDone
  BY <1>1, <1>2, <1>8 DEF PageDone
<1>9. CASE Launch \/ CleanUp
  BY <1>1, <1>9 DEF Launch, CleanUp
<1>10. CASE Settle \/ Reopen \/ CheckUac
  BY <1>1, <1>10 DEF Settle, Reopen, CheckUac
<1> QED
  BY <1>3, <1>4, <1>5, <1>6, <1>7, <1>8, <1>9, <1>10
  DEF SetupStep, Uploading

LEMMA LifeBounded == LifeInv => StepsLeft \in 0..(4 * ImageChunks + 29)
<1> SUFFICES ASSUME LifeInv PROVE StepsLeft \in 0..(4 * ImageChunks + 29)
  OBVIOUS
<1>1. ImageChunks \in Nat /\ UploadStepsLeft \in 0..(4 * ImageChunks + 10)
  BY UploadBounded, FirmwareAssumption DEF LifeInv
<1>2. \/ StepsLeft \in 0..17
      \/ \E n \in 1..19 : StepsLeft = n + UploadStepsLeft
  <2>1. mainAt \in MainPlaces
    BY DEF LifeInv, FilesInv
  <2>2. CASE mainAt \in {"setup", "lock", "setupOnly"}
    BY <2>2 DEF StepsLeft, Idle
  <2>3. CASE mainAt \in Idle \cup {"run"} \cup Shm
    BY <2>3 DEF StepsLeft, Idle, Shm
  <2>4. CASE mainAt \in {"camera", "giveUp", "loadSink", "loadRemap",
                         "openSound", "v4l2", "pwBuffer", "pwMake",
                         "pwStart", "pwConnect", "socket"}
    BY <2>4 DEF StepsLeft, Idle
  <2>5. CASE mainAt \in {"undo1", "undo2", "undo3", "undo4", "write",
                         "push1", "push2", "stop1", "stop2", "stop3"}
    BY <2>5 DEF StepsLeft, Idle
  <2>6. CASE mainAt \in {"stop4", "stop5", "stop6", "release1", "release2",
                         "destroyShm", "closeSocket", "release"}
    BY <2>6 DEF StepsLeft, Idle
  <2> QED
    BY <2>1, <2>2, <2>3, <2>4, <2>5, <2>6 DEF MainPlaces
<1> QED
  BY <1>1, <1>2

\* A start, the writing of a frame or a shutdown takes main() no more steps
\* than the length of the firmware image allows.
THEOREM StepsBounded ==
    LifeSpec => [](StepsLeft \in 0..(4 * ImageChunks + 29))
BY LifeInvariant, LifeBounded, PTL

\* Every step of main() between two polls brings it closer to the next one or
\* to its return, whatever fails in it; and neither PipeWire's thread, another
\* program nor somebody who plugs a Kinect in takes it back. This is the
\* well-founded half of PhasesEnd.
THEOREM MainComesCloser == LifeSpec => [][ComesCloser]_lifeVars
<1>1. LifeInv' => (StepsLeft \in 0..(4 * ImageChunks + 29))'
  BY LifeBounded, PTL
<1>2. UploadInv' => (UploadStepsLeft \in 0..(4 * ImageChunks + 10))'
  BY UploadBounded, PTL
<1>3. LifeInv /\ [LifeNext]_lifeVars => [ComesCloser]_lifeVars
  <2> SUFFICES ASSUME LifeInv, LifeNext, mainAt \notin Idle \cup {"run"}
               PROVE  /\ StepsLeft' <= StepsLeft
                      /\ MainStep => StepsLeft' < StepsLeft
    BY DEF ComesCloser
  <2>1. UploadStepsLeft \in Nat
    BY UploadBounded, FirmwareAssumption DEF LifeInv
  <2>2. StepsLeft \in Nat /\ StepsLeft' \in Nat
    <3>1. LifeInv'
      BY LifeKept
    <3>2. StepsLeft' \in 0..(4 * ImageChunks + 29)
      BY <1>1, <3>1
    <3> QED
      BY <3>2, LifeBounded, FirmwareAssumption
  <2> USE DEF At, FilesAre, NoFiles, MakeShm, ShmFails, Idle
  <2>3. ASSUME MainStep PROVE StepsLeft' < StepsLeft
    <3>1. CASE Lock
      <4>1. UploadStepsLeft' = UploadStepsLeft
        BY <3>1 DEF Lock, parts, firmwareVars, uploadVars, UploadStepsLeft,
           ChunksLeft
      <4> QED
        BY <2>1, <3>1, <4>1 DEF Lock, StepsLeft
    <3>2. CASE SetupRuns
      <4>1. UploadStepsLeft' < UploadStepsLeft
        BY <3>2, UploadCloser DEF SetupRuns, LifeInv
      <4>2. UploadInv'
        BY UploadKept DEF LifeInv
      <4>3. UploadStepsLeft' \in 0..(4 * ImageChunks + 10)
        BY <1>2, <4>2
      <4> QED
        BY <2>1, <3>2, <4>1, <4>3, FirmwareAssumption DEF SetupRuns, StepsLeft
    <3>3. CASE EndSetup
      BY <2>1, <3>3 DEF EndSetup, StepsLeft
    <3>4. CASE TryCamera \/ MakeDepth \/ MakeVideo \/ MakeAudio
      BY <3>4 DEF TryCamera, MakeDepth, MakeVideo, MakeAudio, StepsLeft
    <3>5. CASE OpenSound \/ OpenV4l2Device
      <4>1. \/ mainAt = "loadSink" /\ mainAt' \in {"loadRemap", "openSound"}
            \/ mainAt = "loadRemap" /\ mainAt' = "openSound"
            \/ mainAt = "openSound" /\ mainAt' = "v4l2"
            \/ mainAt = "v4l2" /\ mainAt' = "pwBuffer"
        BY <3>5 DEF OpenSound, OpenV4l2Device
      <4> QED
        BY <4>1 DEF StepsLeft
    <3>6. CASE SetUpPw
      <4>1. \/ mainAt = "pwBuffer" /\ mainAt' = "pwMake"
            \/ mainAt = "pwMake" /\ mainAt' \in {"pwStart", "socket"}
            \/ mainAt = "pwStart" /\ mainAt' = "pwConnect"
            \/ mainAt = "pwConnect" /\ mainAt' \in {"undo1", "socket"}
            \/ mainAt = "undo1" /\ mainAt' = "undo2"
            \/ mainAt = "undo2" /\ mainAt' = "undo3"
            \/ mainAt = "undo3" /\ mainAt' = "undo4"
            \/ mainAt = "undo4" /\ mainAt' = "socket"
        BY <3>6 DEF SetUpPw
      <4> QED
        BY <4>1 DEF StepsLeft
    <3>7. CASE MakeSocket \/ VideoFrame
      BY <3>7 DEF MakeSocket, VideoFrame, StepsLeft
    <3>8. CASE StopPw
      BY <3>8 DEF StopPw, StepsLeft
    <3>9. CASE CloseOutputs \/ DestroyShm \/ CloseSocket \/ Release
      BY <3>9 DEF CloseOutputs, DestroyShm, CloseSocket, Release, StepsLeft
    <3> QED
      BY <2>3, <3>1, <3>2, <3>3, <3>4, <3>5, <3>6, <3>7, <3>8, <3>9
      DEF MainStep
  <2>4. CASE PwLoopRuns \/ PlugDuringSetup \/ FormatIsSet
    <3>1. mainAt' = mainAt
      BY <2>4 DEF PwLoopRuns, PlugDuringSetup, FormatIsSet
    <3>2. UploadStepsLeft' = UploadStepsLeft
      BY <2>4
      DEF PwLoopRuns, PlugDuringSetup, PlugUnplug, FormatIsSet, firmwareVars,
          uploadVars, UploadStepsLeft, ChunksLeft
    <3>3. StepsLeft' = StepsLeft
      BY <3>1, <3>2 DEF StepsLeft
    <3>4. StepsLeft' <= StepsLeft
      BY <2>2, <3>3
    <3> QED
      BY <2>3, <3>4
  <2>5. CASE Crash
    <3>1. StepsLeft' = 0
      BY <2>5 DEF Crash, StepsLeft
    <3>2. StepsLeft' <= StepsLeft
      BY <2>2, <3>1
    <3> QED
      BY <2>3, <3>2
  <2>6. CASE MainStep
    BY <2>2, <2>3, <2>6
  <2> QED
    BY <2>4, <2>5, <2>6 DEF LifeNext, Begin
<1> QED
  BY LifeInvariant, <1>3, PTL DEF LifeSpec
=============================================================================

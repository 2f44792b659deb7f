------------------------------ MODULE Firmware ------------------------------
(***************************************************************************)
(* k4w_firmware_setup of firmware.c: a Kinect microphone that is still in  *)
(* its bootloader (02ad) is sent the UAC firmware page by page and comes   *)
(* back as 02bb.  The bootloader is external: it stores the data of a page *)
(* at the address of the page's command and starts the image when told to. *)
(* Sizes and addresses are counted in transfers of 512 bytes ("chunks").   *)
(***************************************************************************)
EXTENDS Integers

CONSTANTS ImageChunks, \* length of the firmware file
          PageChunks   \* length of a page: 32 in the code (0x4000 bytes)

ASSUME FirmwareAssumption == ImageChunks \in Nat /\ PageChunks \in Nat \ {0}

VARIABLES
    \* ---- the USB device
    mode,      \* "boot" (02ad), "uac" (02bb) or "absent"
    attached,  \* the open handle still reaches the bootloader
    memory,    \* pairs <<address, chunk of the image stored there>>
    expecting, \* chunks of data that belong to the last page command
    launched,  \* the image was started
    \* ---- k4w_firmware_setup and upload_uac_firmware
    fwPC,
    held,      \* what is open: "file", "context", "handle", "interface"
    offset,    \* chunks of the file in the pages before this one
    addr, page, sent, \* of this page: address, length, chunks transferred
    fwResult,
    \* ---- history
    cut,       \* the loop over the pages ended before the end of the file
    misled,    \* a transfer was reported as failed and had arrived
    outOfStep  \* the bootloader took a command for data of a page

device == <<mode, attached, memory, expecting, launched, outOfStep>>
uploadVars == <<held, offset, addr, page, sent, fwResult>>
firmwareVars == <<device, fwPC, uploadVars, cut, misled>>

FwPCs == {"probe", "openFile", "openBoot", "claim", "greet", "read",
          "command", "data", "launch", "cleanUp", "settle", "reopen",
          "checkUac", "done"}
Holdings == {"file", "context", "handle", "interface"}

FirmwareInit ==
    /\ mode \in {"boot", "uac", "absent"} /\ attached = FALSE
    /\ memory = {} /\ expecting = 0 /\ launched = FALSE
    /\ fwPC = "probe" /\ held = {} /\ fwResult = "none"
    /\ offset = 0 /\ addr = 0 /\ page = 0 /\ sent = 0
    /\ cut = FALSE /\ misled = FALSE /\ outOfStep = FALSE

FwGoto(from, to) == fwPC = from /\ fwPC' = to

FwReturn(from, result) ==
    /\ FwGoto(from, "done")
    /\ fwResult' = result /\ held' = held \ {"context"}
    /\ UNCHANGED <<device, offset, addr, page, sent, cut, misled>>

\* Mutant: a failed claim returns at once.
RefuseAtOnce(from) ==
    /\ FwGoto(from, "reopen")
    /\ UNCHANGED <<device, uploadVars, cut, misled>>

\* A failure before the first transfer closes everything that was opened.
Refuse(from) ==
    /\ FwGoto(from, "reopen")
    /\ held' = {}
    /\ attached' = FALSE
    /\ UNCHANGED <<mode, memory, expecting, launched, outOfStep>>
    /\ UNCHANGED <<offset, addr, page, sent, fwResult, cut, misled>>

Opens(from, to, what) ==
    /\ FwGoto(from, to)
    /\ held' = held \cup what
    /\ UNCHANGED <<memory, expecting, launched, mode, outOfStep>>
    /\ UNCHANGED <<offset, addr, page, sent, fwResult, cut, misled>>

-----------------------------------------------------------------------------
(* Opening *)

Probe ==
    \/ mode = "boot" /\ Opens("probe", "openFile", {}) /\ UNCHANGED attached
    \/ /\ mode # "boot"
       /\ Opens("probe", "checkUac", {"context"}) /\ UNCHANGED attached

OpenFile ==
    \/ Opens("openFile", "openBoot", {"file"}) /\ UNCHANGED attached
    \/ Refuse("openFile")

OpenBoot ==
    \/ /\ mode = "boot" /\ attached' = TRUE
       /\ Opens("openBoot", "claim", {"context", "handle"})
    \/ mode # "boot" /\ Refuse("openBoot")

ClaimInterface ==
    \/ /\ attached /\ UNCHANGED attached
       /\ Opens("claim", "greet", {"interface"})
    \/ Refuse("claim")

-----------------------------------------------------------------------------
(* Uploading *)

\* What is reported as sent has arrived; an error may come after the arrival.
Transfer(ok, arrives) ==
    /\ ok => arrives
    /\ arrives => attached
    /\ misled' = (misled \/ (arrives /\ ~ok))

\* A command that comes while data is due is taken for data.
CommandArrives == outOfStep' = (outOfStep \/ expecting > 0)

\* The first command and both its replies: no result is looked at.
Greet ==
    /\ FwGoto("greet", "read")
    /\ UNCHANGED <<device, uploadVars, cut, misled>>

\* fread: a full page, what is left of the file, or less after an error.
ReadPage ==
    /\ \E n \in 0..PageChunks :
          /\ offset + n <= ImageChunks
          /\ FwGoto("read", IF n = 0 THEN "launch" ELSE "command")
          /\ page' = n /\ sent' = 0
          /\ cut' = (cut \/ (n = 0 /\ offset < ImageChunks))
    /\ UNCHANGED <<device, held, offset, addr, fwResult, misled>>

\* A page command that fails ends the loop: what was stored is launched.
PageCommand ==
    /\ \E ok, arrives \in BOOLEAN :
          /\ Transfer(ok, arrives)
          /\ FwGoto("command", IF ok THEN "data" ELSE "launch")
          /\ cut' = (cut \/ ~ok)
          /\ IF arrives THEN CommandArrives /\ expecting' = page
                        ELSE UNCHANGED <<outOfStep, expecting>>
    /\ UNCHANGED <<mode, attached, memory, launched, uploadVars>>

\* Mutant: a chunk that fails ends the loop over the chunks only.
SendChunkOrBreak ==
    /\ sent < page
    /\ \E ok, arrives \in BOOLEAN :
          /\ Transfer(ok, arrives)
          /\ FwGoto("data", IF ok THEN "data" ELSE "read")
          /\ sent' = sent + 1
          /\ IF arrives
             THEN /\ memory' = memory \cup {<<addr + sent, offset + sent>>}
                  /\ expecting' = expecting - 1
             ELSE UNCHANGED <<memory, expecting>>
    /\ UNCHANGED <<mode, attached, launched, outOfStep, held, offset>>
    /\ UNCHANGED <<addr, page, fwResult, cut>>

\* A chunk that fails ends the upload: nothing is launched.
SendChunk ==
    /\ sent < page
    /\ \E ok, arrives \in BOOLEAN :
          /\ Transfer(ok, arrives)
          /\ FwGoto("data", IF ok THEN "data" ELSE "cleanUp")
          /\ sent' = IF ok THEN sent + 1 ELSE sent
          /\ IF arrives
             THEN /\ memory' = memory \cup {<<addr + sent, offset + sent>>}
                  /\ expecting' = expecting - 1
             ELSE UNCHANGED <<memory, expecting>>
    /\ UNCHANGED <<mode, attached, launched, outOfStep, held, offset>>
    /\ UNCHANGED <<addr, page, fwResult, cut>>

\* Mutant: every page is read from the start of the file.
PageDoneRewinds ==
    /\ sent = page
    /\ FwGoto("data", "read")
    /\ offset' = 0 /\ addr' = 0
    /\ UNCHANGED <<device, held, page, sent, fwResult, cut, misled>>

\* The reply of a page is read and not looked at.
PageDone ==
    /\ sent = page
    /\ FwGoto("data", "read")
    /\ offset' = offset + page /\ addr' = addr + page
    /\ UNCHANGED <<device, held, page, sent, fwResult, cut, misled>>

\* The bootloader starts the image and leaves the bus; nobody checks.
Launch ==
    /\ FwGoto("launch", "cleanUp")
    /\ \E arrives \in BOOLEAN :
          /\ Transfer(arrives, arrives)
          /\ IF arrives THEN CommandArrives ELSE UNCHANGED outOfStep
          /\ launched' = (arrives /\ expecting = 0)
          /\ mode' = IF launched' THEN "uac" ELSE mode
          /\ attached' = (attached /\ ~launched')
    /\ UNCHANGED <<memory, expecting, uploadVars, cut>>

\* out: whatever happened after the claim, the upload returns 0.
CleanUp ==
    /\ FwGoto("cleanUp", "settle")
    /\ held' = {} /\ attached' = FALSE
    /\ UNCHANGED <<mode, memory, expecting, launched, outOfStep>>
    /\ UNCHANGED <<offset, addr, page, sent, fwResult, cut, misled>>

-----------------------------------------------------------------------------
Settle == FwReturn("settle", "ok")

Reopen == Opens("reopen", "checkUac", {"context"}) /\ UNCHANGED attached

CheckUac == FwReturn("checkUac", IF mode = "uac" THEN "ok" ELSE "failed")

\* The Kinect is unplugged, or plugged in, while the set-up runs.
PlugUnplug ==
    /\ fwPC # "done"
    /\ mode' \in IF mode = "absent" THEN {"boot", "uac"} ELSE {"absent"}
    /\ attached' = FALSE /\ memory' = {} /\ expecting' = 0 /\ launched' = FALSE
    /\ UNCHANGED <<fwPC, uploadVars, cut, misled, outOfStep>>

Opening == Probe \/ OpenFile \/ OpenBoot \/ ClaimInterface
Uploading == \/ Greet \/ ReadPage \/ PageCommand \/ SendChunk \/ PageDone
             \/ Launch \/ CleanUp
SetupStep == Opening \/ Uploading \/ Settle \/ Reopen \/ CheckUac
FirmwareNext == SetupStep \/ PlugUnplug

FirmwareSpec == FirmwareInit /\ [][FirmwareNext]_firmwareVars

-----------------------------------------------------------------------------
FirmwareTyped ==
    /\ mode \in {"boot", "uac", "absent"}
    /\ attached \in BOOLEAN /\ launched \in BOOLEAN
    /\ memory \subseteq (0..(ImageChunks - 1)) \X (0..(ImageChunks - 1))
    /\ expecting \in 0..PageChunks
    /\ fwPC \in FwPCs /\ held \subseteq Holdings
    /\ offset \in 0..ImageChunks /\ addr \in Nat
    /\ page \in 0..PageChunks /\ sent \in 0..PageChunks
    /\ fwResult \in {"none", "ok", "failed"}
    /\ cut \in BOOLEAN /\ misled \in BOOLEAN /\ outOfStep \in BOOLEAN

\* The start of the image, each chunk at its own address
Prefix(n) == {<<i, i>> : i \in 0..(n - 1)}

\* An image that is launched has no hole and nothing out of place, although a
\* page that fails ends the loop and not the upload (firmware.c:92); and it is
\* whole unless the loop was cut short.
LaunchedImageHasNoHole ==
    launched => /\ memory = Prefix(offset)
                /\ offset < ImageChunks => cut

\* The bootloader never takes a command for data, unless the host was told of a
\* failure that did not happen: each page command is followed by exactly the
\* data it announces, though the replies are ignored.
HostKeepsStep == outOfStep => misled

\* Every path through the two functions closes file, context, handle and
\* interface, the three refusals included.
NothingLeftOpen == fwPC = "done" => held = {}

\* A setup that fails has not touched the bootloader: what it may have
\* destroyed it reports as a success.
FailureTouchedNothing ==
    fwResult = "failed" => memory = {} /\ ~launched /\ offset = 0
=============================================================================

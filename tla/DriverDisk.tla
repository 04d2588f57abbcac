----------------------------- MODULE DriverDisk -----------------------------
(***************************************************************************)
(* Driver disks and updates disks: loadDriverFromMedia, loadDriverDisks    *)
(* and the kickstart commands of driverdisk.c, chooseManualDriver of       *)
(* driverselect.c, loadUpdates of loader.c, and the places in the loader's *)
(* main program that call them, in their order.  pc is the stage of the    *)
(* dialogue that runs, or MAIN.  Which devices and partitions there are,   *)
(* what is on a disk, what can be mounted and what the user answers is     *)
(* chosen at every step.                                                   *)
(*                                                                         *)
(* A loop device keeps the file system that its file is on busy.  free()   *)
(* or realloc() of freed memory goes well or ends the loader (CRASH); a    *)
(* freed name still names something that can be mounted or not.            *)
(***************************************************************************)
EXTENDS Integers

\* What a disk holds: all of driverDiskFiles or not, and the file rhdd or
\* rhdd-6.1 that identifies it.
Disks == [files : BOOLEAN, ident : {"good", "empty", "missing"}]
NoDisk == [files |-> FALSE, ident |-> "none"]

VARIABLES
  main,       \* where main is: the next place that may call a dialogue
  pc,
  ret,        \* who called loadDriverFromMedia
  dir,        \* its direction: 1, or -1 after Back
  part,       \* its pointers part and devNames: "null", "set" or "freed"
  devNames,
  ddfile,     \* its ddfile is not NULL
  outer,      \* the call suspended at DEV_PROBE in chooseManualDriver, or NoCall
  drivers,    \* the disk mounted on /tmp/drivers
  loop6,      \* /dev/loop6 is attached to a file
  dpart,      \* a partition is mounted on /tmp/dpart
  answer      \* the last step: a dialogue left with "ok" or "back", a message, none

locals == <<ret, dir, part, devNames, ddfile>>
mounts == <<drivers, loop6, dpart>>
vars == <<main, pc, locals, outer, mounts, answer>>

NoCall == [ret |-> "nobody"]

Init ==
  /\ main = "MODDISK" /\ pc = "MAIN" /\ ret = "nobody"
  /\ dir = 1 /\ part = "null" /\ devNames = "null" /\ ddfile = FALSE /\ outer = NoCall
  /\ drivers = NoDisk /\ loop6 = FALSE /\ dpart = FALSE /\ answer = "none"

Says(a) == answer' = a

\* The local variables at the start of loadDriverFromMedia or loadUpdates.
Fresh(caller) ==
  /\ ret' = caller /\ dir' = 1 /\ part' = "null" /\ devNames' = "null" /\ ddfile' = FALSE

loadDriverFromMedia(caller) == pc' = "DEV_DEVICE" /\ Fresh(caller)

\* loadDriverFromMedia returns.  loadDriverDisks asks for more disks unless its
\* first call ended with Back.
Return(ok) ==
  pc' = CASE ret = "first"  -> IF ok THEN "MORE" ELSE "MAIN"
          [] ret = "more"   -> "MORE"
          [] ret = "manual" -> "MANUAL"
          [] OTHER          -> "MAIN"
-----------------------------------------------------------------------------
(* Disks, mounted *)

\* verifyDriverDisk: without an identification stat() fails and the size tested
\* is whatever was on the stack.
VerifyResults(disk) ==
  CASE ~disk.files            -> {FALSE}
    [] disk.ident = "good"    -> {TRUE}
    [] disk.ident = "empty"   -> {FALSE}
    [] disk.ident = "missing" -> BOOLEAN

\* loadDriverDisk gives up when there is no identification.  (It copies the disk
\* to /tmp/DD-n, reads modinfo, and restarts the firmware loader: see FwLoader.)
loadDriverDisk(disk) == disk.ident # "missing"

\* umount("/tmp/dpart"): EBUSY while /dev/loop6 is attached to a file on it.
DpartBusy == dpart /\ loop6

mountLoopback(disk) == ~loop6 /\ drivers' = disk /\ loop6' = TRUE

\* Mutant: /dev/loop6 is forgotten.
umountLoopbackKeeps == drivers' = NoDisk /\ UNCHANGED loop6

umountLoopback == drivers' = NoDisk /\ loop6' = FALSE
-----------------------------------------------------------------------------
(* main *)

MainSteps == {"MODDISK", "DDIMG", "DDSRC", "KS", "WIZARD", "CHECK", "UPDATES", "END"}
NextStep == [MODDISK |-> "DDIMG", DDIMG |-> "DDSRC", DDSRC |-> "KS", KS |-> "WIZARD",
             WIZARD |-> "CHECK", CHECK |-> "UPDATES", UPDATES |-> "END"]

\* A call that is not asked for, or the end of those that may be repeated.
Skip ==
  /\ pc = "MAIN" /\ main # "END"
  /\ main' = NextStep[main] /\ Says("none")
  /\ UNCHANGED <<pc, locals, outer, mounts>>

\* "Do you have a driver disk?", for the flag and for "cdrom" as the source.
CallDriverDisks ==
  /\ pc = "MAIN" /\ main \in {"MODDISK", "DDSRC", "KS"}
  /\ main' = IF main = "KS" THEN main ELSE NextStep[main]
  /\ \/ pc' = "MAIN" /\ Says("back") /\ UNCHANGED locals
     \/ loadDriverFromMedia("first") /\ Says("ok")
  /\ UNCHANGED <<outer, mounts>>

MoreDriverDisks ==
  /\ pc = "MORE"
  /\ \/ pc' = "MAIN" /\ Says("back") /\ UNCHANGED locals
     \/ loadDriverFromMedia("more") /\ Says("ok")
  /\ UNCHANGED <<main, outer, mounts>>

\* getDDFromSource, apart from "cdrom": nothing is fetched or mounted, or the file
\* is mounted.
getDDFromSource ==
  \/ pc' = "MAIN" /\ UNCHANGED <<drivers, loop6>>
  \/ \E disk \in Disks : pc' = "LOCATION" /\ mountLoopback(disk)

getDDFromDev ==
  \/ pc' = "MAIN" /\ UNCHANGED <<drivers, loop6>>
  \/ \E disk \in Disks : pc' = "LOCATION" /\ drivers' = disk /\ UNCHANGED loop6

\* A driverdisk command of the kickstart file; there may be several.  (Bad arguments
\* end it as a failed mount does.)
useKickstartDD ==
  /\ pc = "MAIN" /\ main = "KS"
  /\ getDDFromDev \/ getDDFromSource
  /\ Says("none")
  /\ UNCHANGED <<main, locals, outer, dpart>>

\* /dd.img, and the source given on the command line.
DDFromMain ==
  /\ pc = "MAIN" /\ main \in {"DDIMG", "DDSRC"} /\ main' = NextStep[main]
  /\ getDDFromSource
  /\ Says("none")
  /\ UNCHANGED <<locals, outer, dpart>>

\* loadFromLocation verifies the disk; getDDFromSource and getDDFromDev undo
\* their mount.
loadFromLocation ==
  /\ pc = "LOCATION"
  /\ \E valid \in VerifyResults(drivers) :
       IF valid THEN pc' = "LOCATION_LOAD" /\ UNCHANGED mounts
                ELSE pc' = "MAIN" /\ umountLoopback /\ UNCHANGED dpart
  /\ Says("none")
  /\ UNCHANGED <<main, locals, outer>>

\* What loadDriverDisk returns is not looked at.
LocationLoad ==
  /\ pc = "LOCATION_LOAD" /\ pc' = "MAIN"
  /\ umountLoopback /\ Says("none")
  /\ UNCHANGED <<main, locals, outer, dpart>>

\* "Add Device" of manualDeviceCheck.
manualDeviceCheck ==
  /\ pc = "MAIN" /\ main = "CHECK"
  /\ pc' = "MANUAL" /\ Says("ok")
  /\ UNCHANGED <<main, locals, outer, mounts>>

\* The calls of the wizard: STEP_DRIVERDISK, and mountHardDrive.
WizardDriverDisk ==
  /\ pc = "MAIN" /\ main = "WIZARD"
  /\ loadDriverFromMedia("wizard") /\ Says("ok")
  /\ UNCHANGED <<main, outer, mounts>>

\* From the network if updatessrc is given, else from a disk if the flag is set.
CallUpdates ==
  /\ pc = "MAIN" /\ main = "UPDATES" /\ main' = NextStep[main]
  /\ \/ pc' = "UPD_REMOTE" /\ UNCHANGED locals
     \/ pc' = "UPD_DEVICE" /\ Fresh("updates")
  /\ Says("none")
  /\ UNCHANGED <<outer, mounts>>
-----------------------------------------------------------------------------
(* loadDriverFromMedia.  Stages the code falls through into are steps of their *)
(* own; its branches that no path reaches are left out (a NULL part or ddfile  *)
(* in DEV_CHOOSEFILE and DEV_LOADFILE, DEV_LOADFILE with dir = -1).            *)

\* Mutant: a single device is taken again, also on the way back.
OnlyDeviceAgain == pc' = "DEV_PART"

\* With a single device there is nothing to go back to.
OnlyDevice == IF dir = -1 THEN Return(FALSE) ELSE pc' = "DEV_PART"

\* getRemovableDevices reallocates devNames, which was freed the last time.
Device ==
  /\ pc = "DEV_DEVICE"
  /\ \/ Return(FALSE) /\ Says("none") /\ UNCHANGED <<dir, devNames>>
     \/ OnlyDevice /\ Says("none") /\ devNames' = "freed" /\ UNCHANGED dir
     \/ /\ dir' = 1 /\ devNames' = "freed"
        /\ \/ Return(FALSE) /\ Says("back")
           \/ pc' = "DEV_PART" /\ Says("ok")
     \/ /\ devNames = "freed"
        /\ pc' = "CRASH" /\ Says("none") /\ UNCHANGED <<dir, devNames>>
  /\ UNCHANGED <<main, ret, part, ddfile, outer, mounts>>

\* part is freed and keeps its value.
Part ==
  /\ pc = "DEV_PART"
  /\ \/ /\ pc' = IF dir = -1 THEN "DEV_DEVICE" ELSE "DEV_INSERT"
        /\ part' = IF part = "null" THEN part ELSE "freed"
        /\ Says("none") /\ UNCHANGED dir
     \/ /\ pc' = "DEV_DEVICE" /\ dir' = -1 /\ Says("back")
        /\ part' = IF part = "null" THEN part ELSE "freed"
     \/ pc' = "DEV_CHOOSEFILE" /\ dir' = 1 /\ Says("ok") /\ part' = "set"
     \/ /\ part = "freed"
        /\ pc' = "CRASH" /\ Says("none") /\ UNCHANGED <<dir, part>>
  /\ UNCHANGED <<main, ret, devNames, ddfile, outer, mounts>>

NoFile == pc' = "DEV_PART" /\ dir' = -1 /\ dpart' = FALSE

\* "make sure nothing is mounted when we get here", or exit(1).
ChooseFile ==
  /\ pc = "DEV_CHOOSEFILE"
  /\ \/ /\ DpartBusy
        /\ pc' = "EXIT" /\ Says("none") /\ UNCHANGED <<dir, ddfile, dpart>>
     \/ /\ ~DpartBusy
        /\ \/ /\ pc' = "DEV_PART" /\ dpart' = FALSE /\ Says("message")
              /\ UNCHANGED <<dir, ddfile>>
           \/ NoFile /\ ddfile' = FALSE /\ Says("back")
           \/ /\ pc' = "DEV_LOADFILE" /\ dir' = 1 /\ dpart' = TRUE
              /\ ddfile' = TRUE /\ Says("ok")
  /\ UNCHANGED <<main, ret, part, devNames, outer, drivers, loop6>>

LoadFile ==
  /\ pc = "DEV_LOADFILE"
  /\ \/ \E disk \in Disks : pc' = "DEV_LOAD" /\ mountLoopback(disk) /\ Says("none")
     \/ pc' = "DEV_CHOOSEFILE" /\ Says("message") /\ UNCHANGED <<drivers, loop6>>
  /\ UNCHANGED <<main, locals, outer, dpart>>

\* Mutant: the direction is not turned round.
InsertBackForward == pc' = "DEV_DEVICE" /\ UNCHANGED dir

InsertBack == pc' = "DEV_DEVICE" /\ dir' = -1

Insert ==
  /\ pc = "DEV_INSERT"
  /\ \/ InsertBack /\ Says("back") /\ UNCHANGED drivers
     \/ /\ dir' = 1 /\ Says("ok")
        /\ \/ pc' = "DEV_INSERT" /\ UNCHANGED drivers
           \/ \E disk \in Disks : \E valid \in VerifyResults(disk) :
                IF valid THEN pc' = "DEV_LOAD" /\ drivers' = disk
                         ELSE pc' = "DEV_INSERT" /\ UNCHANGED drivers
  /\ UNCHANGED <<main, ret, part, devNames, ddfile, outer, loop6, dpart>>

\* With Back, umount("/tmp/drivers") detaches /dev/loop6 only if mount(8) has asked
\* the kernel to.
Load ==
  /\ pc = "DEV_LOAD"
  /\ IF loadDriverDisk(drivers)
     THEN /\ pc' = "DEV_PROBE" /\ UNCHANGED dir
          /\ IF ddfile THEN umountLoopback /\ dpart' = FALSE
                       ELSE drivers' = NoDisk /\ UNCHANGED <<loop6, dpart>>
     ELSE /\ pc' = IF ddfile THEN "DEV_CHOOSEFILE" ELSE "DEV_INSERT"
          /\ dir' = -1
          /\ drivers' = NoDisk /\ loop6' \in {FALSE, loop6} /\ UNCHANGED dpart
  /\ Says("none")
  /\ UNCHANGED <<main, ret, part, devNames, ddfile, outer>>

\* Nothing is probed for chooseManualDriver.  Otherwise: more devices than before,
\* or the question whether to continue, to take another disk, or to choose.
Probe ==
  /\ pc = "DEV_PROBE"
  /\ \/ Return(TRUE) /\ Says("none") /\ UNCHANGED outer
     \/ /\ ret # "manual"
        /\ \/ Return(TRUE) /\ Says("back") /\ UNCHANGED outer
           \/ pc' = "DEV_DEVICE" /\ Says("ok") /\ UNCHANGED outer
           \/ /\ pc' = "MANUAL" /\ Says("ok")
              /\ outer' = [ret |-> ret, dir |-> dir, part |-> part,
                           devNames |-> devNames, ddfile |-> ddfile]
  /\ UNCHANGED <<main, locals, mounts>>

\* chooseManualDriver: a driver is loaded, Back, or F2 for a driver disk, which
\* calls loadDriverFromMedia, and then itself, whatever came of it.
Manual ==
  /\ pc = "MANUAL"
  /\ \/ loadDriverFromMedia("manual") /\ Says("ok") /\ UNCHANGED outer
     \/ /\ outer = NoCall
        /\ pc' = "MAIN" /\ UNCHANGED <<locals, outer>>
        /\ Says("ok") \/ Says("back")
     \/ /\ outer # NoCall /\ outer' = NoCall
        /\ ret' = outer.ret /\ dir' = outer.dir /\ part' = outer.part
        /\ devNames' = outer.devNames /\ ddfile' = outer.ddfile
        /\ \/ pc' = "DEV_DONE" /\ Says("ok")
           \/ pc' = "DEV_PROBE" /\ Says("back")
  /\ UNCHANGED <<main, mounts>>

Done ==
  /\ pc = "DEV_DONE"
  /\ Return(TRUE) /\ Says("none")
  /\ UNCHANGED <<main, locals, outer, mounts>>
-----------------------------------------------------------------------------
(* loadUpdates, with dir, part and devNames of its own.  Here part and devNames *)
(* are NULL again once they are freed.                                          *)

UpdDevice ==
  /\ pc = "UPD_DEVICE"
  /\ \/ pc' = "MAIN" /\ Says("none") /\ UNCHANGED dir
     \/ pc' = (IF dir = -1 THEN "MAIN" ELSE "UPD_PART") /\ Says("none") /\ UNCHANGED dir
     \/ dir' = 1 /\ pc' = "MAIN" /\ Says("back")
     \/ dir' = 1 /\ pc' = "UPD_PART" /\ Says("ok")
  /\ UNCHANGED <<main, ret, part, devNames, ddfile, outer, mounts>>

\* A device without partitions is used as a whole.  From the menu the code goes
\* on into the prompt, although stage is already UPD_LOAD.
UpdPart ==
  /\ pc = "UPD_PART"
  /\ \/ /\ pc' = IF dir = -1 THEN "UPD_DEVICE" ELSE "UPD_PROMPT"
        /\ part' = IF dir = -1 THEN "null" ELSE "set"
        /\ Says("none") /\ UNCHANGED dir
     \/ pc' = "UPD_DEVICE" /\ dir' = -1 /\ part' = "null" /\ Says("back")
     \/ pc' = "UPD_PROMPT" /\ dir' = 1 /\ part' = "set" /\ Says("ok")
  /\ UNCHANGED <<main, ret, devNames, ddfile, outer, mounts>>

UpdPrompt ==
  /\ pc = "UPD_PROMPT"
  /\ \/ pc' = "UPD_PART" /\ dir' = -1 /\ Says("back")
     \/ pc' = "UPD_LOAD" /\ Says("ok") /\ UNCHANGED dir
  /\ UNCHANGED <<main, ret, part, devNames, ddfile, outer, mounts>>

\* The disk is mounted, copied and unmounted; when copyDirectory fails the stage
\* stays what it is.
UpdLoad ==
  /\ pc = "UPD_LOAD"
  /\ \/ pc' = "UPD_PROMPT" /\ Says("message") /\ UNCHANGED dir
     \/ pc' = "UPD_LOAD" /\ Says("message") /\ UNCHANGED dir
     \/ pc' = "MAIN" /\ Says("none") /\ dir' = 1
  /\ UNCHANGED <<main, ret, part, devNames, ddfile, outer, mounts>>

\* loadUpdatesFromRemote: what cannot be fetched is asked for again.
UpdRemote ==
  /\ pc = "UPD_REMOTE"
  /\ \/ pc' = "MAIN" /\ (Says("none") \/ Says("back"))
     \/ pc' = "UPD_REMOTE" /\ Says("ok")
  /\ UNCHANGED <<main, locals, outer, mounts>>
-----------------------------------------------------------------------------
MainNext ==
  \/ Skip \/ CallDriverDisks \/ MoreDriverDisks \/ useKickstartDD \/ DDFromMain
  \/ loadFromLocation \/ LocationLoad \/ manualDeviceCheck \/ WizardDriverDisk
  \/ CallUpdates
MediaNext ==
  \/ Device \/ Part \/ ChooseFile \/ LoadFile \/ Insert \/ Load \/ Probe \/ Manual \/ Done
UpdatesNext == UpdDevice \/ UpdPart \/ UpdPrompt \/ UpdLoad \/ UpdRemote

Next == MainNext \/ MediaNext \/ UpdatesNext

Spec == Init /\ [][Next]_vars

\* One process, and a user who answers.
FairSpec == Spec /\ WF_vars(Next)
-----------------------------------------------------------------------------
(* Properties *)

Outside == {"MAIN", "MORE", "MANUAL", "DEV_DONE", "EXIT", "CRASH"}
Stages == {"DEV_DEVICE", "DEV_PART", "DEV_CHOOSEFILE", "DEV_LOADFILE", "DEV_INSERT",
           "DEV_LOAD", "DEV_PROBE", "UPD_DEVICE", "UPD_PART", "UPD_PROMPT", "UPD_LOAD",
           "UPD_REMOTE"}
Pointers == {"null", "set", "freed"}
Callers == {"nobody", "first", "more", "manual", "wizard", "updates"}
Suspended == [ret : Callers \ {"nobody", "manual", "updates"}, dir : {-1, 1},
              part : Pointers, devNames : Pointers, ddfile : BOOLEAN]

\* Types; a file is chosen from a partition that is mounted and is not NULL when
\* DEV_LOADFILE begins, and loadUpdates has a device to name in its prompt.
TypeOK ==
  /\ main \in MainSteps
  /\ pc \in Outside \cup Stages \cup {"LOCATION", "LOCATION_LOAD"}
  /\ ret \in Callers /\ dir \in {-1, 1} /\ part \in Pointers /\ devNames \in Pointers
  /\ ddfile \in BOOLEAN /\ drivers \in Disks \cup {NoDisk}
  /\ loop6 \in BOOLEAN /\ dpart \in BOOLEAN
  /\ outer = NoCall \/ outer \in Suspended
  /\ answer \in {"none", "ok", "back", "message"}
  /\ pc = "DEV_LOADFILE" => ddfile /\ dpart
  /\ pc \in {"UPD_PROMPT", "UPD_LOAD"} => part = "set"

\* Whichever way loadDriverFromMedia and its like are left (Back at any depth, an
\* unreadable file, a disk that is no driver disk, a driver chosen by hand), and
\* wherever the user chooses a device or inserts a disk anew, /tmp/drivers and
\* /tmp/dpart are unmounted and /dev/loop6 is free for the next disk.
NothingMounted ==
  pc \in {"MAIN", "MORE", "MANUAL", "DEV_DONE", "DEV_DEVICE", "DEV_PART", "DEV_INSERT"} =>
    drivers = NoDisk /\ ~loop6 /\ ~dpart

\* The dialogues never go round without end on their own: again and again they ask
\* or show a message, or the loader is back in main or has ended.
DialogueAsks == []<>(answer # "none" \/ pc \in {"MAIN", "EXIT", "CRASH"})

\* A user who from some time on leaves every dialogue with Back (or "Continue")
\* gets out of loadDriverFromMedia, chooseManualDriver and loadUpdates.  (An
\* updates disk that cannot be copied is read again and again.)
BackLeadsOut ==
  <>[](answer # "ok") => []<>(pc \in {"MAIN", "EXIT", "CRASH", "UPD_LOAD"})
=============================================================================

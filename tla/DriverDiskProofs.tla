-------------------------- MODULE DriverDiskProofs --------------------------
(***************************************************************************)
(* Proofs about the driver disk dialogues: what is mounted at each of      *)
(* their stages, and how deep loadDriverFromMedia and chooseManualDriver   *)
(* call each other.                                                        *)
(***************************************************************************)
EXTENDS DriverDisk, TLAPS

Media == {"DEV_DEVICE", "DEV_PART", "DEV_CHOOSEFILE", "DEV_LOADFILE", "DEV_INSERT",
          "DEV_LOAD", "DEV_PROBE", "DEV_DONE"}
Updates == {"UPD_DEVICE", "UPD_PART", "UPD_PROMPT", "UPD_LOAD", "UPD_REMOTE"}

\* The stages at which nothing may be mounted.
Quiet == {"MAIN", "MORE", "MANUAL", "DEV_DONE", "DEV_DEVICE", "DEV_PART", "DEV_INSERT",
          "DEV_PROBE"} \cup Updates

\* What is mounted at each stage.  A file that is chosen lies on /tmp/dpart, and
\* /dev/loop6 is only attached to such a file, or by getDDFromSource.  An attached
\* /dev/loop6 keeps /tmp/dpart busy, so that DEV_CHOOSEFILE does not get past its
\* check.
Mounted ==
  /\ pc \in Quiet => drivers = NoDisk /\ ~loop6 /\ ~dpart
  /\ pc \in {"DEV_CHOOSEFILE", "DEV_LOADFILE"} => drivers = NoDisk
  /\ pc \in {"DEV_CHOOSEFILE", "DEV_LOAD"} => (loop6 => dpart)
  /\ pc = "DEV_LOADFILE" => ~loop6
  /\ pc = "DEV_LOAD" => (dpart => ddfile)
  /\ pc \in {"LOCATION", "LOCATION_LOAD"} => ~dpart

\* A call is suspended only while chooseManualDriver, which it called, or a call
\* made from there is under way.
Suspends ==
  /\ pc \in Media => ret \in {"first", "more", "manual", "wizard"}
  /\ outer # NoCall => pc = "MANUAL" \/ pc \in {"EXIT", "CRASH"}
                       \/ (pc \in Media /\ ret = "manual")

IInv == TypeOK /\ Mounted /\ Suspends

\* TypeOK in two parts: the flags, and the rest.
Flags == ddfile \in BOOLEAN /\ loop6 \in BOOLEAN /\ dpart \in BOOLEAN

Values ==
  /\ main \in MainSteps
  /\ pc \in Outside \cup Stages \cup {"LOCATION", "LOCATION_LOAD"}
  /\ ret \in Callers /\ dir \in {-1, 1} /\ part \in Pointers /\ devNames \in Pointers
  /\ drivers \in Disks \cup {NoDisk}
  /\ outer = NoCall \/ outer \in Suspended
  /\ answer \in {"none", "ok", "back", "message"}
  /\ pc = "DEV_LOADFILE" => ddfile /\ dpart
  /\ pc \in {"UPD_PROMPT", "UPD_LOAD"} => part = "set"

-----------------------------------------------------------------------------
LEMMA InitIInv == Init => IInv
  BY Zenon DEF Init, IInv, TypeOK, Mounted, Suspends, MainSteps, Outside, Stages, Callers, Pointers,
         Disks, NoDisk, Quiet, Media, Updates

LEMMA NextFlags == IInv /\ Next => Flags'
<1> SUFFICES ASSUME IInv, Next PROVE Flags'
  BY Zenon
<1> USE DEF IInv, TypeOK, Flags, Says, locals, mounts
<1>1. CASE Skip
  BY <1>1, Zenon DEF Skip, NextStep, MainSteps
<1>2. CASE CallDriverDisks
  BY <1>2, Zenon DEF CallDriverDisks, NextStep, MainSteps, loadDriverFromMedia, Fresh
<1>3. CASE MoreDriverDisks
  BY <1>3, Zenon DEF MoreDriverDisks, loadDriverFromMedia, Fresh
<1>4. CASE useKickstartDD
  BY <1>4, Zenon DEF useKickstartDD, getDDFromDev, getDDFromSource, mountLoopback
<1>5. CASE DDFromMain
  BY <1>5, Zenon DEF DDFromMain, NextStep, MainSteps, getDDFromSource, mountLoopback
<1>6. CASE loadFromLocation
  BY <1>6, Zenon DEF loadFromLocation, umountLoopback
<1>7. CASE LocationLoad
  BY <1>7, Zenon DEF LocationLoad, umountLoopback
<1>8. CASE manualDeviceCheck
  BY <1>8, Zenon DEF manualDeviceCheck
<1>9. CASE WizardDriverDisk
  BY <1>9, Zenon DEF WizardDriverDisk, loadDriverFromMedia, Fresh
<1>10. CASE CallUpdates
  BY <1>10, Zenon DEF CallUpdates, NextStep, MainSteps, Fresh
<1>11. CASE Device
  BY <1>11, Zenon DEF Device, OnlyDevice, Return
<1>12. CASE Part
  BY <1>12, Zenon DEF Part
<1>13. CASE ChooseFile
  BY <1>13, Zenon DEF ChooseFile, NoFile, DpartBusy
<1>14. CASE LoadFile
  BY <1>14, Zenon DEF LoadFile, mountLoopback
<1>15. CASE Insert
  BY <1>15, Zenon DEF Insert, InsertBack
<1>16. CASE Load
  BY <1>16, Zenon DEF Load, umountLoopback
<1>17. CASE Probe
  BY <1>17, Zenon DEF Probe, Return
<1>18. CASE Manual
  <2>1. CASE outer' = outer
    BY <1>18, <2>1, Zenon DEF Manual, loadDriverFromMedia, Fresh
  <2>2. CASE outer # NoCall /\ ddfile' = outer.ddfile
    <3>1. outer.ddfile \in BOOLEAN
      BY <2>2, Zenon DEF Suspended
    <3> QED
      BY <1>18, <2>2, <3>1, Zenon DEF Manual
  <2> QED
    BY <1>18, <2>1, <2>2, Zenon DEF Manual
<1>19. CASE Done
  BY <1>19, Zenon DEF Done, Return
<1>20. CASE UpdDevice
  BY <1>20, Zenon DEF UpdDevice
<1>21. CASE UpdPart
  BY <1>21, Zenon DEF UpdPart
<1>22. CASE UpdPrompt
  BY <1>22, Zenon DEF UpdPrompt
<1>23. CASE UpdLoad
  BY <1>23, Zenon DEF UpdLoad
<1>24. CASE UpdRemote
  BY <1>24, Zenon DEF UpdRemote
<1>25. QED
  BY <1>1, <1>2, <1>3, <1>4, <1>5, <1>6, <1>7, <1>8, <1>9, <1>10, <1>11, <1>12, <1>13, <1>14, <1>15, <1>16, <1>17, <1>18, <1>19, <1>20, <1>21, <1>22, <1>23, <1>24, Zenon DEF Next, MainNext, MediaNext, UpdatesNext

LEMMA NextValues == IInv /\ Next => Values'
<1> SUFFICES ASSUME IInv, Next PROVE Values'
  BY Zenon
<1> USE DEF IInv, TypeOK, Values, Outside, Stages, Callers, Pointers, Media, Says, locals, mounts
<1>1. CASE Skip
  BY <1>1 DEF Skip, NextStep, MainSteps
<1>2. CASE CallDriverDisks
  BY <1>2 DEF CallDriverDisks, NextStep, MainSteps, loadDriverFromMedia, Fresh
<1>3. CASE MoreDriverDisks
  BY <1>3, Zenon DEF MoreDriverDisks, loadDriverFromMedia, Fresh
<1>4. CASE useKickstartDD
  BY <1>4 DEF useKickstartDD, getDDFromDev, getDDFromSource, mountLoopback
<1>5. CASE DDFromMain
  BY <1>5 DEF DDFromMain, NextStep, MainSteps, getDDFromSource, mountLoopback
<1>6. CASE loadFromLocation
  BY <1>6, Zenon DEF loadFromLocation, umountLoopback
<1>7. CASE LocationLoad
  BY <1>7, Zenon DEF LocationLoad, umountLoopback
<1>8. CASE manualDeviceCheck
  BY <1>8, Zenon DEF manualDeviceCheck
<1>9. CASE WizardDriverDisk
  BY <1>9, Zenon DEF WizardDriverDisk, loadDriverFromMedia, Fresh
<1>10. CASE CallUpdates
  BY <1>10 DEF CallUpdates, NextStep, MainSteps, Fresh
<1>11. CASE Device
  BY <1>11 DEF Device, OnlyDevice, Return
<1>12. CASE Part
  BY <1>12 DEF Part
<1>13. CASE ChooseFile
  BY <1>13 DEF ChooseFile, NoFile, DpartBusy
<1>14. CASE LoadFile
  BY <1>14 DEF LoadFile, mountLoopback
<1>15. CASE Insert
  BY <1>15 DEF Insert, InsertBack
<1>16. CASE Load
  BY <1>16 DEF Load, umountLoopback
<1>17. CASE Probe
  <2>1. outer' = NoCall \/ outer' \in Suspended
    <3>1. CASE outer' = outer
      BY <3>1, Zenon
    <3>2. CASE outer' # outer
      <4>1. ret \in {"first", "more", "wizard"}
        BY <1>17, <3>2, Zenon DEF Probe, Suspends
      <4>2. outer' = [ret |-> ret, dir |-> dir, part |-> part,
                      devNames |-> devNames, ddfile |-> ddfile]
        BY <1>17, <3>2, Zenon DEF Probe
      <4> QED
        BY <4>1, <4>2, Zenon DEF Suspended
    <3> QED
      BY <3>1, <3>2, Zenon
  <2> HIDE DEF Pointers
  <2>2. UNCHANGED <<main, ret, dir, part, devNames, ddfile, drivers, dpart>>
    BY <1>17, Zenon DEF Probe
  <2>3. /\ pc' \in {"MORE", "MAIN", "MANUAL", "DEV_DEVICE"}
        /\ answer' \in {"none", "ok", "back"}
    BY <1>17, Zenon DEF Probe, Return
  <2> QED
    BY <2>1, <2>2, <2>3
<1>18. CASE Manual
  <2>1. outer' = NoCall \/ outer' \in Suspended
    BY <1>18, Zenon DEF Manual
  <2>2. ret' \in Callers /\ dir' \in {-1, 1} /\ part' \in Pointers /\ devNames' \in Pointers
    <3>1. CASE outer # NoCall /\ ret' = outer.ret /\ dir' = outer.dir
                /\ part' = outer.part /\ devNames' = outer.devNames
      BY <3>1, Zenon DEF Suspended
    <3>2. CASE UNCHANGED locals
      BY <3>2, Zenon
    <3>3. CASE Fresh("manual")
      BY <3>3, Zenon DEF Fresh
    <3> QED
      BY <1>18, <3>1, <3>2, <3>3, Zenon DEF Manual, loadDriverFromMedia
  <2>3. /\ UNCHANGED <<main, drivers>>
        /\ pc' \in {"MAIN", "DEV_DEVICE", "DEV_DONE", "DEV_PROBE"}
        /\ answer' \in {"ok", "back"}
    BY <1>18, Zenon DEF Manual, loadDriverFromMedia
  <2> QED
    BY <2>1, <2>2, <2>3, Zenon
<1>19. CASE Done
  BY <1>19 DEF Done, Return
<1>20. CASE UpdDevice
  BY <1>20 DEF UpdDevice
<1>21. CASE UpdPart
  BY <1>21, Zenon DEF UpdPart
<1>22. CASE UpdPrompt
  BY <1>22, Zenon DEF UpdPrompt
<1>23. CASE UpdLoad
  BY <1>23, Zenon DEF UpdLoad
<1>24. CASE UpdRemote
  BY <1>24 DEF UpdRemote
<1>25. QED
  BY <1>1, <1>2, <1>3, <1>4, <1>5, <1>6, <1>7, <1>8, <1>9, <1>10, <1>11, <1>12, <1>13, <1>14, <1>15, <1>16, <1>17, <1>18, <1>19, <1>20, <1>21, <1>22, <1>23, <1>24, Zenon DEF Next, MainNext, MediaNext, UpdatesNext

LEMMA NextMounted == IInv /\ Next => Mounted'
<1> SUFFICES ASSUME IInv, Next PROVE Mounted'
  BY Zenon
<1> USE DEF IInv, Mounted, Quiet, Updates, Says, locals, mounts, Media, TypeOK
<1>1. CASE Skip
  BY <1>1, Zenon DEF Skip, NextStep, MainSteps
<1>2. CASE CallDriverDisks
  BY <1>2, Zenon DEF CallDriverDisks, NextStep, MainSteps, loadDriverFromMedia, Fresh
<1>3. CASE MoreDriverDisks
  BY <1>3, Zenon DEF MoreDriverDisks, loadDriverFromMedia, Fresh
<1>4. CASE useKickstartDD
  BY <1>4 DEF useKickstartDD, getDDFromDev, getDDFromSource, mountLoopback
<1>5. CASE DDFromMain
  BY <1>5 DEF DDFromMain, NextStep, MainSteps, getDDFromSource, mountLoopback
<1>6. CASE loadFromLocation
  BY <1>6, Zenon DEF loadFromLocation, umountLoopback
<1>7. CASE LocationLoad
  BY <1>7, Zenon DEF LocationLoad, umountLoopback
<1>8. CASE manualDeviceCheck
  BY <1>8, Zenon DEF manualDeviceCheck
<1>9. CASE WizardDriverDisk
  BY <1>9, Zenon DEF WizardDriverDisk, loadDriverFromMedia, Fresh
<1>10. CASE CallUpdates
  BY <1>10, Zenon DEF CallUpdates, NextStep, MainSteps, Fresh
<1>11. CASE Device
  BY <1>11, Zenon DEF Device, OnlyDevice, Return
<1>12. CASE Part
  BY <1>12, Zenon DEF Part
<1>13. CASE ChooseFile
  BY <1>13, Zenon DEF ChooseFile, NoFile, DpartBusy
<1>14. CASE LoadFile
  BY <1>14, Zenon DEF LoadFile, mountLoopback
<1>15. CASE Insert
  BY <1>15, Zenon DEF Insert, InsertBack
<1>16. CASE Load
  BY <1>16, Zenon DEF Load, umountLoopback
<1>17. CASE Probe
  BY <1>17, Zenon DEF Probe, Return
<1>18. CASE Manual
  BY <1>18, Zenon DEF Manual, loadDriverFromMedia, Fresh
<1>19. CASE Done
  BY <1>19, Zenon DEF Done, Return
<1>20. CASE UpdDevice
  BY <1>20, Zenon DEF UpdDevice
<1>21. CASE UpdPart
  BY <1>21, Zenon DEF UpdPart
<1>22. CASE UpdPrompt
  BY <1>22, Zenon DEF UpdPrompt
<1>23. CASE UpdLoad
  BY <1>23, Zenon DEF UpdLoad
<1>24. CASE UpdRemote
  BY <1>24, Zenon DEF UpdRemote
<1>25. QED
  BY <1>1, <1>2, <1>3, <1>4, <1>5, <1>6, <1>7, <1>8, <1>9, <1>10, <1>11, <1>12, <1>13, <1>14, <1>15, <1>16, <1>17, <1>18, <1>19, <1>20, <1>21, <1>22, <1>23, <1>24, Zenon DEF Next, MainNext, MediaNext, UpdatesNext

LEMMA NextSuspends == IInv /\ Next => Suspends'
<1> SUFFICES ASSUME IInv, Next PROVE Suspends'
  BY Zenon
<1> USE DEF IInv, Suspends, Media, Says, locals, mounts, TypeOK, Suspended, NoCall, Callers
<1>1. CASE Skip
  BY <1>1, Zenon DEF Skip, NextStep, MainSteps
<1>2. CASE CallDriverDisks
  BY <1>2, Zenon DEF CallDriverDisks, NextStep, MainSteps, loadDriverFromMedia, Fresh
<1>3. CASE MoreDriverDisks
  BY <1>3, Zenon DEF MoreDriverDisks, loadDriverFromMedia, Fresh
<1>4. CASE useKickstartDD
  BY <1>4, Zenon DEF useKickstartDD, getDDFromDev, getDDFromSource, mountLoopback
<1>5. CASE DDFromMain
  BY <1>5, Zenon DEF DDFromMain, NextStep, MainSteps, getDDFromSource, mountLoopback
<1>6. CASE loadFromLocation
  BY <1>6, Zenon DEF loadFromLocation, umountLoopback
<1>7. CASE LocationLoad
  BY <1>7, Zenon DEF LocationLoad, umountLoopback
<1>8. CASE manualDeviceCheck
  BY <1>8, Zenon DEF manualDeviceCheck
<1>9. CASE WizardDriverDisk
  BY <1>9, Zenon DEF WizardDriverDisk, loadDriverFromMedia, Fresh
<1>10. CASE CallUpdates
  BY <1>10, Zenon DEF CallUpdates, NextStep, MainSteps, Fresh
<1>11. CASE Device
  BY <1>11, Zenon DEF Device, OnlyDevice, Return
<1>12. CASE Part
  BY <1>12, Zenon DEF Part
<1>13. CASE ChooseFile
  BY <1>13, Zenon DEF ChooseFile, NoFile, DpartBusy
<1>14. CASE LoadFile
  BY <1>14, Zenon DEF LoadFile, mountLoopback
<1>15. CASE Insert
  BY <1>15, Zenon DEF Insert, InsertBack
<1>16. CASE Load
  BY <1>16, Zenon DEF Load, umountLoopback
<1>17. CASE Probe
  BY <1>17, Zenon DEF Probe, Return
<1>18. CASE Manual
  BY <1>18, Zenon DEF Manual, loadDriverFromMedia, Fresh
<1>19. CASE Done
  BY <1>19, Zenon DEF Done, Return
<1>20. CASE UpdDevice
  BY <1>20, Zenon DEF UpdDevice
<1>21. CASE UpdPart
  BY <1>21, Zenon DEF UpdPart
<1>22. CASE UpdPrompt
  BY <1>22, Zenon DEF UpdPrompt
<1>23. CASE UpdLoad
  BY <1>23, Zenon DEF UpdLoad
<1>24. CASE UpdRemote
  BY <1>24, Zenon DEF UpdRemote
<1>25. QED
  BY <1>1, <1>2, <1>3, <1>4, <1>5, <1>6, <1>7, <1>8, <1>9, <1>10, <1>11, <1>12, <1>13, <1>14, <1>15, <1>16, <1>17, <1>18, <1>19, <1>20, <1>21, <1>22, <1>23, <1>24, Zenon DEF Next, MainNext, MediaNext, UpdatesNext

LEMMA NextIInv == IInv /\ [Next]_vars => IInv'
<1>1. CASE Next
  <2>1. IInv => Flags' /\ Values'
    BY <1>1, NextFlags, NextValues, Zenon
  <2>2. Flags' /\ Values' => TypeOK'
    BY Zenon DEF Flags, Values, TypeOK
  <2> QED
    BY <1>1, <2>1, <2>2, NextMounted, NextSuspends, Zenon DEF IInv
<1>2. CASE UNCHANGED vars
  BY <1>2 DEF vars, locals, mounts, IInv, TypeOK, Mounted, Suspends, DpartBusy
<1> QED
  BY <1>1, <1>2, Zenon

\* IInv is invariant.
THEOREM Invariant == Spec => []IInv
  BY InitIInv, NextIInv, PTL DEF Spec

\* The types, and that the stages DEV_LOADFILE and UPD_PROMPT have the file and
\* the device that they name.
THEOREM TypeCorrect == Spec => []TypeOK
  BY Invariant, PTL DEF IInv

\* Whichever way loadDriverFromMedia, loadDriverDisks, chooseManualDriver and the
\* kickstart commands are left, /tmp/drivers and /tmp/dpart are unmounted and
\* /dev/loop6 is free.
THEOREM Unmounted == Spec => []NothingMounted
<1>1. IInv => NothingMounted
  BY Zenon DEF IInv, Mounted, Quiet, NothingMounted
<1> QED
  BY <1>1, Invariant, PTL

\* loadDriverFromMedia and chooseManualDriver call each other, and yet a call
\* that waits in chooseManualDriver is never joined by a second one: it goes on
\* waiting as it is, or it is the one that goes on.
OneCallWaits == outer # NoCall => outer' \in {outer, NoCall}

\* However often loadDriverFromMedia and chooseManualDriver call each other, at most
\* one call of loadDriverFromMedia waits.
THEOREM Recursion == Spec => [][OneCallWaits]_vars
<1>1. IInv /\ [Next]_vars => [OneCallWaits]_vars
  <2> SUFFICES ASSUME IInv, Next, outer # NoCall, outer' # outer
               PROVE  outer' = NoCall
    BY Zenon DEF OneCallWaits
  <2>1. ~Probe
    BY Zenon DEF Probe, IInv, Suspends, Media
  <2> QED
    BY <2>1, Zenon DEF Next, MainNext, MediaNext, UpdatesNext, Skip, CallDriverDisks,
       MoreDriverDisks, useKickstartDD, DDFromMain, loadFromLocation, LocationLoad,
       manualDeviceCheck, WizardDriverDisk, CallUpdates, Device, Part, ChooseFile,
       LoadFile, Insert, Load, Manual, Done, UpdDevice, UpdPart, UpdPrompt, UpdLoad,
       UpdRemote
<1> QED
  BY <1>1, Invariant, PTL DEF Spec
=============================================================================

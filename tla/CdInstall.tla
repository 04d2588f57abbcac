------------------------------ MODULE CdInstall ------------------------------
(***************************************************************************)
(* cdinstall.c: setupCdrom tries the CD drives in turn, checks the medium  *)
(* on request, copies the image to RAM in rescue mode and mounts it.  It   *)
(* goes on with the next drive after a success.                            *)
(***************************************************************************)
EXTENDS Stage2Images

Drive == Drives[cd.drive]
NextDrive == [cd EXCEPT !.drive = @ + 1]

\* The locals of a call; without a CD device the call returns at once.
StartCd(asking) ==
  /\ cd' = [drive |-> 1, retbuf |-> None, interactive |-> asking]
  /\ pc' = IF "cd" \in have THEN "CD_SCAN" ELSE "CD_END"

\* No disc, a disc that cannot be mounted, or one without install.img, which
\* is unmounted again: the next drive.
CdSkip ==
  /\ pc = "CD_SCAN" /\ cd.drive <= Len(Drives)
  /\ cd' = NextDrive
  /\ UNCHANGED <<pc, url, fl, have, ldVars, mntVars, target>>

CdMounted ==
  /\ pc = "CD_SCAN" /\ cd.drive <= Len(Drives) /\ Len(stage2) < MaxStack
  /\ stage2' = Append(stage2, Drive)
  /\ pc' = "CD_FOUND"
  /\ UNCHANGED <<url, fl, have, ldVars, loop0, ramImg, target, cd>>

\* queryCDMediaCheck is called by mountCdromImage only.  The medium is
\* unmounted for the check and any disc may be in the drive afterwards.
BeginMediaCheck ==
  /\ pc = "CD_FOUND" /\ cd.interactive
  /\ stage2' = Beneath
  /\ pc' = "CD_CHECK"
  /\ UNCHANGED <<url, fl, have, ldVars, loop0, ramImg, target, cd>>

\* doPwMount or access failed: once more.
RemountFails == UNCHANGED <<pc, stage2>>

\* After the check a disc with an image must turn up in the drive; any other is
\* unmounted, ejected and asked for again.
Remount ==
  /\ pc = "CD_CHECK"
  /\ \/ RemountFails
     \/ stage2' = Append(stage2, Drive) /\ pc' = "CD_IMAGE"
  /\ UNCHANGED <<url, fl, have, ldVars, loop0, ramImg, target, cd>>

SkipMediaCheck ==
  /\ pc = "CD_FOUND"
  /\ pc' = "CD_IMAGE"
  /\ UNCHANGED <<url, fl, have, ldVars, mntVars, target, cd>>

\* Mutant: the medium of a drive whose image could not be mounted stays.
AfterFailureKept == stage2

\* umount(location) after mountStage2 failed.
AfterFailure == Beneath

\* Mutant: the CD is released although the image on it is in use.
AfterSuccessFree == Beneath

\* The CD is released when the image was copied to RAM.
AfterSuccess == IF fl.ram THEN Beneath ELSE stage2

\* The image is used where it is, or from its copy in RAM.
MountCdImage ==
  /\ pc = "CD_IMAGE"
  /\ \E img \in IF fl.ram THEN CopyResults(Drive) ELSE ImagesAt(Drive) :
       /\ ramImg' = IF fl.ram THEN img ELSE ramImg
       /\ \/ /\ mountStage2(img)
             /\ loop0' = IF fl.ram THEN RamCopy ELSE img
             /\ stage2' = AfterSuccess
             /\ cd' = [NextDrive EXCEPT !.retbuf = Drive]
          \/ /\ ~mountStage2(img)
             /\ UNCHANGED loop0
             /\ stage2' = AfterFailure
             /\ cd' = NextDrive
  /\ pc' = "CD_SCAN"
  /\ UNCHANGED <<url, fl, have, ldVars, target>>

\* All drives tried.  Only mountCdromImage may ask for the disc and try again.
AskForDisc ==
  /\ pc = "CD_SCAN" /\ cd.drive > Len(Drives)
  /\ cd.retbuf = None /\ cd.interactive
  /\ cd' = [cd EXCEPT !.drive = 1]
  /\ UNCHANGED <<pc, url, fl, have, ldVars, mntVars, target>>

\* Found, or Back, or nobody to ask.
CdDone ==
  /\ pc = "CD_SCAN" /\ cd.drive > Len(Drives)
  /\ pc' = "CD_END"
  /\ UNCHANGED <<url, fl, have, ldVars, mntVars, target, cd>>

\* findAnacondaCD returns to the start of doLoaderMain, mountCdromImage to its
\* STEP_STAGE2.
CdReturn ==
  /\ pc = "CD_END"
  /\ url' = cd.retbuf
  /\ pc' = IF cd.interactive THEN "RETURNED" ELSE "SEARCHED"
  /\ UNCHANGED <<fl, have, ldVars, mntVars, target, cd>>

CdNext ==
  \/ CdSkip \/ CdMounted \/ BeginMediaCheck \/ Remount \/ SkipMediaCheck
  \/ MountCdImage \/ AskForDisc \/ CdDone \/ CdReturn
=============================================================================

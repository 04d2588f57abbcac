------------------------------ MODULE HdInstall ------------------------------
(***************************************************************************)
(* hdinstall.c: mountHardDrive and setupIsoImages.  kspartition and        *)
(* ksdirectory, or the choice in the dialog, are the location in target.   *)
(***************************************************************************)
EXTENDS Stage2Images

UsesHdData == method = "hd" /\ data # NoData

\* setupIsoImages succeeds: the copy in /tmp/install.img, complete or not, or
\* what was there before when the partition cannot be read, is mounted.
IsoImageMounted ==
  /\ \E img \in CopyResults(target) : mountStage2(img) /\ ramImg' = img
  /\ loop0' = RamCopy
  /\ Return(target)

\* It fails: /mnt/runtime is unmounted and /dev/loop0 released.
IsoImageFails ==
  /\ \E img \in CopyResults(target) : ~mountStage2(img) /\ ramImg' = img
  /\ loop0' = NoImage

HdStart ==
  /\ pc = "HD_START"
  /\ \/ ~UsesHdData /\ pc' = "HD_ASK" /\ UNCHANGED <<target, method, badRepo>>
     \/ /\ UsesHdData /\ data.loc = None
        /\ pc' = "HD_ASK" /\ ForgetMethod
        /\ UNCHANGED target
     \/ /\ UsesHdData /\ data.loc # None
        /\ target' = data.loc /\ pc' = "HD_DATA"
        /\ UNCHANGED <<method, badRepo>>
  /\ UNCHANGED <<url, fl, have, data, repo, inferred, mntVars, cd>>

HdFromData ==
  /\ pc = "HD_DATA"
  /\ \/ IsoImageMounted /\ UNCHANGED <<method, badRepo>>
     \/ IsoImageFails /\ ForgetMethod /\ pc' = "HD_ASK" /\ UNCHANGED url
  /\ UNCHANGED <<fl, have, data, repo, inferred, stage2, target, cd>>

\* The dialogs: Back, Back from the driver disk, a driver disk, a partition.
HdAsk ==
  /\ pc = "HD_ASK"
  /\ \/ Return(None) /\ LoadDrivers /\ UNCHANGED <<badRepo, target>>
     \/ LoadDrivers /\ UNCHANGED <<pc, url, badRepo, target>>
     \/ /\ target' \in Parts
        /\ badRepo' = TRUE /\ pc' = "HD_SETUP"
        /\ UNCHANGED <<url, have>>
  /\ UNCHANGED <<fl, method, data, repo, inferred, mntVars, cd>>

HdSetup ==
  /\ pc = "HD_SETUP"
  /\ \/ IsoImageMounted
     \/ IsoImageFails /\ pc' = "HD_ASK" /\ UNCHANGED url
  /\ UNCHANGED <<fl, have, ldVars, stage2, target, cd>>

HdNext == HdStart \/ HdFromData \/ HdAsk \/ HdSetup
=============================================================================

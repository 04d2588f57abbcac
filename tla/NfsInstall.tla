----------------------------- MODULE NfsInstall -----------------------------
(***************************************************************************)
(* nfsinstall.c: mountNfsImage.  The stages are values of pc; host and     *)
(* directory are the location in target.                                   *)
(***************************************************************************)
EXTENDS Stage2Images

UsesNfsData == method = "nfs" /\ data # NoData

\* What stage2Data says, or what is missing in it.
NfsFromData ==
  /\ pc = "NFS_STAGE_NFS" /\ UsesNfsData
  /\ \/ /\ data.loc = None
        /\ ForgetMethod
        /\ UNCHANGED <<pc, target>>
     \/ /\ data.loc # None
        /\ target' = data.loc /\ pc' = "NFS_STAGE_MOUNT"
        /\ UNCHANGED <<method, badRepo>>
  /\ UNCHANGED <<url, fl, have, data, repo, inferred, mntVars, cd>>

\* What nfsGetSetup returns when it is not left by Back: both fields are filled.
nfsGetSetup == Exports

\* The dialogue and, for a path to a repository, its completion to the image.
NfsAsk ==
  /\ pc = "NFS_STAGE_NFS" /\ ~UsesNfsData
  /\ \/ Return(None) /\ UNCHANGED <<ldVars, target>>
     \/ \E l \in nfsGetSetup :
          /\ repo' = l /\ l \notin Plain
          /\ setStage2LocFromCmdline(l)
          /\ UNCHANGED <<pc, url, inferred, badRepo, target>>
     \/ \E l \in nfsGetSetup :
          /\ badRepo' = TRUE
          /\ target' = l /\ pc' = "NFS_STAGE_MOUNT"
          /\ UNCHANGED <<url, method, data, repo, inferred>>
  /\ UNCHANGED <<fl, have, mntVars, cd>>

\* mountStage2 failed: the export stays mounted and the stage starts again.
NfsImageBad == pc' = "NFS_STAGE_NFS" /\ UNCHANGED <<method, badRepo, loop0>>

\* doPwMount mounts the export on /mnt/stage2.  At the bound only an export
\* mounted over itself is still taken in: what is visible stays the same, so
\* the retries of a bad image go on as they do in the code.
doPwMount(l) ==
  \/ Len(stage2) < MaxStack /\ stage2' = Append(stage2, l)
  \/ /\ Len(stage2) = MaxStack /\ stage2 # <<>> /\ Visible = l
     /\ UNCHANGED stage2

NfsMount ==
  /\ pc = "NFS_STAGE_MOUNT"
  /\ \/ \* the export cannot be mounted, or has no image and is unmounted again
        /\ ForgetMethod
        /\ pc' = "NFS_STAGE_NFS"
        /\ UNCHANGED mntVars
     \/ /\ doPwMount(target)
        /\ \E img \in ImagesAt(target) :
             \/ /\ mountStage2(img)
                /\ loop0' = img /\ pc' = "NFS_STAGE_UPDATES"
                /\ UNCHANGED <<method, badRepo>>
             \/ ~mountStage2(img) /\ NfsImageBad
        /\ UNCHANGED ramImg
  /\ UNCHANGED <<url, fl, have, data, repo, inferred, target, cd>>

\* RHupdates is mounted elsewhere, copied and unmounted.
NfsUpdates ==
  /\ pc = "NFS_STAGE_UPDATES"
  /\ Return(target)
  /\ UNCHANGED <<fl, have, ldVars, mntVars, target, cd>>

NfsNext == NfsFromData \/ NfsAsk \/ NfsMount \/ NfsUpdates
=============================================================================

----------------------------- MODULE UrlInstall -----------------------------
(***************************************************************************)
(* urlinstall.c: mountUrlImage.  The struct iurlinfo ui is the location in *)
(* target.                                                                 *)
(***************************************************************************)
EXTENDS Stage2Images

UsesUrlData == method = "url" /\ data # NoData

UrlFromData ==
  /\ pc = "URL_STAGE_MAIN" /\ UsesUrlData
  /\ \/ /\ data.loc = None
        /\ ForgetMethod /\ data' = NoData
        /\ UNCHANGED <<pc, target>>
     \/ /\ data.loc # None
        /\ target' = data.loc /\ pc' = "URL_STAGE_FETCH"
        /\ UNCHANGED <<method, badRepo, data>>
  /\ UNCHANGED <<url, fl, have, repo, inferred, mntVars, cd>>

\* What urlMainSetupPanel returns when it is not left by Back.
urlMainSetupPanel == Urls

\* The dialogue; a path to a repository is kept as instRepo (the path
\* alone, no server: not a location) and completed.
UrlAsk ==
  /\ pc = "URL_STAGE_MAIN" /\ ~UsesUrlData
  /\ \/ Return(None) /\ UNCHANGED <<ldVars, target>>
     \/ \E l \in urlMainSetupPanel :
          /\ \/ repo' = "path" /\ l \notin Plain
             \/ UNCHANGED repo
          /\ badRepo' = TRUE
          /\ target' = l /\ pc' = "URL_STAGE_FETCH"
          /\ UNCHANGED <<url, method, data, inferred>>
  /\ UNCHANGED <<fl, have, mntVars, cd>>

\* Mutant: the incomplete copy stays.
FailedCopyKept(l) == Copies(l)

\* A copy during which a write failed is unlinked.
FailedCopy(l) == {NoImage}

\* loadUrlImages returns 0.  updates.img and product.img were fetched before,
\* mounted on /dev/loop7, copied and unmounted again.
loadUrlImages ==
  /\ \E img \in Copies(target) : mountLoopback(img) /\ ramImg' = img
  /\ loop0' = RamCopy

\* loadSingleUrlImage fails: the transfer does not start, the copy fails, or
\* what was copied cannot be mounted.
FetchFails ==
  /\ ramImg' \in {ramImg} \cup FailedCopy(target)
                         \cup {img \in Copies(target) : ~mountLoopback(img)}
  /\ UNCHANGED loop0

UrlFetch ==
  /\ pc = "URL_STAGE_FETCH"
  /\ \/ loadUrlImages /\ Return(target) /\ UNCHANGED <<method, badRepo>>
     \/ /\ FetchFails /\ UNCHANGED url
        /\ ForgetMethod
        /\ pc' = "URL_STAGE_MAIN"
  /\ UNCHANGED <<fl, have, data, repo, inferred, stage2, target, cd>>

UrlNext == UrlFromData \/ UrlAsk \/ UrlFetch
=============================================================================

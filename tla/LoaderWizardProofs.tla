-------------------------- MODULE LoaderWizardProofs --------------------------
(***************************************************************************)
(* Proofs about doLoaderMain and the installation methods: the network is  *)
(* up when it is used, and the URL, the mounts and instRepo agree with the *)
(* image that was found, whatever the drives, partitions, exports and URLs *)
(* and whatever was tried before.                                          *)
(***************************************************************************)
EXTENDS LoaderWizard, TLAPS

\* In rescue mode with two drives setupCdrom copies the image of a second disc
\* over the one in use.
OneCopy == fl.ram => Len(Drives) <= 1

\* Nothing was found, or the image at l is mounted and, if it is not a copy, lies
\* on the last of the mounts.
Found(l, mounts) ==
  IF l = None
  THEN loop0 = NoImage /\ mounts \in Seq(Exports)
  ELSE /\ l \in Locations /\ loop0 # NoImage
       /\ OneCopy => Runtime.src = l
       /\ loop0 # RamCopy => mounts # <<>> /\ mounts[Len(mounts)] = l

Mounting == {"CD_FOUND", "CD_CHECK", "CD_IMAGE"}
Fetching == (HdPoints \cup UrlStages \cup NfsStages) \ {"NFS_STAGE_UPDATES"}

\* What is mounted at each step.
Mounts ==
  /\ stage2 \in Seq(Locations)
  /\ pc \in Steps => Found(url, stage2)
  /\ pc \in {"CD_SCAN", "CD_CHECK", "CD_END"} => Found(cd.retbuf, stage2)
  /\ pc \in {"CD_FOUND", "CD_IMAGE"} => /\ stage2 # <<>> /\ Visible = Drive
                                        /\ Found(cd.retbuf, Beneath)
  /\ pc \in Fetching => Found(None, stage2)
  /\ pc = "NFS_STAGE_UPDATES" => target # None /\ Found(target, stage2)
  /\ ramImg.fs => loop0 # NoImage

\* setupCdrom's place in the list of drives.  With OneCopy it does not try another
\* drive once an image is in RAM.
Scanning ==
  /\ cd = [drive |-> cd.drive, retbuf |-> cd.retbuf, interactive |-> cd.interactive]
  /\ cd.drive \in 1 .. Len(Drives) + 1
  /\ pc \in Mounting => cd.drive <= Len(Drives)
  /\ cd.retbuf \in CdDrives \cup {None}
  /\ pc \in CdPoints /\ fl.ram /\ OneCopy /\ cd.retbuf # None => cd.drive > Len(Drives)

\* What is known before the image is found: which data belong to the method, and
\* what a method works on.
Data ==
  /\ method \in Methods \cup {None}
  /\ data # NoData => /\ data.for \in {"hd", "nfs", "url"}
                      /\ data.loc \in LocationsOf(data.for) \cup {None}
                      /\ method \in {data.for, "cd", None}
  /\ pc \in CdPoints \cup Fetching \cup {"BEFORE", "NFS_STAGE_UPDATES"} => url = None
  /\ pc = "DONE" => url # None
  /\ pc \in {"HD_DATA", "HD_SETUP"} => target \in Parts
  /\ pc \in {"NFS_STAGE_MOUNT", "NFS_STAGE_UPDATES"} => target \in Exports
  /\ pc = "URL_STAGE_FETCH" => target \in Urls

\* Until stage2= is guessed there is no guess, and repo= is as it was given.
Early == pc \in {"BEFORE", "SEARCHED"} \/ (pc \in CdPoints /\ ~cd.interactive)

Repo ==
  /\ Early => ~inferred /\ repo \in Locations \cup {None}
  /\ Early /\ pc # "BEFORE" => data = NoData
  /\ inferred /\ ~badRepo => data = NoData \/ data.loc = repo
  /\ inferred /\ ~badRepo /\ pc \in {"HD_DATA", "NFS_STAGE_MOUNT", "NFS_STAGE_UPDATES",
                                     "URL_STAGE_FETCH"} => target = repo
  /\ pc = "HD_SETUP" => badRepo
  /\ inferred /\ ~badRepo /\ pc = "RETURNED" => url \in {repo, None} \cup Plain
  /\ url # None /\ pc \in Steps \ {"RETURNED", "DONE"} => ~inferred
  /\ RepoFollowsStage2

\* The way to mountNfsImage and mountUrlImage leads through a chosen method and, if
\* it needs one, a configured interface.
Net ==
  /\ pc \in {"DRIVER", "DRIVERDISK", "NETWORK", "IFACE", "STAGE2"} => method # None
  /\ pc = "IP" /\ dir = 1 => method # None
  /\ pc = "STAGE2" /\ method \in {"nfs", "url"} => netUp
  /\ NetworkBeforeFetch

IInv == Scanning /\ Data /\ Mounts /\ Repo /\ Net

-----------------------------------------------------------------------------
\* A location is one of exactly one kind.
LEMMA KindOfLocation ==
  \A l \in Locations : /\ Kind(l) \in Methods /\ l \in LocationsOf(Kind(l))
                       /\ l \in CdDrives => Kind(l) = "cd"
                       /\ l \in Exports => Kind(l) = "nfs"
  BY LocationAssumption, Zenon DEF Locations, Kind, Methods, LocationsOf

LEMMA DriveIsCd == \A n \in 1 .. Len(Drives) : Drives[n] \in CdDrives
  BY LocationAssumption

\* STEP_STAGE2 finds a method to call.
LEMMA Stage2Begins ==
  ASSUME IInv, Stage2
  PROVE  \/ pc' = "DONE" /\ url # None /\ cd' = cd
         \/ StartCd(TRUE) /\ url = None
         \/ /\ pc' \in {"HD_START", "NFS_STAGE_NFS", "URL_STAGE_MAIN"}
            /\ url = None /\ cd' = cd
<1>1. method \in Methods
  BY Zenon DEF IInv, Net, Data, Stage2
<1> QED
  BY <1>1, Zenon DEF Stage2, Methods, FirstStage

LEMMA InitIInv == Init => IInv
  BY LocationAssumption, StartAssumption
     DEF Init, IInv, Scanning, Data, Mounts, Repo, Net, CdPoints, Fetching, Mounting, Steps,
         HdPoints, UrlStages, NfsStages, Early, RepoFollowsStage2, NetworkBeforeFetch, Found,
         NoImage, Methods, StageData, None

LEMMA NextNet == IInv /\ Next => Net'
<1> SUFFICES ASSUME IInv, Next PROVE Net'
  BY Zenon
<1> USE DEF IInv, Net, Data, NetworkBeforeFetch, NfsStages, UrlStages, Methods, None, ldVars, mntVars, wizVars
<1>1. CASE Before
  BY <1>1, Zenon DEF Before, StartCd
<1>2. CASE Searched
  BY <1>2, Zenon DEF Searched, setStage2LocFromCmdline
<1>3. CASE Lang
  BY <1>3, Zenon DEF Lang, LangGoesOn, Go
<1>4. CASE Kbd
  BY <1>4, Zenon DEF Kbd, Go
<1>5. CASE ChooseMethod
  BY <1>5, Zenon DEF ChooseMethod, TakeMethod, Go, SkipsPrompt
<1>6. CASE Driver
  BY <1>6, Zenon DEF Driver, Go
<1>7. CASE DriverDisk
  BY <1>7, Zenon DEF DriverDisk, Go
<1>8. CASE Network
  BY <1>8, Zenon DEF Network, Go, WantsNetwork, Class
<1>9. CASE Iface
  BY <1>9, Zenon DEF Iface, Go
<1>10. CASE Ip
  BY <1>10, Zenon DEF Ip, Go
<1>11. CASE Stage2
  BY <1>11, Zenon DEF Stage2, StartCd, FirstStage
<1>12. CASE Returned
  BY <1>12 DEF Returned, AfterBack, Go, RebuiltRepo
<1>13. CASE CdSkip /\ UNCHANGED wizVars
  BY <1>13, Zenon DEF CdSkip, NextDrive
<1>14. CASE CdMounted /\ UNCHANGED wizVars
  BY <1>14, Zenon DEF CdMounted
<1>15. CASE BeginMediaCheck /\ UNCHANGED wizVars
  BY <1>15, Zenon DEF BeginMediaCheck
<1>16. CASE Remount /\ UNCHANGED wizVars
  BY <1>16, Zenon DEF Remount, RemountFails
<1>17. CASE SkipMediaCheck /\ UNCHANGED wizVars
  BY <1>17, Zenon DEF SkipMediaCheck
<1>18. CASE MountCdImage /\ UNCHANGED wizVars
  BY <1>18, Zenon DEF MountCdImage, NextDrive, AfterSuccess, AfterFailure
<1>19. CASE AskForDisc /\ UNCHANGED wizVars
  BY <1>19, Zenon DEF AskForDisc
<1>20. CASE CdDone /\ UNCHANGED wizVars
  BY <1>20, Zenon DEF CdDone
<1>21. CASE CdReturn /\ UNCHANGED wizVars
  BY <1>21, Zenon DEF CdReturn
<1>22. CASE HdStart /\ UNCHANGED wizVars
  BY <1>22, Zenon DEF HdStart, UsesHdData, ForgetMethod
<1>23. CASE HdFromData /\ UNCHANGED wizVars
  BY <1>23, Zenon DEF HdFromData, ForgetMethod, IsoImageMounted, IsoImageFails, Return
<1>24. CASE HdAsk /\ UNCHANGED wizVars
  BY <1>24, Zenon DEF HdAsk, Return
<1>25. CASE HdSetup /\ UNCHANGED wizVars
  BY <1>25, Zenon DEF HdSetup, IsoImageMounted, IsoImageFails, Return
<1>26. CASE NfsFromData /\ UNCHANGED wizVars
  BY <1>26, Zenon DEF NfsFromData, UsesNfsData, ForgetMethod
<1>27. CASE NfsAsk /\ UNCHANGED wizVars
  BY <1>27, Zenon DEF NfsAsk, UsesNfsData, nfsGetSetup, setStage2LocFromCmdline, Return
<1>28. CASE NfsMount /\ UNCHANGED wizVars
  BY <1>28, Zenon DEF NfsMount, doPwMount, ForgetMethod, NfsImageBad
<1>29. CASE NfsUpdates /\ UNCHANGED wizVars
  BY <1>29, Zenon DEF NfsUpdates, Return
<1>30. CASE UrlFromData /\ UNCHANGED wizVars
  BY <1>30, Zenon DEF UrlFromData, UsesUrlData, ForgetMethod
<1>31. CASE UrlAsk /\ UNCHANGED wizVars
  BY <1>31, Zenon DEF UrlAsk, UsesUrlData, urlMainSetupPanel, Return
<1>32. CASE UrlFetch /\ UNCHANGED wizVars
  BY <1>32, Zenon DEF UrlFetch, Return, ForgetMethod, loadUrlImages, FetchFails
<1>33. QED
  BY <1>1, <1>2, <1>3, <1>4, <1>5, <1>6, <1>7, <1>8, <1>9, <1>10, <1>11, <1>12, 
     <1>13, <1>14, <1>15, <1>16, <1>17, <1>18, <1>19, <1>20, <1>21, <1>22, <1>23, 
     <1>24, <1>25, <1>26, <1>27, <1>28, <1>29, <1>30, <1>31, <1>32
    , Zenon DEF Next, WizardNext, MethodNext, CdNext, HdNext, NfsNext, UrlNext

LEMMA NextScanning == IInv /\ Next => Scanning'
<1> SUFFICES ASSUME IInv, Next PROVE Scanning'
  BY Zenon
<1> USE LocationAssumption, DriveIsCd DEF IInv, Scanning, CdPoints, Mounting, OneCopy, Drive, ldVars, mntVars, wizVars
<1>1. CASE Before
  BY <1>1 DEF Before, StartCd
<1>2. CASE Searched
  BY <1>2, Zenon DEF Searched, setStage2LocFromCmdline
<1>3. CASE Lang
  BY <1>3, Zenon DEF Lang, LangGoesOn, Go
<1>4. CASE Kbd
  BY <1>4, Zenon DEF Kbd, Go
<1>5. CASE ChooseMethod
  BY <1>5, Zenon DEF ChooseMethod, TakeMethod, Go, SkipsPrompt
<1>6. CASE Driver
  BY <1>6, Zenon DEF Driver, Go
<1>7. CASE DriverDisk
  BY <1>7, Zenon DEF DriverDisk, Go
<1>8. CASE Network
  BY <1>8, Zenon DEF Network, Go, WantsNetwork, Class
<1>9. CASE Iface
  BY <1>9, Zenon DEF Iface, Go
<1>10. CASE Ip
  BY <1>10, Zenon DEF Ip, Go
<1>11. CASE Stage2
  BY <1>11, Stage2Begins DEF Stage2, StartCd
<1>12. CASE Returned
  BY <1>12, Zenon DEF Returned, AfterBack, Go, RebuiltRepo
<1>13. CASE CdSkip /\ UNCHANGED wizVars
  BY <1>13 DEF CdSkip, NextDrive
<1>14. CASE CdMounted /\ UNCHANGED wizVars
  BY <1>14, Zenon DEF CdMounted
<1>15. CASE BeginMediaCheck /\ UNCHANGED wizVars
  BY <1>15, Zenon DEF BeginMediaCheck
<1>16. CASE Remount /\ UNCHANGED wizVars
  BY <1>16, Zenon DEF Remount, RemountFails
<1>17. CASE SkipMediaCheck /\ UNCHANGED wizVars
  BY <1>17, Zenon DEF SkipMediaCheck
<1>18. CASE MountCdImage /\ UNCHANGED wizVars
  <2>1. /\ cd.drive <= Len(Drives) /\ pc' = "CD_SCAN"
        /\ cd' = NextDrive \/ (cd' = [NextDrive EXCEPT !.retbuf = Drive])
        /\ UNCHANGED fl
    BY <1>18, Zenon DEF MountCdImage
  <2>2. cd'.drive = cd.drive + 1 /\ cd'.retbuf \in {cd.retbuf, Drive}
        /\ cd' = [drive |-> cd'.drive, retbuf |-> cd'.retbuf, interactive |-> cd'.interactive]
    BY <2>1, Zenon DEF NextDrive
  <2> QED
    BY <2>1, <2>2
<1>19. CASE AskForDisc /\ UNCHANGED wizVars
  BY <1>19 DEF AskForDisc
<1>20. CASE CdDone /\ UNCHANGED wizVars
  BY <1>20, Zenon DEF CdDone
<1>21. CASE CdReturn /\ UNCHANGED wizVars
  BY <1>21, Zenon DEF CdReturn
<1>22. CASE HdStart /\ UNCHANGED wizVars
  BY <1>22, Zenon DEF HdStart, UsesHdData, ForgetMethod
<1>23. CASE HdFromData /\ UNCHANGED wizVars
  BY <1>23, Zenon DEF HdFromData, ForgetMethod, IsoImageMounted, IsoImageFails, Return
<1>24. CASE HdAsk /\ UNCHANGED wizVars
  BY <1>24, Zenon DEF HdAsk, Return
<1>25. CASE HdSetup /\ UNCHANGED wizVars
  BY <1>25, Zenon DEF HdSetup, IsoImageMounted, IsoImageFails, Return
<1>26. CASE NfsFromData /\ UNCHANGED wizVars
  BY <1>26, Zenon DEF NfsFromData, UsesNfsData, ForgetMethod
<1>27. CASE NfsAsk /\ UNCHANGED wizVars
  BY <1>27, Zenon DEF NfsAsk, UsesNfsData, nfsGetSetup, setStage2LocFromCmdline, Return
<1>28. CASE NfsMount /\ UNCHANGED wizVars
  BY <1>28, Zenon DEF NfsMount, doPwMount, ForgetMethod, NfsImageBad
<1>29. CASE NfsUpdates /\ UNCHANGED wizVars
  BY <1>29, Zenon DEF NfsUpdates, Return
<1>30. CASE UrlFromData /\ UNCHANGED wizVars
  BY <1>30, Zenon DEF UrlFromData, UsesUrlData, ForgetMethod
<1>31. CASE UrlAsk /\ UNCHANGED wizVars
  BY <1>31, Zenon DEF UrlAsk, UsesUrlData, urlMainSetupPanel, Return
<1>32. CASE UrlFetch /\ UNCHANGED wizVars
  BY <1>32, Zenon DEF UrlFetch, Return, ForgetMethod, loadUrlImages, FetchFails
<1>33. QED
  BY <1>1, <1>2, <1>3, <1>4, <1>5, <1>6, <1>7, <1>8, <1>9, <1>10, <1>11, <1>12, 
     <1>13, <1>14, <1>15, <1>16, <1>17, <1>18, <1>19, <1>20, <1>21, <1>22, <1>23, 
     <1>24, <1>25, <1>26, <1>27, <1>28, <1>29, <1>30, <1>31, <1>32
    , Zenon DEF Next, WizardNext, MethodNext, CdNext, HdNext, NfsNext, UrlNext

LEMMA NextData == IInv /\ Next => Data'
<1> SUFFICES ASSUME IInv, Next PROVE Data'
  BY Zenon
<1> USE DEF IInv, Data, CdPoints, HdPoints, NfsStages, UrlStages, Fetching, Methods, None, NoData, ldVars, mntVars, wizVars
<1>1. CASE Before
  BY <1>1, Zenon DEF Before, StartCd
<1>2. CASE Searched
  <2>1. ASSUME NEW l \in Locations, setStage2LocFromCmdline(l), data = NoData
        PROVE  /\ method' = Kind(l) /\ Kind(l) \in Methods /\ l \in LocationsOf(Kind(l))
               /\ data' = NoData \/ (data' = [for |-> Kind(l), loc |-> l] /\ Kind(l) # "cd")
    BY <2>1, KindOfLocation, Zenon DEF setStage2LocFromCmdline
  <2>2. data = NoData /\ (url # None => url \in Locations) /\ (repo # None => repo \in Locations)
    BY <1>2, Zenon DEF Searched, Repo, Early, Mounts, Steps, Found
  <2> QED
    BY <1>2, <2>1, <2>2 DEF Searched
<1>3. CASE Lang
  BY <1>3, Zenon DEF Lang, LangGoesOn, Go
<1>4. CASE Kbd
  BY <1>4, Zenon DEF Kbd, Go
<1>5. CASE ChooseMethod
  BY <1>5, Zenon DEF ChooseMethod, TakeMethod, Go, SkipsPrompt
<1>6. CASE Driver
  BY <1>6, Zenon DEF Driver, Go
<1>7. CASE DriverDisk
  BY <1>7, Zenon DEF DriverDisk, Go
<1>8. CASE Network
  BY <1>8, Zenon DEF Network, Go, WantsNetwork, Class
<1>9. CASE Iface
  BY <1>9, Zenon DEF Iface, Go
<1>10. CASE Ip
  BY <1>10, Zenon DEF Ip, Go
<1>11. CASE Stage2
  BY <1>11, Stage2Begins, Zenon DEF Stage2, StartCd
<1>12. CASE Returned
  BY <1>12, Zenon DEF Returned, AfterBack, Go, RebuiltRepo
<1>13. CASE CdSkip /\ UNCHANGED wizVars
  BY <1>13, Zenon DEF CdSkip, NextDrive
<1>14. CASE CdMounted /\ UNCHANGED wizVars
  BY <1>14, Zenon DEF CdMounted
<1>15. CASE BeginMediaCheck /\ UNCHANGED wizVars
  BY <1>15, Zenon DEF BeginMediaCheck
<1>16. CASE Remount /\ UNCHANGED wizVars
  BY <1>16, Zenon DEF Remount, RemountFails
<1>17. CASE SkipMediaCheck /\ UNCHANGED wizVars
  BY <1>17, Zenon DEF SkipMediaCheck
<1>18. CASE MountCdImage /\ UNCHANGED wizVars
  BY <1>18, Zenon DEF MountCdImage, NextDrive, AfterSuccess, AfterFailure
<1>19. CASE AskForDisc /\ UNCHANGED wizVars
  BY <1>19, Zenon DEF AskForDisc
<1>20. CASE CdDone /\ UNCHANGED wizVars
  BY <1>20, Zenon DEF CdDone
<1>21. CASE CdReturn /\ UNCHANGED wizVars
  BY <1>21, Zenon DEF CdReturn
<1>22. CASE HdStart /\ UNCHANGED wizVars
  <2>1. UsesHdData => data.loc \in Parts \cup {None}
    BY Zenon DEF UsesHdData, LocationsOf
  <2> QED
    BY <1>22, <2>1, Zenon DEF HdStart, UsesHdData, ForgetMethod
<1>23. CASE HdFromData /\ UNCHANGED wizVars
  BY <1>23, Zenon DEF HdFromData, ForgetMethod, IsoImageMounted, IsoImageFails, Return
<1>24. CASE HdAsk /\ UNCHANGED wizVars
  BY <1>24, Zenon DEF HdAsk, Return
<1>25. CASE HdSetup /\ UNCHANGED wizVars
  BY <1>25, Zenon DEF HdSetup, IsoImageMounted, IsoImageFails, Return
<1>26. CASE NfsFromData /\ UNCHANGED wizVars
  <2>1. UsesNfsData => data.loc \in Exports \cup {None}
    BY Zenon DEF UsesNfsData, LocationsOf
  <2> QED
    BY <1>26, <2>1, Zenon DEF NfsFromData, UsesNfsData, ForgetMethod
<1>27. CASE NfsAsk /\ UNCHANGED wizVars
  <2>1. ASSUME NEW l \in Exports, setStage2LocFromCmdline(l)
        PROVE  method' = "nfs" /\ data' = [for |-> "nfs", loc |-> l]
    BY <2>1, KindOfLocation, Zenon DEF setStage2LocFromCmdline, Locations
  <2>2. \A l \in Exports : l \in LocationsOf("nfs")
    BY Zenon DEF LocationsOf
  <2> QED
    BY <1>27, <2>1, <2>2 DEF NfsAsk, UsesNfsData, nfsGetSetup, Return
<1>28. CASE NfsMount /\ UNCHANGED wizVars
  BY <1>28, Zenon DEF NfsMount, doPwMount, ForgetMethod, NfsImageBad
<1>29. CASE NfsUpdates /\ UNCHANGED wizVars
  BY <1>29, Zenon DEF NfsUpdates, Return
<1>30. CASE UrlFromData /\ UNCHANGED wizVars
  <2>1. UsesUrlData => data.loc \in Urls \cup {None}
    BY Zenon DEF UsesUrlData, LocationsOf
  <2> QED
    BY <1>30, <2>1, Zenon DEF UrlFromData, UsesUrlData, ForgetMethod
<1>31. CASE UrlAsk /\ UNCHANGED wizVars
  BY <1>31, Zenon DEF UrlAsk, UsesUrlData, urlMainSetupPanel, Return
<1>32. CASE UrlFetch /\ UNCHANGED wizVars
  BY <1>32, Zenon DEF UrlFetch, Return, ForgetMethod, loadUrlImages, FetchFails
<1>33. QED
  BY <1>1, <1>2, <1>3, <1>4, <1>5, <1>6, <1>7, <1>8, <1>9, <1>10, <1>11, <1>12, 
     <1>13, <1>14, <1>15, <1>16, <1>17, <1>18, <1>19, <1>20, <1>21, <1>22, <1>23, 
     <1>24, <1>25, <1>26, <1>27, <1>28, <1>29, <1>30, <1>31, <1>32
    , Zenon DEF Next, WizardNext, MethodNext, CdNext, HdNext, NfsNext, UrlNext

LEMMA NextRepo == IInv /\ Next => Repo'
<1> SUFFICES ASSUME IInv, Next PROVE Repo'
  BY Zenon
<1> USE DEF IInv, Repo, Data, CdPoints, HdPoints, NfsStages, UrlStages, Fetching, Steps, RepoFollowsStage2, Early, ldVars, mntVars, wizVars
<1>1. CASE Before
  BY <1>1, Zenon DEF Before, StartCd
<1>2. CASE Searched
  BY <1>2 DEF Searched, setStage2LocFromCmdline
<1>3. CASE Lang
  BY <1>3, Zenon DEF Lang, LangGoesOn, Go
<1>4. CASE Kbd
  BY <1>4, Zenon DEF Kbd, Go
<1>5. CASE ChooseMethod
  BY <1>5, Zenon DEF ChooseMethod, TakeMethod, Go, SkipsPrompt
<1>6. CASE Driver
  BY <1>6, Zenon DEF Driver, Go
<1>7. CASE DriverDisk
  BY <1>7, Zenon DEF DriverDisk, Go
<1>8. CASE Network
  BY <1>8, Zenon DEF Network, Go, WantsNetwork, Class
<1>9. CASE Iface
  BY <1>9, Zenon DEF Iface, Go
<1>10. CASE Ip
  BY <1>10, Zenon DEF Ip, Go
<1>11. CASE Stage2
  <2>1. pc = "STAGE2" /\ UNCHANGED <<url, fl, ldVars, mntVars, target>>
    BY <1>11, Zenon DEF Stage2
  <2>2. CASE pc' = "DONE" /\ url # None /\ cd' = cd
    BY <2>1, <2>2, Zenon
  <2>3. CASE StartCd(TRUE) /\ url = None
    BY <2>1, <2>3, Zenon DEF StartCd
  <2>4. CASE /\ pc' \in {"HD_START", "NFS_STAGE_NFS", "URL_STAGE_MAIN"}
             /\ url = None /\ cd' = cd
    BY <2>1, <2>4, Zenon
  <2> QED
    BY <1>11, <2>2, <2>3, <2>4, Stage2Begins, Zenon
<1>12. CASE Returned
  BY <1>12, Zenon DEF Returned, AfterBack, Go, RebuiltRepo
<1>13. CASE CdSkip /\ UNCHANGED wizVars
  BY <1>13 DEF CdSkip, NextDrive
<1>14. CASE CdMounted /\ UNCHANGED wizVars
  BY <1>14, Zenon DEF CdMounted
<1>15. CASE BeginMediaCheck /\ UNCHANGED wizVars
  BY <1>15, Zenon DEF BeginMediaCheck
<1>16. CASE Remount /\ UNCHANGED wizVars
  BY <1>16, Zenon DEF Remount, RemountFails
<1>17. CASE SkipMediaCheck /\ UNCHANGED wizVars
  BY <1>17, Zenon DEF SkipMediaCheck
<1>18. CASE MountCdImage /\ UNCHANGED wizVars
  BY <1>18, Zenon DEF MountCdImage, NextDrive, Scanning
<1>19. CASE AskForDisc /\ UNCHANGED wizVars
  BY <1>19 DEF AskForDisc
<1>20. CASE CdDone /\ UNCHANGED wizVars
  BY <1>20, Zenon DEF CdDone
<1>21. CASE CdReturn /\ UNCHANGED wizVars
  BY <1>21, LocationAssumption, Zenon DEF CdReturn, Scanning, None
<1>22. CASE HdStart /\ UNCHANGED wizVars
  BY <1>22, Zenon DEF HdStart, UsesHdData, ForgetMethod
<1>23. CASE HdFromData /\ UNCHANGED wizVars
  BY <1>23, Zenon DEF HdFromData, ForgetMethod, IsoImageMounted, IsoImageFails, Return
<1>24. CASE HdAsk /\ UNCHANGED wizVars
  BY <1>24, Zenon DEF HdAsk, Return
<1>25. CASE HdSetup /\ UNCHANGED wizVars
  BY <1>25, Zenon DEF HdSetup, IsoImageMounted, IsoImageFails, Return
<1>26. CASE NfsFromData /\ UNCHANGED wizVars
  <2>1. CASE ForgetMethod /\ UNCHANGED <<pc, target>>
    BY <1>26, <2>1, Zenon DEF NfsFromData, ForgetMethod
  <2>2. CASE target' = data.loc /\ pc' = "NFS_STAGE_MOUNT" /\ UNCHANGED <<method, badRepo>>
    BY <1>26, <2>2, Zenon DEF NfsFromData, UsesNfsData
  <2> QED
    BY <1>26, <2>1, <2>2, Zenon DEF NfsFromData
<1>27. CASE NfsAsk /\ UNCHANGED wizVars
  <2>1. ASSUME NEW l \in Exports, setStage2LocFromCmdline(l)
        PROVE  data' = [for |-> "nfs", loc |-> l]
    BY <2>1, KindOfLocation, Zenon DEF setStage2LocFromCmdline, Locations
  <2> QED
    BY <1>27, <2>1 DEF NfsAsk, nfsGetSetup, Return
<1>28. CASE NfsMount /\ UNCHANGED wizVars
  BY <1>28, Zenon DEF NfsMount, doPwMount, ForgetMethod, NfsImageBad
<1>29. CASE NfsUpdates /\ UNCHANGED wizVars
  BY <1>29, Zenon DEF NfsUpdates, Return
<1>30. CASE UrlFromData /\ UNCHANGED wizVars
  BY <1>30 DEF UrlFromData, UsesUrlData, ForgetMethod
<1>31. CASE UrlAsk /\ UNCHANGED wizVars
  BY <1>31 DEF UrlAsk, UsesUrlData, urlMainSetupPanel, Return
<1>32. CASE UrlFetch /\ UNCHANGED wizVars
  BY <1>32, Zenon DEF UrlFetch, Return, ForgetMethod, loadUrlImages, FetchFails
<1>33. QED
  BY <1>1, <1>2, <1>3, <1>4, <1>5, <1>6, <1>7, <1>8, <1>9, <1>10, <1>11, <1>12, 
     <1>13, <1>14, <1>15, <1>16, <1>17, <1>18, <1>19, <1>20, <1>21, <1>22, <1>23, 
     <1>24, <1>25, <1>26, <1>27, <1>28, <1>29, <1>30, <1>31, <1>32
    , Zenon DEF Next, WizardNext, MethodNext, CdNext, HdNext, NfsNext, UrlNext

\* A mount on top of others, and taken away again.
LEMMA Stacked ==
  ASSUME NEW S, NEW s \in Seq(S), NEW x \in S
  PROVE  LET t == Append(s, x)
         IN  t \in Seq(S) /\ t # <<>> /\ t[Len(t)] = x /\ SubSeq(t, 1, Len(t) - 1) = s
<1> DEFINE t == Append(s, x)
<1>1. t \in Seq(S) /\ Len(t) = Len(s) + 1 /\ t[Len(t)] = x
  OBVIOUS
<1>2. \A i \in 1 .. Len(s) : t[i] = s[i]
  OBVIOUS
<1>3. SubSeq(t, 1, Len(t) - 1) = s
  BY <1>1, <1>2
<1> QED
  BY <1>1, <1>3

LEMMA Unstacked ==
  ASSUME NEW S, NEW s \in Seq(S), s # <<>>
  PROVE  SubSeq(s, 1, Len(s) - 1) \in Seq(S)
  OBVIOUS

\* What mountStage2 mounts after copyFile is the new copy: a copy left from an
\* earlier attempt could not be mounted then and cannot be mounted now.
LEMMA CopyMounted ==
  ASSUME Mounts, NEW l, NEW img \in CopyResults(l), mountStage2(img)
  PROVE  img.src = l /\ img.fs /\ loop0 = NoImage
  BY Zenon DEF Mounts, CopyResults, Copies, mountStage2, mountLoopback

LEMMA NotMounted ==
  ASSUME NEW img, ~mountStage2(img)
  PROVE  img.fs => loop0 # NoImage
  BY DEF mountStage2, mountLoopback, NoImage

LEMMA ImageMounted ==
  ASSUME NEW l, NEW img \in ImagesAt(l), mountStage2(img)
  PROVE  img.src = l /\ img # NoImage /\ img # RamCopy
  BY DEF ImagesAt, mountStage2, mountLoopback, RamCopy

LEMMA CopyInUse == RamCopy # NoImage
  BY Zenon DEF RamCopy, NoImage, None

LEMMA NextMounts == IInv /\ Next => Mounts'
<1> SUFFICES ASSUME IInv, Next PROVE Mounts'
  BY Zenon
<1> USE DEF IInv, Mounts, Found, Runtime, OneCopy, Steps, CdPoints, HdPoints, NfsStages, UrlStages, Fetching, Visible, Beneath, Drive, ldVars, mntVars, wizVars
<1>1. CASE Before
  <2>1. url = None /\ UNCHANGED <<url, fl, mntVars>>
    BY <1>1, Zenon DEF Before, Data
  <2> QED
    BY <1>1, <2>1 DEF Before, StartCd
<1>2. CASE Searched
  BY <1>2, Zenon DEF Searched, setStage2LocFromCmdline
<1>3. CASE Lang
  BY <1>3, Zenon DEF Lang, LangGoesOn, Go
<1>4. CASE Kbd
  BY <1>4, Zenon DEF Kbd, Go
<1>5. CASE ChooseMethod
  BY <1>5, Zenon DEF ChooseMethod, TakeMethod, Go, SkipsPrompt
<1>6. CASE Driver
  BY <1>6, Zenon DEF Driver, Go
<1>7. CASE DriverDisk
  BY <1>7, Zenon DEF DriverDisk, Go
<1>8. CASE Network
  BY <1>8, Zenon DEF Network, Go, WantsNetwork, Class
<1>9. CASE Iface
  BY <1>9, Zenon DEF Iface, Go
<1>10. CASE Ip
  BY <1>10, Zenon DEF Ip, Go
<1>11. CASE Stage2
  <2>1. pc = "STAGE2" /\ UNCHANGED <<url, fl, ldVars, mntVars, target>>
    BY <1>11, Zenon DEF Stage2
  <2>2. CASE pc' = "DONE" /\ url # None /\ cd' = cd
    BY <2>1, <2>2, Zenon
  <2>3. CASE StartCd(TRUE) /\ url = None
    BY <2>1, <2>3, Zenon DEF StartCd
  <2>4. CASE /\ pc' \in {"HD_START", "NFS_STAGE_NFS", "URL_STAGE_MAIN"}
             /\ url = None /\ cd' = cd
    BY <2>1, <2>4, Zenon
  <2> QED
    BY <1>11, <2>2, <2>3, <2>4, Stage2Begins, Zenon
<1>12. CASE Returned
  BY <1>12, Zenon DEF Returned, AfterBack, Go, RebuiltRepo
<1>13. CASE CdSkip /\ UNCHANGED wizVars
  BY <1>13 DEF CdSkip, NextDrive
<1>14. CASE CdMounted /\ UNCHANGED wizVars
  <2> HIDE DEF Mounts, Found, Runtime
  <2>1. stage2 \in Seq(Locations) /\ Drive \in Locations
    BY <1>14, DriveIsCd DEF CdMounted, Scanning, Locations, Mounts
  <2>2. stage2' \in Seq(Locations) /\ stage2' # <<>> /\ Visible' = Drive' /\ Beneath' = stage2
    <3> HIDE DEF IInv
    <3> QED
      BY <1>14, <2>1, Stacked DEF CdMounted
  <2> HIDE DEF Visible, Beneath, Drive
  <2> QED
    BY <1>14, <2>2, Zenon DEF CdMounted, Mounts, Found, Runtime
<1>15. CASE BeginMediaCheck /\ UNCHANGED wizVars
  <2>1. stage2' \in Seq(Locations)
    BY <1>15, Unstacked, Zenon DEF BeginMediaCheck
  <2> QED
    BY <1>15, <2>1, Zenon DEF BeginMediaCheck
<1>16. CASE Remount /\ UNCHANGED wizVars
  <2>1. CASE UNCHANGED <<pc, stage2>>
    BY <1>16, <2>1, Zenon DEF Remount
  <2>2. CASE stage2' = Append(stage2, Drive) /\ pc' = "CD_IMAGE"
    <3> HIDE DEF Mounts, Found, Runtime
    <3>1. stage2 \in Seq(Locations) /\ Drive \in Locations /\ cd' = cd
      BY <1>16, DriveIsCd DEF Remount, Scanning, Mounting, Locations, Mounts
    <3>2. stage2' \in Seq(Locations) /\ stage2' # <<>> /\ Visible' = Drive' /\ Beneath' = stage2
      <4> HIDE DEF IInv
      <4> QED
        BY <2>2, <3>1, Stacked
    <3> HIDE DEF Visible, Beneath, Drive
    <3> QED
      BY <1>16, <2>2, <3>2, Zenon DEF Remount, Mounts, Found, Runtime
  <2> QED
    BY <1>16, <2>1, <2>2, Zenon DEF Remount, RemountFails
<1>17. CASE SkipMediaCheck /\ UNCHANGED wizVars
  BY <1>17, Zenon DEF SkipMediaCheck
<1>18. CASE MountCdImage /\ UNCHANGED wizVars
  <2>1. /\ pc = "CD_IMAGE" /\ pc' = "CD_SCAN" /\ UNCHANGED fl
        /\ Drive \in Locations /\ Drive # None
    BY <1>18, DriveIsCd, LocationAssumption DEF MountCdImage, Scanning, Mounting, Locations
  <2>2. /\ stage2 # <<>> /\ Visible = Drive /\ Found(cd.retbuf, Beneath)
        /\ Beneath \in Seq(Locations)
    BY <2>1, Unstacked, Zenon
  <2> SUFFICES /\ stage2' \in Seq(Locations) /\ Found(cd.retbuf, stage2)'
               /\ ramImg'.fs => loop0' # NoImage
    BY <2>1, Zenon
  <2>3. PICK img \in IF fl.ram THEN CopyResults(Drive) ELSE ImagesAt(Drive) :
          /\ ramImg' = IF fl.ram THEN img ELSE ramImg
          /\ \/ /\ mountStage2(img)
                /\ loop0' = IF fl.ram THEN RamCopy ELSE img
                /\ stage2' = AfterSuccess
                /\ cd' = [NextDrive EXCEPT !.retbuf = Drive]
             \/ /\ ~mountStage2(img)
                /\ UNCHANGED loop0
                /\ stage2' = AfterFailure
                /\ cd' = NextDrive
    BY <1>18, Zenon DEF MountCdImage
  <2>4. CASE mountStage2(img) /\ fl.ram
    <3>1. ramImg'.src = Drive /\ loop0' = RamCopy /\ stage2' = Beneath /\ cd'.retbuf = Drive
      BY <2>3, <2>4, CopyMounted, Zenon DEF AfterSuccess, NextDrive, Scanning
    <3> QED
      BY <2>1, <2>2, <3>1, CopyInUse, Zenon
  <2>5. CASE mountStage2(img) /\ ~fl.ram
    <3>1. loop0' = img /\ stage2' = stage2 /\ cd'.retbuf = Drive
      BY <2>3, <2>5, Zenon DEF AfterSuccess, NextDrive, Scanning
    <3>2. img.src = Drive /\ img # NoImage /\ img # RamCopy
      BY <2>3, <2>5, ImageMounted, Zenon
    <3> QED
      BY <2>1, <2>2, <3>1, <3>2, Zenon
  <2>6. CASE ~mountStage2(img)
    <3>1. loop0' = loop0 /\ stage2' = Beneath /\ cd'.retbuf = cd.retbuf
      BY <2>3, <2>6, Zenon DEF AfterFailure, NextDrive, Scanning
    <3>2. ramImg'.fs => loop0' # NoImage
      BY <2>3, <2>6, <3>1, NotMounted, Zenon
    <3>3. cd.retbuf # None /\ OneCopy => ramImg' = ramImg
      BY <2>1, <2>3 DEF Scanning, Mounting
    <3> QED
      BY <2>1, <2>2, <3>1, <3>2, <3>3, Zenon
  <2> QED
    BY <2>3, <2>4, <2>5, <2>6, Zenon
<1>19. CASE AskForDisc /\ UNCHANGED wizVars
  BY <1>19 DEF AskForDisc
<1>20. CASE CdDone /\ UNCHANGED wizVars
  BY <1>20, Zenon DEF CdDone
<1>21. CASE CdReturn /\ UNCHANGED wizVars
  BY <1>21, Zenon DEF CdReturn
<1>22. CASE HdStart /\ UNCHANGED wizVars
  BY <1>22, Zenon DEF HdStart, UsesHdData, ForgetMethod
<1>23. CASE HdFromData /\ UNCHANGED wizVars
  <2>1. loop0 = NoImage /\ target \in Locations /\ target # None
    BY <1>23, LocationAssumption, Zenon DEF HdFromData, Data, Locations
  <2>2. CASE IsoImageMounted
    <3>1. loop0' = RamCopy /\ ramImg'.src = target
      BY <2>2, CopyMounted, Zenon DEF IsoImageMounted
    <3> QED
      BY <1>23, <2>1, <2>2, <3>1, CopyInUse, Zenon DEF HdFromData, IsoImageMounted, Return
  <2>3. CASE IsoImageFails /\ pc' = "HD_ASK" /\ UNCHANGED url
    <3>1. loop0' = NoImage /\ ~ramImg'.fs
      BY <2>1, <2>3, NotMounted, Zenon DEF IsoImageFails
    <3> QED
      BY <1>23, <2>1, <2>3, <3>1, Zenon DEF HdFromData
  <2> QED
    BY <1>23, <2>2, <2>3, Zenon DEF HdFromData
<1>24. CASE HdAsk /\ UNCHANGED wizVars
  BY <1>24, Zenon DEF HdAsk, Return
<1>25. CASE HdSetup /\ UNCHANGED wizVars
  <2>1. loop0 = NoImage /\ target \in Locations /\ target # None
    BY <1>25, LocationAssumption, Zenon DEF HdSetup, Data, Locations
  <2>2. CASE IsoImageMounted
    <3>1. loop0' = RamCopy /\ ramImg'.src = target
      BY <2>2, CopyMounted, Zenon DEF IsoImageMounted
    <3> QED
      BY <1>25, <2>1, <2>2, <3>1, CopyInUse, Zenon DEF HdSetup, IsoImageMounted, Return
  <2>3. CASE IsoImageFails /\ pc' = "HD_ASK" /\ UNCHANGED url
    <3>1. loop0' = NoImage /\ ~ramImg'.fs
      BY <2>1, <2>3, NotMounted, Zenon DEF IsoImageFails
    <3> QED
      BY <1>25, <2>1, <2>3, <3>1, Zenon DEF HdSetup
  <2> QED
    BY <1>25, <2>2, <2>3, Zenon DEF HdSetup
<1>26. CASE NfsFromData /\ UNCHANGED wizVars
  BY <1>26, Zenon DEF NfsFromData, UsesNfsData, ForgetMethod
<1>27. CASE NfsAsk /\ UNCHANGED wizVars
  BY <1>27, Zenon DEF NfsAsk, UsesNfsData, nfsGetSetup, setStage2LocFromCmdline, Return
<1>28. CASE NfsMount /\ UNCHANGED wizVars
  <2>1. loop0 = NoImage /\ target \in Locations /\ target \in Exports /\ target # None
    BY <1>28, LocationAssumption, Zenon DEF NfsMount, doPwMount, Data, Locations
  <2>2. CASE pc' = "NFS_STAGE_NFS" /\ UNCHANGED mntVars
    BY <1>28, <2>2, Zenon DEF NfsMount, doPwMount
  <2>3. CASE doPwMount(target)
    <3>1. stage2' \in Seq(Locations) /\ stage2' # <<>> /\ Visible' = target
      <4>1. stage2 \in Seq(Locations)
        BY Zenon
      <4> HIDE DEF IInv
      <4>2. CASE stage2' = Append(stage2, target)
        BY <2>1, <4>1, <4>2, Stacked
      <4>3. CASE stage2 # <<>> /\ Visible = target /\ stage2' = stage2
        BY <4>1, <4>3, Zenon DEF Visible
      <4> QED
        BY <2>3, <4>2, <4>3, Zenon DEF doPwMount
    <3>2. stage2' \in Seq(Exports)
      BY <1>28, <2>1, <2>3, Stacked, Zenon DEF NfsMount, doPwMount
    <3>3. CASE pc' = "NFS_STAGE_NFS" /\ UNCHANGED <<loop0, ramImg>>
      BY <1>28, <2>1, <3>1, <3>2, <3>3, Zenon DEF NfsMount, doPwMount
    <3>4. ASSUME NEW img \in ImagesAt(target), mountStage2(img), loop0' = img,
                 pc' = "NFS_STAGE_UPDATES", UNCHANGED ramImg
          PROVE  Mounts'
      <4>1. img.src = target /\ img # NoImage /\ img # RamCopy
        BY <3>4, ImageMounted, Zenon
      <4> QED
        BY <1>28, <2>1, <3>1, <3>4, <4>1, Zenon DEF NfsMount, doPwMount
    <3> QED
      BY <1>28, <2>3, <3>3, <3>4, Zenon DEF NfsMount, doPwMount, NfsImageBad
  <2> QED
    BY <1>28, <2>2, <2>3, Zenon DEF NfsMount, doPwMount
<1>29. CASE NfsUpdates /\ UNCHANGED wizVars
  BY <1>29, Zenon DEF NfsUpdates, Return
<1>30. CASE UrlFromData /\ UNCHANGED wizVars
  BY <1>30, Zenon DEF UrlFromData, UsesUrlData, ForgetMethod
<1>31. CASE UrlAsk /\ UNCHANGED wizVars
  BY <1>31, Zenon DEF UrlAsk, UsesUrlData, urlMainSetupPanel, Return
<1>32. CASE UrlFetch /\ UNCHANGED wizVars
  <2>1. loop0 = NoImage /\ target \in Locations /\ target # None
    BY <1>32, LocationAssumption, Zenon DEF UrlFetch, Data, Locations
  <2>2. CASE loadUrlImages /\ Return(target)
    <3>1. loop0' = RamCopy /\ ramImg'.src = target
      BY <2>2, Zenon DEF loadUrlImages, Copies
    <3> QED
      BY <1>32, <2>1, <2>2, <3>1, CopyInUse, Zenon DEF UrlFetch, Return
  <2>3. CASE FetchFails /\ UNCHANGED url /\ pc' = "URL_STAGE_MAIN"
    <3>1. ~ramImg.fs
      BY <2>1, Zenon
    <3>2. loop0' = NoImage /\ ~ramImg'.fs
      <4> HIDE DEF IInv
      <4> QED
        BY <2>1, <2>3, <3>1 DEF FetchFails, FailedCopy, NoImage, mountLoopback
    <3> QED
      BY <1>32, <2>1, <2>3, <3>2, Zenon DEF UrlFetch
  <2> QED
    BY <1>32, <2>2, <2>3, Zenon DEF UrlFetch
<1>33. QED
  BY <1>1, <1>2, <1>3, <1>4, <1>5, <1>6, <1>7, <1>8, <1>9, <1>10, <1>11, <1>12, 
     <1>13, <1>14, <1>15, <1>16, <1>17, <1>18, <1>19, <1>20, <1>21, <1>22, <1>23, 
     <1>24, <1>25, <1>26, <1>27, <1>28, <1>29, <1>30, <1>31, <1>32
    , Zenon DEF Next, WizardNext, MethodNext, CdNext, HdNext, NfsNext, UrlNext

LEMMA NextIInv == IInv /\ [Next]_vars => IInv'
<1>1. CASE Next
  BY <1>1, NextScanning, NextData, NextMounts, NextRepo, NextNet, Zenon DEF IInv
<1>2. CASE UNCHANGED vars
  <2> USE <1>2 DEF vars, ldVars, mntVars, wizVars
  <2>1. Net /\ Scanning => Net' /\ Scanning'
    BY Zenon DEF Net, NetworkBeforeFetch, Scanning, OneCopy
  <2>2. Data /\ Repo => Data' /\ Repo'
    BY DEF Data, Repo, Early, RepoFollowsStage2
  <2>3. Mounts => Mounts'
    BY Zenon DEF Mounts, Found, OneCopy, Runtime, Visible, Beneath, Drive
  <2> QED
    BY <2>1, <2>2, <2>3, Zenon DEF IInv
<1> QED
  BY <1>1, <1>2, Zenon

LEMMA Invariant == Spec => []IInv
  BY InitIInv, NextIInv, PTL DEF Spec

\* Whatever way leads through the dialogue, mountNfsImage and mountUrlImage run only
\* after readNetConfig configured the interface.
THEOREM FetchesOverNetwork == Spec => []NetworkBeforeFetch
<1>1. IInv => NetworkBeforeFetch
  BY Zenon DEF IInv, Net
<1> QED
  BY <1>1, Invariant, PTL

\* The URL that doLoaderMain returns names the place the image was read from, for
\* any number of places tried; in rescue mode, which copies it to RAM, with one CD
\* drive.
THEOREM UrlNamesRuntime == Spec => [](OneCopy => RuntimeMatchesUrl)
<1>1. IInv => (OneCopy => RuntimeMatchesUrl)
  BY Zenon DEF IInv, RuntimeMatchesUrl, Data, Mounts, Found, Steps
<1> QED
  BY <1>1, Invariant, PTL

\* An image used in place lies on the medium that is visible on /mnt/stage2,
\* however many others are mounted there.
THEOREM ImageOnVisibleMedium == Spec => []MediumVisible
<1>1. IInv => MediumVisible
  BY Zenon DEF IInv, MediumVisible, Data, Mounts, Found, Steps, Visible
<1> QED
  BY <1>1, Invariant, PTL

\* A method left without an image leaves /mnt/runtime and /dev/loop0 free, and on
\* /mnt/stage2 no more than NFS exports.
THEOREM LeavesNothing == Spec => []NothingLeftBehind
<1>1. \A s \in Seq(Exports) : Range(s) \subseteq Exports
  BY DEF Range
<1>2. IInv => NothingLeftBehind
  BY <1>1, Zenon DEF IInv, NothingLeftBehind, Mounts, Found
<1> QED
  BY <1>2, Invariant, PTL

\* If stage2= was guessed from repo=, instRepo names the place where the image was
\* found in the end.
THEOREM RepoCorrected == Spec => []RepoFollowsStage2
<1>1. IInv => RepoFollowsStage2
  BY Zenon DEF IInv, Repo
<1> QED
  BY <1>1, Invariant, PTL
=============================================================================

---------------------------- MODULE LoaderWizard ----------------------------
(***************************************************************************)
(* doLoaderMain of loader.c: the steps of the loader's dialogue, from the  *)
(* search for an installation CD to a mounted second stage, composed with  *)
(* the four installation methods.  One action per STEP_; what the user and *)
(* the hardware answer is chosen.  The step is pc.                         *)
(***************************************************************************)
EXTENDS CdInstall, HdInstall, NfsInstall, UrlInstall

CONSTANTS Starts,    \* what command line and kickstart said: method, data, repo
          FlagSets,  \* the combinations of flags considered
          JunkRcs    \* what the uninitialised rc may hold

\* The locations of a kind, as stage2Data of that method names them.
LocationsOf(m) == CASE m = "cd" -> CdDrives [] m = "hd" -> Parts
                    [] m = "nfs" -> Exports [] m = "url" -> Urls

\* stage2= and the kickstart commands set method and stage2Data together; only the
\* CD leaves stage2Data as it is.  repo= names a location.  (A kickstart command for
\* another method than that of stage2= is not considered.)
ASSUME StartAssumption ==
  \A s \in Starts :
    /\ s.method \in Methods \cup {None} /\ s.repo \in Locations \cup {None}
    /\ \/ s.data = NoData
       \/ /\ s.data \in StageData /\ s.data.for # "cd"
          /\ s.data.loc \in LocationsOf(s.data.for) \cup {None}
          /\ s.method \in {s.data.for, "cd", None}

OK == 0        \* LOADER_OK, LOADER_BACK, LOADER_NOOP, LOADER_ERROR
BACK == 1
NOOP == 2
ERROR == -1

VARIABLES
  dir,          \* 1 forward, -1 back
  rc,           \* doLoaderMain's rc, which keeps its value between steps
  class,        \* class of devices STEP_DRIVER must find
  skipMethod,   \* skipMethodDialog
  skipLangKbd,
  needsNetwork,
  kbdSet,       \* loaderData->kbd_set
  netUp         \* the interface in iface is configured

wizVars == <<dir, rc, class, skipMethod, skipLangKbd, needsNetwork, kbdSet, netUp>>
vars == <<pc, url, fl, have, ldVars, mntVars, target, cd, wizVars>>

Init ==
  /\ pc = "BEFORE" /\ url = None
  /\ fl \in FlagSets /\ have \in SUBSET Classes
  /\ \E s \in Starts : method = s.method /\ data = s.data /\ repo = s.repo
  /\ inferred = FALSE /\ badRepo = FALSE
  /\ stage2 = <<>> /\ loop0 = NoImage /\ ramImg = NoImage
  /\ target = None /\ cd = [drive |-> 1, retbuf |-> None, interactive |-> FALSE]
  /\ dir = 1 /\ rc \in JunkRcs /\ class = None
  /\ skipMethod = FALSE /\ skipLangKbd = FALSE /\ needsNetwork = FALSE
  /\ kbdSet \in BOOLEAN /\ netUp = FALSE

Go(step, d) == pc' = step /\ dir' = d

(***************************************************************************)
(* Before the first step.                                                  *)
(***************************************************************************)
\* findAnacondaCD, unless the user is to be asked or stage2= was given.
Before ==
  /\ pc = "BEFORE"
  /\ \/ ~fl.askmethod /\ data = NoData /\ StartCd(FALSE)
     \/ (fl.askmethod \/ data # NoData) /\ pc' = "LANG" /\ UNCHANGED cd
  /\ UNCHANGED <<url, fl, have, ldVars, mntVars, target, wizVars>>

\* An image on CD settles the method; otherwise stage2= is guessed from repo=.
Searched ==
  /\ pc = "SEARCHED"
  /\ pc' = "LANG"
  /\ \/ /\ url # None
        /\ setStage2LocFromCmdline(url)
        /\ skipMethod' = TRUE /\ skipLangKbd' = TRUE
        /\ UNCHANGED inferred
     \/ /\ url = None /\ repo # None
        /\ setStage2LocFromCmdline(repo)
        /\ inferred' = TRUE
        /\ UNCHANGED <<skipMethod, skipLangKbd>>
     \/ /\ url = None /\ repo = None
        /\ UNCHANGED <<method, data, inferred, skipMethod, skipLangKbd>>
  /\ UNCHANGED <<url, fl, have, repo, badRepo, mntVars, target, cd,
                 dir, rc, class, needsNetwork, kbdSet, netUp>>

(***************************************************************************)
(* Language and keyboard.                                                  *)
(***************************************************************************)
\* Mutant: the direction is not turned round.
LangGoesOnAsBefore == Go("KBD", dir)

LangGoesOn == Go("KBD", 1)

Lang ==
  /\ pc = "LANG"
  /\ LangGoesOn
  /\ UNCHANGED <<url, fl, have, ldVars, mntVars, target, cd, rc, class,
                 skipMethod, skipLangKbd, needsNetwork, kbdSet, netUp>>

AsksKbd == ~kbdSet /\ (fl.rescue \/ ~skipLangKbd) /\ ~fl.cmdline

\* The values rc may have after the keyboard was set, asked for or left out.
KbdRcs == IF kbdSet THEN {NOOP}
          ELSE IF ~fl.rescue /\ skipLangKbd THEN {rc}
          ELSE IF fl.cmdline THEN {NOOP}
          ELSE {OK, NOOP, BACK, ERROR}

Kbd ==
  /\ pc = "KBD"
  /\ \/ \* the keymap given cannot be loaded: ask
        kbdSet /\ kbdSet' = FALSE /\ UNCHANGED <<pc, dir, rc>>
     \/ \E r \in KbdRcs :
          LET d == IF ~kbdSet /\ ~fl.rescue /\ skipLangKbd THEN 1 ELSE dir
          IN  /\ rc' = r
              /\ CASE r = NOOP -> Go(IF d = -1 THEN "LANG" ELSE "METHOD", d)
                   [] r = BACK -> Go("LANG", -1)
                   [] OTHER    -> Go("METHOD", 1)
              /\ UNCHANGED kbdSet
  /\ UNCHANGED <<url, fl, have, ldVars, mntVars, target, cd, class,
                 skipMethod, skipLangKbd, needsNetwork, netUp>>

(***************************************************************************)
(* Method and drivers.                                                     *)
(***************************************************************************)
SkipsPrompt == skipMethod \/ method # None \/ data # NoData

\* class = installMethods[validMethods[method]].type: with method -1 the index
\* is outside the arrays.
TakeMethod(m) ==
  IF m = None THEN Go("UB", dir) /\ UNCHANGED class
              ELSE Go("DRIVER", 1) /\ class' = Class(m)

ChooseMethod ==
  /\ pc = "METHOD"
  /\ \/ /\ method = None /\ data = NoData /\ fl.cmdline
        /\ pc' = "EXIT"
        /\ UNCHANGED <<method, dir, rc, class, skipMethod>>
     \/ /\ SkipsPrompt /\ ~(method = None /\ data = NoData /\ fl.cmdline)
        /\ skipMethod' = (skipMethod \/ method # None \/ data # NoData)
        /\ rc' = dir
        /\ IF dir = 1 THEN TakeMethod(method)
                      ELSE Go("KBD", -1) /\ UNCHANGED class
        /\ UNCHANGED method
     \/ \* the menu stores the item it is on when it is left, by Back as well
        /\ ~SkipsPrompt /\ ~fl.cmdline
        /\ method' \in Methods /\ rc' \in {0, 1, 2}
        /\ IF rc' = 2 THEN Go("KBD", -1) /\ UNCHANGED class
                      ELSE TakeMethod(method')
        /\ UNCHANGED skipMethod
  /\ UNCHANGED <<url, fl, have, data, repo, inferred, badRepo, mntVars, target, cd,
                 skipLangKbd, needsNetwork, kbdSet, netUp>>

HaveDriver == (fl.earlynet /\ "net" \in have) \/ class = None \/ class \in have

Driver ==
  /\ pc = "DRIVER"
  /\ \/ /\ HaveDriver
        /\ Go("NETWORK", 1) /\ class' = None
        /\ UNCHANGED <<have, rc, skipLangKbd>>
     \/ /\ ~HaveDriver /\ skipLangKbd
        /\ skipLangKbd' = FALSE /\ Go("KBD", dir)
        /\ UNCHANGED <<have, rc, class>>
     \/ /\ ~HaveDriver /\ ~skipLangKbd
        /\ \/ rc' = 2 /\ Go("DRIVERDISK", 1) /\ UNCHANGED have
           \/ rc' = 3 /\ Go("METHOD", -1) /\ UNCHANGED have
           \/ rc' \in {0, 1} /\ LoadDrivers /\ Go("DRIVER", dir)
        /\ UNCHANGED <<class, skipLangKbd>>
  /\ UNCHANGED <<url, fl, ldVars, mntVars, target, cd, skipMethod, needsNetwork,
                 kbdSet, netUp>>

\* Only reached from STEP_DRIVER with skipLangKbd cleared.
DriverDisk ==
  /\ pc = "DRIVERDISK"
  /\ \/ rc' = BACK /\ Go("DRIVER", -1)
     \/ rc' \in {OK, ERROR} /\ Go("DRIVER", dir)
  /\ LoadDrivers
  /\ UNCHANGED <<url, fl, ldVars, mntVars, target, cd, class, skipMethod,
                 skipLangKbd, needsNetwork, kbdSet, netUp>>

(***************************************************************************)
(* Network.                                                                *)
(***************************************************************************)
\* Mutant: only a request on the command line counts.
WantsNetworkIfAsked == fl.wantnet \/ fl.earlynet

WantsNetwork == Class(method) = "net" \/ fl.wantnet \/ fl.earlynet

Network ==
  /\ pc = "NETWORK"
  /\ \/ /\ ~WantsNetwork
        /\ needsNetwork' = FALSE
        /\ Go(IF dir = 1 THEN "STAGE2" ELSE "METHOD", dir)
        /\ UNCHANGED <<class, netUp>>
     \/ /\ WantsNetwork /\ "net" \notin have
        /\ needsNetwork' = TRUE
        /\ class' = "net" /\ Go("DRIVER", dir)
        /\ UNCHANGED netUp
     \/ /\ WantsNetwork /\ "net" \in have
        /\ needsNetwork' = TRUE
        /\ netUp' = FALSE /\ Go("IFACE", dir)
        /\ UNCHANGED class
  /\ UNCHANGED <<url, fl, have, ldVars, mntVars, target, cd, rc, skipMethod,
                 skipLangKbd, kbdSet>>

\* chooseNetworkInterface has an interface to offer, so it does not fail.  With
\* a single one, or one named before that exists, it does not ask.
Iface ==
  /\ pc = "IFACE"
  /\ rc' \in IF fl.ifknown THEN {NOOP} ELSE {OK, NOOP, BACK}
  /\ IF rc' = BACK \/ (dir = -1 /\ rc' = NOOP) THEN Go("METHOD", -1) ELSE Go("IP", 1)
  /\ UNCHANGED <<url, fl, have, ldVars, mntVars, target, cd, class, skipMethod,
                 skipLangKbd, needsNetwork, kbdSet, netUp>>

\* readNetConfig returns LOADER_BACK for Back in the dialogue and when there is
\* no connection.
Ip ==
  /\ pc = "IP"
  /\ \/ /\ ~needsNetwork \/ dir = -1
        /\ pc' = "METHOD"
        /\ UNCHANGED <<dir, rc, needsNetwork, netUp>>
     \/ /\ needsNetwork /\ dir = 1
        /\ rc' \in {OK, NOOP, BACK}
        /\ needsNetwork' = TRUE
        /\ IF rc' = BACK THEN Go("IFACE", -1) ELSE Go("STAGE2", 1)
        /\ netUp' = (rc' # BACK)
  /\ UNCHANGED <<url, fl, have, ldVars, mntVars, target, cd, class, skipMethod,
                 skipLangKbd, kbdSet>>

(***************************************************************************)
(* The second stage.                                                       *)
(***************************************************************************)
FirstStage(m) == CASE m = "hd" -> "HD_START" [] m = "nfs" -> "NFS_STAGE_NFS"
                   [] m = "url" -> "URL_STAGE_MAIN"

\* The image found on CD, or the mountImage function of the method.
Stage2 ==
  /\ pc = "STAGE2"
  /\ \/ url # None /\ pc' = "DONE" /\ UNCHANGED cd
     \/ url = None /\ method = "cd" /\ StartCd(TRUE)
     \/ url = None /\ method # "cd" /\ pc' = FirstStage(method) /\ UNCHANGED cd
  /\ UNCHANGED <<url, fl, have, ldVars, mntVars, target, wizVars>>

AfterBack == method' = None /\ skipMethod' = FALSE

\* Mutant: repo= stays as it was given.
RebuiltRepoAsGiven == repo

\* With invalidRepoParam, what is before /images in the URL.
RebuiltRepo == IF badRepo /\ url \notin Plain THEN url ELSE repo

\* The method returned; instRepo is rebuilt from a URL with /images in it.
Returned ==
  /\ pc = "RETURNED"
  /\ \/ url = None /\ Go("IP", -1) /\ AfterBack /\ UNCHANGED repo
     \/ /\ url # None /\ Go("DONE", 1)
        /\ repo' = RebuiltRepo
        /\ UNCHANGED <<method, skipMethod>>
  /\ UNCHANGED <<url, fl, have, data, inferred, badRepo, mntVars, target, cd, rc,
                 class, skipLangKbd, needsNetwork, kbdSet, netUp>>

WizardNext ==
  \/ Before \/ Searched \/ Lang \/ Kbd \/ ChooseMethod \/ Driver \/ DriverDisk
  \/ Network \/ Iface \/ Ip \/ Stage2 \/ Returned

MethodNext == (CdNext \/ HdNext \/ NfsNext \/ UrlNext) /\ UNCHANGED wizVars

Next == WizardNext \/ MethodNext

Spec == Init /\ [][Next]_vars

\* The loader goes on as long as it can: one process, and a user who answers.
FairSpec == Spec /\ WF_vars(Next)

(***************************************************************************)
(* Properties.                                                             *)
(***************************************************************************)
Steps == {"BEFORE", "SEARCHED", "LANG", "KBD", "METHOD", "DRIVER", "DRIVERDISK",
          "NETWORK", "IFACE", "IP", "STAGE2", "RETURNED", "DONE", "EXIT", "UB"}
NfsStages == {"NFS_STAGE_NFS", "NFS_STAGE_MOUNT", "NFS_STAGE_UPDATES"}
UrlStages == {"URL_STAGE_MAIN", "URL_STAGE_FETCH"}
CdPoints == {"CD_SCAN", "CD_FOUND", "CD_CHECK", "CD_IMAGE", "CD_END"}
HdPoints == {"HD_START", "HD_DATA", "HD_ASK", "HD_SETUP"}

\* Types of the variables of doLoaderMain and of loaderData; while setupCdrom
\* has the disc of a drive mounted, that drive's disc is the visible one.
TypeOK ==
  /\ pc \in Steps \cup NfsStages \cup UrlStages \cup CdPoints \cup HdPoints
  /\ url \in Locations \cup {None} /\ have \subseteq Classes
  /\ method \in Methods \cup {None} /\ data \in StageData \cup {NoData}
  /\ repo \in Locations \cup {None, "path"}
  /\ inferred \in BOOLEAN /\ badRepo \in BOOLEAN
  /\ stage2 \in Seq(Locations) /\ Len(stage2) <= MaxStack
  /\ loop0 \in Images \cup {NoImage, RamCopy} /\ ramImg \in Images \cup {NoImage}
  /\ target \in Locations \cup {None}
  /\ cd.drive \in 1 .. Len(Drives) + 1 /\ cd.retbuf \in CdDrives \cup {None}
  /\ pc \in {"CD_FOUND", "CD_IMAGE"} => stage2 # <<>> /\ Visible = Drive
  /\ dir \in {-1, 1} /\ rc \in -1 .. 3 /\ class \in Classes \cup {None}
  /\ skipMethod \in BOOLEAN /\ skipLangKbd \in BOOLEAN /\ needsNetwork \in BOOLEAN
  /\ kbdSet \in BOOLEAN /\ netUp \in BOOLEAN

\* Whatever way led there, mountNfsImage and mountUrlImage only run after
\* readNetConfig configured the interface chosen last.
NetworkBeforeFetch == pc \in NfsStages \cup UrlStages => netUp

\* The URL doLoaderMain returns names the place the image on /mnt/runtime was
\* read from, however many other places were tried before and after it.
RuntimeMatchesUrl == pc = "DONE" => url # None /\ Runtime.src = url

\* An image that is used in place (CD, NFS) lies on the medium that is visible
\* on /mnt/stage2 when the loader is done, not on one mounted over it.
MediumVisible ==
  pc = "DONE" /\ loop0 # RamCopy => stage2 # <<>> /\ Visible = url

\* A method that was left without an image, by Back or by failure, leaves
\* /mnt/runtime and /dev/loop0 free and no CD mounted on /mnt/stage2.
NothingLeftBehind ==
  pc \in Steps /\ url = None => loop0 = NoImage /\ Range(stage2) \subseteq Exports

\* repo= is corrected together with stage2=: when stage2= was guessed from
\* repo= and the image was found elsewhere, instRepo names the place found,
\* if that can be read off the URL.
RepoFollowsStage2 ==
  pc = "DONE" /\ inferred /\ url \notin Plain => repo = url

\* The places where a dialogue is always shown, and the ends.
Asks ==
  \/ pc \in {"HD_ASK", "CD_CHECK", "DONE", "EXIT"}
  \/ pc = "METHOD" /\ ~SkipsPrompt
  \/ pc = "DRIVER" /\ ~HaveDriver /\ ~skipLangKbd
  \/ pc = "CD_SCAN" /\ cd.interactive /\ cd.drive > Len(Drives) /\ cd.retbuf = None
  \/ pc = "NFS_STAGE_NFS" /\ ~UsesNfsData
  \/ pc = "URL_STAGE_MAIN" /\ ~UsesUrlData

\* chooseKeyboard and chooseNetworkInterface have shown their menu: without it they
\* return LOADER_NOOP.
MenuLeft == ((Kbd /\ AsksKbd) \/ Iface) /\ rc' # NOOP

\* readNetConfig has returned LOADER_BACK: the user's choice, or a message, or, with
\* the configuration given beforehand, no word about a file that cannot be written.
NetConfigLeft == pc = "IFACE" /\ dir = -1

\* STEP_KBD without the question, and with LOADER_BACK in an rc nobody has set.
StaleBack == pc \in {"LANG", "KBD"} /\ ~kbdSet /\ ~fl.rescue /\ skipLangKbd /\ rc = BACK

\* The image of an NFS export was there and could not be mounted.
NfsAgain == pc = "NFS_STAGE_NFS" /\ UsesNfsData /\ stage2 # <<>>

\* The loader never goes round without end on its own: again and again it shows a
\* dialogue, or it ends.  The exceptions are the silent loops the code does have.
NoSilentLoop ==
  \/ []<>Asks
  \/ []<><<MenuLeft>>_vars
  \/ <>(pc = "UB")
  \/ []<>NetConfigLeft
  \/ <>[]StaleBack
  \/ []<>NfsAgain

\* copyFileAndLoopbackMount mounts a copy of the second stage, all of it.
WholeImage == pc = "DONE" => Runtime.whole
=============================================================================

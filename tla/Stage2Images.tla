---------------------------- MODULE Stage2Images ----------------------------
(***************************************************************************)
(* What the four installation methods of the loader share: the part of     *)
(* loaderData_s that says where the second stage is (method, stage2Data,   *)
(* instRepo, inferredStage2, invalidRepoParam), the mounts they make       *)
(* (/mnt/stage2, and /mnt/runtime over /dev/loop0), the copy of the image  *)
(* in /tmp/install.img, and the helpers of method.c and loadermisc.c.      *)
(*                                                                         *)
(* A location is a place an image can come from: a CD drive, a partition   *)
(* and directory, an NFS export, a URL.  What a location holds is chosen   *)
(* anew at every access: discs are changed and servers come and go.        *)
(***************************************************************************)
EXTENDS Integers, Sequences, Functions

CONSTANTS Drives,    \* the CD drives, in the order getDevices() lists them
          Parts,     \* partition and directory of hard drive installations
          Exports,   \* NFS server and directory
          Urls,      \* http and ftp URLs
          Plain,     \* locations whose path has no /images in it
          MaxStack   \* bound: mounts stacked on /mnt/stage2

CdDrives == Range(Drives)
Locations == CdDrives \cup Parts \cup Exports \cup Urls
None == "none"

\* The methods write their URLs with different prefixes; a CD's URL ends in
\* /mnt/stage2.
ASSUME LocationAssumption ==
  /\ Drives \in Seq(CdDrives) /\ None \notin Locations
  /\ CdDrives \cap (Parts \cup Exports \cup Urls) = {}
  /\ Parts \cap (Exports \cup Urls) = {} /\ Exports \cap Urls = {}
  /\ CdDrives \subseteq Plain

Methods == {"cd", "hd", "nfs", "url"}

Kind(l) == CASE l \in CdDrives -> "cd"
             [] l \in Parts    -> "hd"
             [] l \in Exports  -> "nfs"
             [] l \in Urls     -> "url"

\* loaderData->stage2Data: NULL, or a location of which a part may be missing.
StageData == [for : Methods, loc : Locations \cup {None}]
NoData == [for |-> None, loc |-> None]

\* A second stage image: where it was read, whether all of it is there, whether
\* it can be mounted.
Images == [src : Locations, whole : BOOLEAN, fs : BOOLEAN]
NoImage == [src |-> None, whole |-> FALSE, fs |-> FALSE]
RamCopy == [src |-> "ram", whole |-> FALSE, fs |-> FALSE]

VARIABLES
  pc,          \* the step of doLoaderMain, or the point in a method's function
  url,         \* what the method returned; None is NULL
  fl,          \* the loader's flags that matter here
  have,        \* classes of devices that are present
  method,      \* loaderData->method; None is -1
  data,        \* loaderData->stage2Data
  repo,        \* loaderData->instRepo; None is NULL
  inferred,    \* loaderData->inferredStage2
  badRepo,     \* loaderData->invalidRepoParam
  stage2,      \* what is mounted on /mnt/stage2, the visible mount last
  loop0,       \* the image mounted on /mnt/runtime; RamCopy is /tmp/install.img
  ramImg,      \* the content of /tmp/install.img
  target,      \* the location a method works on (its local variables)
  cd           \* setupCdrom's locals: drive, retbuf, interactive

ldVars == <<method, data, repo, inferred, badRepo>>
mntVars == <<stage2, loop0, ramImg>>

\* The visible mount on /mnt/stage2, and the mounts that remain without it.
Visible == stage2[Len(stage2)]
Beneath == SubSeq(stage2, 1, Len(stage2) - 1)

Classes == {"cd", "disk", "net"}
Class(m) == CASE m = "cd" -> "cd" [] m = "hd" -> "disk" [] OTHER -> "net"

\* setStage2LocFromCmdline for a location that names its server or partition;
\* "cdrom:" leaves stage2Data alone.
setStage2LocFromCmdline(l) ==
  /\ method' = Kind(l)
  /\ data' = IF Kind(l) = "cd" THEN data ELSE [for |-> Kind(l), loc |-> l]

\* Returning from the mountImage function of the method.
Return(l) == pc' = "RETURNED" /\ url' = l

\* The end of an attempt that failed on what stage2Data said.
ForgetMethod ==
  /\ method' = None
  /\ badRepo' = (badRepo \/ inferred)

ImagesAt(l) == [src : {l}, whole : {TRUE}, fs : BOOLEAN]

\* copyFileFd: what could be read overwrites /tmp/install.img.  An error of
\* read() is taken for the end of the file.  Whether an incomplete image can
\* still be mounted depends on its file system.
Copies(l) == [src : {l}, whole : BOOLEAN, fs : BOOLEAN]

\* copyFile: the same, or the source cannot be opened.
CopyResults(l) == {ramImg} \cup Copies(l)

\* mountLoopback succeeds: the image is a file system of one of the types tried
\* and /dev/loop0 is free.
mountLoopback(img) == img.fs /\ loop0 = NoImage

\* mountStage2 succeeds: the file is there and can be mounted.
mountStage2(img) == img # NoImage /\ mountLoopback(img)

\* The image the installer would run from.
Runtime == IF loop0 = RamCopy THEN ramImg ELSE loop0

\* loadDriverFromMedia as its callers see it: drivers for some classes of
\* devices may have been loaded.
LoadDrivers == \E new \in SUBSET Classes : have' = have \cup new
=============================================================================

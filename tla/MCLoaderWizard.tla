---------------------------- MODULE MCLoaderWizard ----------------------------
(* Instances of LoaderWizard for TLC. *)
EXTENDS LoaderWizard

\* LOADER_ERROR, LOADER_OK, LOADER_BACK, LOADER_NOOP.
AnyRc == {-1, 0, 1, 2}
NotBack == AnyRc \ {BACK}

TwoDrives == <<"sr0", "sr1">>
OneDrive == <<"sr0">>

Flag(rescue, ram, askmethod, cmdline, wantnet, earlynet, ifknown) ==
  [rescue |-> rescue, ram |-> ram, askmethod |-> askmethod,
   cmdline |-> cmdline, wantnet |-> wantnet, earlynet |-> earlynet,
   ifknown |-> ifknown]

Plainly == {Flag(FALSE, FALSE, FALSE, FALSE, FALSE, FALSE, FALSE)}
Rescuing == {Flag(TRUE, TRUE, FALSE, FALSE, FALSE, FALSE, FALSE)}
\* An ordinary start, askmethod with early networking, rescue without a copy in
\* RAM on the command line with vnc.
Various == Plainly \cup {Flag(FALSE, FALSE, TRUE, FALSE, FALSE, TRUE, FALSE),
                        Flag(TRUE, FALSE, FALSE, TRUE, TRUE, FALSE, TRUE)}
VariousOrRescue == Various \cup Rescuing

Start(m, d, l, r) == [method |-> m, data |-> [for |-> d, loc |-> l], repo |-> r]

\* Nothing given, or a method without a location.
NothingGiven == {Start(None, None, None, None)}
Interactive == NothingGiven \cup {Start("cd", None, None, None)}
\* stage2= or kickstart gave a location or a part of one, or repo= was given.
Given ==
  {Start(Kind(l), Kind(l), x, None) : l \in Parts \cup Urls, x \in Parts \cup Urls \cup {None}}
GivenRight == {s \in Given : s.data.loc = None \/ Kind(s.data.loc) = s.method}
Guessed == {Start(None, None, None, l) : l \in Parts \cup Urls \cup Exports}
UrlGiven == {s \in GivenRight : s.method = "url"}
NfsGiven == {Start("nfs", "nfs", x, None) : x \in Exports \cup {None}}
EveryStart == Interactive \cup GivenRight \cup Guessed \cup NfsGiven
=============================================================================

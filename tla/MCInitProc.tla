----------------------------- MODULE MCInitProc -----------------------------
(* InitProc with /proc, two filesystems the loader mounts, and one helper. *)
EXTENDS InitProc

CONSTANTS runtime, source, klogd

MCFs == {proc, runtime, source}
MCOwnFs == {proc}
MCHelpers == {klogd}
\* A kickstart poweroff, and a kickstart halt with "nokill".
MCOptions == {[nokill |-> FALSE, flag |-> "poweroff"], [nokill |-> TRUE, flag |-> "halt"]}
=============================================================================

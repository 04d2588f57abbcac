----------------------------- MODULE UndoMounts -----------------------------
(***************************************************************************)
(* unmountFilesystems (undomounts.c): init takes down all mounts and loop  *)
(* devices before the machine goes down.  The code reads /proc/mounts and  *)
(* the state of the loop devices into one table, and then calls undoLoop   *)
(* and undoMount, which call each other: everything mounted underneath a   *)
(* filesystem, and every loop device whose file lies on it, is undone      *)
(* before the filesystem itself.  The flag `mounted' of an entry is        *)
(* cleared when its undoing begins, which is what ends the recursion.      *)
(*                                                                         *)
(* A thing that was mounted, or attached to a loop device, is a number in  *)
(* Things, in the order in which they came about, so that its mount point  *)
(* lies on an earlier thing or on 0, which stands for "/", "/tmp" and      *)
(* "/dev": the code leaves these out of its table.  So does the file       *)
(* behind its loop device.  Paths are left out: one name lies under        *)
(* another when the mount points do, and no two mount points are the same. *)
(*                                                                         *)
(* umount2() may fail, and so may the opening of a loop device and         *)
(* LOOP_CLR_FD, which is refused while the device is mounted or a mount    *)
(* that was only detached still uses it.  The code prints the error and    *)
(* goes on.  (That /proc/mounts cannot be opened, so that there is no      *)
(* table at all, is in InitProc.)                                          *)
(***************************************************************************)
EXTENDS Integers, Sequences, FiniteSets, Functions

CONSTANT N                      \* bound: how many things there are

ASSUME NAssumption == N \in Nat \ {0}

Things == 1 .. N

\* "fs": mounted from a disk, the network or nothing; "loopfs": mounted from a
\* loop device; "loop": a loop device that nothing is mounted from.
Kinds == {"fs", "loopfs", "loop"}

VARIABLES
  kind, parent, back,   \* the things, where they are mounted, where their file is
  table,     \* filesystems: <<"FS", t>> and <<"LOOP", t>>, t the thing
  mounted,   \* the flag of every entry of the table
  scan,      \* <<pass, i>>: the two loops of unmountFilesystems
  stack,     \* calls of undoMount and undoLoop under way: entry and loop index
  inUse,     \* what the system has mounted
  attached,  \* the loop devices that have a file
  refused,   \* history: the filesystems that umount2() has failed on
  kept       \* history: the loop devices that could not be opened or cleared

world == <<kind, parent, back, table>>
system == <<inUse, attached, refused, kept>>
vars == <<kind, parent, back, table, mounted, scan, stack, inUse, attached, refused, kept>>

\* Mount points and files lie on something mounted earlier.
History ==
  /\ kind \in [Things -> Kinds]
  /\ parent \in [Things -> 0 .. N - 1]
  /\ back \in [Things -> 0 .. N - 1]
  /\ \A t \in Things : /\ parent[t] < t /\ back[t] < t
                       /\ parent[t] # 0 => kind[parent[t]] # "loop"
                       /\ back[t] # 0 => kind[back[t]] # "loop"
                       /\ kind[t] = "fs" => back[t] = 0
                       /\ kind[t] = "loop" => parent[t] = 0

\* Sets of things that hold what their members are mounted on.
Closed == {S \in SUBSET Things : \A t \in S : parent[t] # 0 => parent[t] \in S}

\* What t lies under, by its mount point.
Above(t) == {u \in Things : parent[t] # 0 /\ \A S \in Closed : parent[t] \in S => u \in S}
OnOrUnder(t, u) == t # 0 /\ (t = u \/ u \in Above(t))

Fs == {t \in Things : kind[t] \in {"fs", "loopfs"}}
Loops == {t \in Things : kind[t] \in {"loop", "loopfs"}}

\* The orders in which a set of things can be listed.
Listings(S) == UNION {Bijection(1 .. n, S) : n \in 0 .. N}

\* Mutant: the entries are counted from zero.
EntriesFromZero(what, s) == [i \in 1 .. Len(s) |-> <<what, s[i] - 1>>]

\* Reading /proc/mounts and then the loop devices by number.
Entries(what, s) == [i \in 1 .. Len(s) |-> <<what, s[i]>>]
ReadTable(mounts, loops) == Entries("FS", mounts) \o Entries("LOOP", loops)

TypeOK ==
  /\ History
  /\ table \in Seq({"FS", "LOOP"} \X Things)
  /\ mounted \in [1 .. Len(table) -> BOOLEAN]
  /\ scan \in {"loops", "mounts", "done"} \X Nat
  /\ stack \in Seq((1 .. Len(table)) \X (1 .. Len(table) + 1))
  /\ inUse \subseteq Fs
  /\ attached \subseteq Loops
  /\ refused \subseteq Fs
  /\ kept \subseteq Loops

Init ==
  /\ History
  /\ \E mounts \in Listings(Fs) :
       /\ \A i, j \in DOMAIN mounts : i < j => mounts[i] < mounts[j]
       /\ \E loops \in Listings(Loops) : table = ReadTable(mounts, loops)
  /\ mounted = [i \in 1 .. Len(table) |-> TRUE]
  /\ scan = <<"loops", 1>> /\ stack = << >>
  /\ inUse = Fs /\ attached = Loops /\ refused = {} /\ kept = {}
-----------------------------------------------------------------------------
What(i) == table[i][1]
Thing(i) == table[i][2]
Top == stack[Len(stack)]

\* Mutants: loop devices are not considered; the names are compared the wrong way.
UnderneathFsOnly(i, j) == What(j) = "FS" /\ Thing(i) \in Above(Thing(j))
UnderneathTurned(i, j) == What(j) = "FS" /\ Thing(j) \in Above(Thing(i))

\* The name of entry j begins with that of entry i and a slash.
Underneath(i, j) ==
  \/ What(j) = "FS" /\ Thing(i) \in Above(Thing(j))
  \/ What(j) = "LOOP" /\ OnOrUnder(back[Thing(j)], Thing(i))

\* Mutant: the flag is cleared too late.
CallKeepsFlag(i, frames) ==
  UNCHANGED mounted /\ stack' = IF mounted[i] THEN Append(frames, <<i, 1>>) ELSE frames

\* A call of undoMount or undoLoop for entry i, from a caller whose own frame is
\* left as `frames'; nothing happens when the entry's flag is clear.
Call(i, frames) ==
  IF mounted[i]
  THEN /\ mounted' = [mounted EXCEPT ![i] = FALSE]
       /\ stack' = Append(frames, <<i, 1>>)
  ELSE UNCHANGED mounted /\ stack' = frames

\* unmountFilesystems: for (i = 0; ...) if (what == LOOP) undoLoop(...)
ScanLoops ==
  /\ stack = << >> /\ scan[1] = "loops"
  /\ IF scan[2] > Len(table)
     THEN scan' = <<"mounts", 1>> /\ UNCHANGED <<mounted, stack>>
     ELSE /\ scan' = <<"loops", scan[2] + 1>>
          /\ IF What(scan[2]) = "LOOP" THEN Call(scan[2], << >>)
                                       ELSE UNCHANGED <<mounted, stack>>
  /\ UNCHANGED <<world, system>>

\* Mutant: the last entry is left out.
ScanEndEarly == scan[2] >= Len(table)

\* unmountFilesystems: the end of its last loop.
ScanEnd == scan[2] > Len(table)

\* unmountFilesystems: for (i = 0; ...) if (mounted) undoMount(...)
ScanMounts ==
  /\ stack = << >> /\ scan[1] = "mounts"
  /\ IF ScanEnd
     THEN scan' = <<"done", 0>> /\ UNCHANGED <<mounted, stack>>
     ELSE scan' = <<"mounts", scan[2] + 1>> /\ Call(scan[2], << >>)
  /\ UNCHANGED <<world, system>>

\* undoMount: i++
Advance(frame) == <<frame[1], frame[2] + 1>>

\* undoMount: one turn of the loop over the entries, with its recursive call.
undoMountLoop ==
  /\ stack # << >> /\ What(Top[1]) = "FS" /\ Top[2] <= Len(table)
  /\ LET frames == [stack EXCEPT ![Len(stack)] = Advance(Top)]
     IN  IF Underneath(Top[1], Top[2]) THEN Call(Top[2], frames)
                                       ELSE UNCHANGED mounted /\ stack' = frames
  /\ UNCHANGED <<world, scan, system>>

\* undoMount: umount2(MNT_DETACH), which takes along what is still mounted below,
\* or fails.
undoMountEnd ==
  /\ stack # << >> /\ What(Top[1]) = "FS" /\ Top[2] > Len(table)
  /\ \/ inUse' = {t \in inUse : ~OnOrUnder(t, Thing(Top[1]))} /\ UNCHANGED refused
     \/ refused' = refused \cup {Thing(Top[1])} /\ UNCHANGED inUse
  /\ stack' = SubSeq(stack, 1, Len(stack) - 1)
  /\ UNCHANGED <<world, mounted, scan, attached, kept>>

\* The first entry with the loop device of entry i mounted.
DeviceMounts(i) == {j \in 1 .. Len(table) : What(j) = "FS" /\ Thing(j) = Thing(i)
                                            /\ kind[Thing(j)] = "loopfs"}

\* Mutant: LOOP_CLR_FD at once.
undoLoopFindNone ==
  /\ stack # << >> /\ What(Top[1]) = "LOOP" /\ Top[2] = 1
  /\ stack' = [stack EXCEPT ![Len(stack)] = <<Top[1], 2>>]
  /\ UNCHANGED <<world, mounted, scan, system>>

\* undoLoop: find the device mount and undo it.
undoLoopFind ==
  /\ stack # << >> /\ What(Top[1]) = "LOOP" /\ Top[2] = 1
  /\ LET frames == [stack EXCEPT ![Len(stack)] = <<Top[1], 2>>]
     IN  \/ \E j \in DeviceMounts(Top[1]) : Call(j, frames)
         \/ DeviceMounts(Top[1]) = {} /\ stack' = frames /\ UNCHANGED mounted
  /\ UNCHANGED <<world, scan, system>>

\* undoLoop: open and LOOP_CLR_FD.  Either may fail, and the second does while the
\* device is mounted.
undoLoopEnd ==
  /\ stack # << >> /\ What(Top[1]) = "LOOP" /\ Top[2] = 2
  /\ \/ /\ Thing(Top[1]) \notin inUse
        /\ attached' = attached \ {Thing(Top[1])} /\ UNCHANGED kept
     \/ kept' = kept \cup {Thing(Top[1])} /\ UNCHANGED attached
  /\ stack' = SubSeq(stack, 1, Len(stack) - 1)
  /\ UNCHANGED <<world, mounted, scan, inUse, refused>>

Next == ScanLoops \/ ScanMounts \/ undoMountLoop \/ undoMountEnd \/ undoLoopFind \/ undoLoopEnd

Spec == Init /\ [][Next]_vars
-----------------------------------------------------------------------------
(* Properties *)

\* undoMount: umount2() is called for a filesystem that is still mounted, and only
\* when nothing is mounted below it but what umount2() has refused to let go, so
\* that MNT_DETACH takes no tree along that has not been tried leaf by leaf.
LeavesFirst ==
  stack # << >> /\ What(Top[1]) = "FS" /\ Top[2] > Len(table) =>
    /\ Thing(Top[1]) \in inUse \ refused
    /\ \A t \in inUse : Thing(Top[1]) \in Above(t) => t \in refused

\* undoMount and undoLoop: no filesystem goes before the loop devices whose files
\* lie on it, except for a device that could not be opened or cleared.
FileBeforeDevice ==
  \A t \in attached : back[t] # 0 => back[t] \in inUse \/ t \in kept

\* undoLoop: LOOP_CLR_FD meets no device that is still mounted, unless umount2() has
\* failed on it.
ClearIdle ==
  stack # << >> /\ What(Top[1]) = "LOOP" /\ Top[2] = 2 =>
    (Thing(Top[1]) \in inUse => Thing(Top[1]) \in refused)

\* unmountFilesystems: whatever fails on the way, at the end nothing in the table is
\* left but what umount2(), open or LOOP_CLR_FD has failed on.
AllUndone == scan[1] = "done" => inUse \subseteq refused /\ attached \subseteq kept

\* What is still to be done: the entries whose flag is set, the turns left in the
\* calls under way, and those left to unmountFilesystems.
Pending == {i \in 1 .. Len(table) : mounted[i]}
Turns(frames) ==
  {p \in (1 .. Len(frames)) \X (1 .. Len(table) + 1) : frames[p[1]][2] <= p[2]}
Scans ==
  CASE scan[1] = "loops"  -> 2 * Len(table) + 3 - scan[2]
    [] scan[1] = "mounts" -> Len(table) + 2 - scan[2]
    [] scan[1] = "done"   -> 0

Left == Cardinality(Pending) * (Len(table) + 2) + Cardinality(Turns(stack)) + Scans

\* The mutual recursion of undoMount and undoLoop ends, although only the flags
\* stop it: every step leaves less to be done.
ComesToAnEnd == [][Left' < Left]_vars
=============================================================================

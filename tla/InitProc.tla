------------------------------ MODULE InitProc ------------------------------
(***************************************************************************)
(* The first process (init.c) and the way the machine goes down            *)
(* (shutdown.c).  init prepares the system, forks the loader, installs its *)
(* signal handlers and waits for the loader to end; halt, poweroff and     *)
(* reboot (init.c under other names), run by the loader or from a shell,   *)
(* send it a signal.  The handlers call shutDown() in signal context, so   *)
(* one call of shutDown() may interrupt another: `stack' holds the calls,  *)
(* the innermost last.  A signal stays blocked while its handler runs.     *)
(*                                                                         *)
(* The loader is modelled by what init sees of it: it mounts filesystems,  *)
(* it may ask for halt or poweroff, and it exits, is killed, or cannot be  *)
(* started at all; then its process, still running init's code, takes the  *)
(* filesystems down by itself.                                             *)
(*                                                                         *)
(* /proc is one of the filesystems that shutDown() unmounts, and the one   *)
(* it reads the list of mounts from: a call that begins when /proc is gone *)
(* unmounts nothing, and the handlers no longer see "nokill".              *)
(***************************************************************************)
EXTENDS Naturals, Sequences

CONSTANTS
  Fs,         \* filesystems, other than "/", "/tmp" and "/dev"
  OwnFs,      \* those init mounts itself: /proc, /dev/pts and /sys
  proc,       \* /proc
  Helpers,    \* the other children: udevadm, klogd, dbus-daemon ...
  Options,    \* the ways to start considered
  MaxKeys     \* bound: signals the user sends (Ctrl-Alt-Del, reboot, halt, hangup)

Caught == {"INT", "USR1", "USR2"}      \* the signals init installs a handler for
Sigs == Caught \cup {"HUP"}

\* "nokill" on the kernel's command line, and what the kickstart file asks for.
ASSUME InitAssumption ==
  /\ Options \subseteq [nokill : BOOLEAN, flag : {"none", "halt", "poweroff"}]
  /\ MaxKeys \in Nat /\ "loader" \notin Helpers
  /\ OwnFs \subseteq Fs /\ proc \in OwnFs

VARIABLES
  opt,        \* the options of this start
  pc,         \* init's main program
  handler,    \* [Sigs -> ...]: what a signal does to init
  cad,        \* what the kernel does on Ctrl-Alt-Del: "hard" reboot or "INT" to init
  pending,    \* signals sent to init and not yet handled
  install,    \* installpid: "none" before fork, "pid", or "failed" for -1
  status,     \* waitStatus: "unset", "ok" (exit 0) or "bad"
  stack,      \* the calls of shutDown() that are under way
  loader,     \* the process /sbin/loader
  kids,       \* the helpers that are alive
  zombies,    \* children of init that have ended and are not reaped
  mounted,    \* filesystems mounted
  machine,    \* "up", "rebooted" or "off" through reboot(2), "reset" by the kernel
  keys,       \* signals the user has sent so far
  request,    \* history: what the loader has asked init for, "lost" if not heard
  late,       \* history: filesystems mounted since the last complete reading of
              \* /proc/mounts, or that umount2() has failed on
  childTodo,  \* what is left to the loader's process when it has become a shutDown()
  blind       \* history: a call of shutDown() could not open /proc/mounts

vars == <<opt, pc, handler, cad, pending, install, status, stack, loader, kids, zombies,
          mounted, machine, keys, request, late, childTodo, blind>>

\* A call of shutDown(noKill, doReboot, doPowerOff): its arguments, the signal
\* whose handler makes it, where it is, and what is left of the mounts it has read.
Calls == [nokill : BOOLEAN, how : {"reboot", "off", "halt"}, sig : Caught \cup {"none"},
          at : {"mounts", "unmount", "term", "kill", "down", "halted"},
          todo : SUBSET Fs]

shutDown(noKill, how, s) ==
  [nokill |-> noKill, how |-> how, sig |-> s, at |-> "mounts", todo |-> {}]

\* signal() as the C library has it: a handler's own signal is blocked.
Blocked == {stack[i].sig : i \in 1 .. Len(stack)}
Top == stack[Len(stack)]

\* init runs user code: no signal it could handle is waiting.
InitRuns == machine = "up" /\ pending \subseteq Blocked
MainRuns == InitRuns /\ stack = << >>

LoaderAlive == loader \in {"run", "asked", "exec_failed", "undoing"}
LoaderStates == {"none", "run", "asked", "exec_failed", "undoing", "ok", "bad"}

\* What the calls of shutDown() under way have read and not come to, here and in the
\* process that was to become the loader.
Unfinished == childTodo \cup UNION {stack[i].todo : i \in 1 .. Len(stack)}

\* What a call that could not read /proc/mounts leaves to those.
Stranded == IF blind THEN Unfinished ELSE {}

TypeOK ==
  /\ opt \in Options
  /\ pc \in {"boot", "fork", "USR1", "USR2", "INT", "cad", "wait", "status", "over"}
  /\ handler \in [Sigs -> {"ignored", "shutDown", "rebootHandler"}] /\ handler["HUP"] = "ignored"
  /\ cad \in {"hard", "INT"}
  /\ pending \subseteq Sigs
  /\ install \in {"none", "pid", "failed"}
  /\ status \in {"unset", "ok", "bad"}
  /\ stack \in Seq(Calls)
  /\ \A i, j \in 1 .. Len(stack) : i # j => stack[i].sig # stack[j].sig
  /\ loader \in LoaderStates
  /\ kids \subseteq Helpers
  /\ zombies \subseteq (Helpers \cup {"loader"}) \X {"ok", "bad"}
  /\ mounted \subseteq Fs
  /\ machine \in {"up", "rebooted", "off", "reset"}
  /\ keys \in 0 .. MaxKeys
  /\ request \in {"none", "lost", "halt", "poweroff"}
  /\ late \subseteq Fs /\ childTodo \subseteq Fs
  /\ blind \in BOOLEAN

Init ==
  /\ opt \in Options
  /\ pc = "boot"
  /\ handler = [s \in Sigs |-> "ignored"]      \* the default, for process 1
  /\ cad = "hard" /\ pending = {} /\ install = "none" /\ status = "unset"
  /\ stack = << >> /\ loader = "none" /\ kids = {} /\ zombies = {}
  /\ mounted = {} /\ machine = "up" /\ keys = 0 /\ request = "none" /\ late = {}
  /\ childTodo = {} /\ blind = FALSE
-----------------------------------------------------------------------------
(* The main program of init *)

\* The mounts of init itself (a failure is fatal), and a fork for every helper (some
\* may fail).
StartHelpers ==
  /\ MainRuns /\ pc = "boot" /\ pc' = "fork"
  /\ mounted' = mounted \cup OwnFs
  /\ \E hs \in SUBSET Helpers : kids' = hs
  /\ UNCHANGED <<opt, handler, cad, pending, install, status, stack, loader, zombies, machine,
                 keys, request, late, childTodo, blind>>

\* The fork of the loader; when execve() fails the child calls shutDown(1, 0, 0).
ForkLoader ==
  /\ MainRuns /\ pc = "fork" /\ pc' = "USR1"
  /\ \/ install' = "pid" /\ loader' \in {"run", "exec_failed"}
     \/ install' = "failed" /\ UNCHANGED loader
  /\ UNCHANGED <<opt, handler, cad, pending, status, stack, kids, zombies, mounted, machine,
                 keys, request, late, childTodo, blind>>

\* The three calls of signal(), in the order of the code.
InstallHandler ==
  /\ MainRuns /\ pc \in Caught
  /\ handler' = [handler EXCEPT ![pc] = "shutDown"]
  /\ pc' = CASE pc = "USR1" -> "USR2" [] pc = "USR2" -> "INT" [] pc = "INT" -> "cad"
  /\ UNCHANGED <<opt, cad, pending, install, status, stack, loader, kids, zombies, mounted,
                 machine, keys, request, late, childTodo, blind>>

\* cad_pid and ctrl-alt-del under /proc/sys/kernel; the files may not open.
CatchCtrlAltDel ==
  /\ MainRuns /\ pc = "cad" /\ pc' = "wait"
  /\ cad' \in {"hard", "INT"}
  /\ UNCHANGED <<opt, handler, pending, install, status, stack, loader, kids, zombies, mounted,
                 machine, keys, request, late, childTodo, blind>>

\* Mutant: the loader's end is taken for that of any other child.
IsInstallNever(child) == child = "init"

\* Whether what waitpid() returns is installpid.
IsInstall(child) == child = IF install = "pid" THEN "loader" ELSE "nobody"

\* waitpid(-1) returns a child, or -1 ("nobody") when there is none left; then
\* waitStatus keeps its value, and -1 is what installpid is after a failed fork.
WaitChild ==
  /\ MainRuns /\ pc = "wait"
  /\ \/ \E z \in zombies :
          /\ zombies' = zombies \ {z}
          /\ status' = z[2]
          /\ pc' = IF IsInstall(z[1]) THEN "status" ELSE "wait"
     \/ /\ zombies = {} /\ kids = {} /\ loader \in {"none", "ok", "bad"}
        /\ IsInstall("nobody")
        /\ pc' = "status"
        /\ UNCHANGED <<zombies, status>>
  /\ UNCHANGED <<opt, handler, cad, pending, install, stack, loader, kids, mounted, machine,
                 keys, request, late, childTodo, blind>>

\* Mutant: WEXITSTATUS is not looked at.
RebootsAlways == TRUE

\* doReboot: only after an exit status of 0.  A status nobody has written is
\* whatever was on the stack.
Reboots == status \in {"ok", "unset"}
Halts == status \in {"bad", "unset"}

\* The end of main: shutDown(noKill, doReboot, 0).
InstallEnded ==
  /\ MainRuns /\ pc = "status" /\ pc' = "over"
  /\ \/ Reboots /\ stack' = <<shutDown(opt.nokill, "reboot", "none")>>
     \/ Halts /\ stack' = <<shutDown(opt.nokill, "halt", "none")>>
  /\ UNCHANGED <<opt, handler, cad, pending, install, status, loader, kids, zombies, mounted,
                 machine, keys, request, late, childTodo, blind>>
-----------------------------------------------------------------------------
(* Signals *)

\* Mutant: the body of sigintHandler in all three.
HowReboot(s) == "reboot"

\* sigintHandler, sigUsr1Handler, sigUsr2Handler
How(s) == CASE s = "INT" -> "reboot" [] s = "USR1" -> "halt" [] s = "USR2" -> "off"

\* getNoKill: "nokill" in /proc/cmdline, if it can be read.
getNoKill == opt.nokill /\ proc \in mounted

\* A handler is entered: any signal that is not blocked, in any order.
Deliver(s) ==
  /\ machine = "up"
  /\ s \in pending \ Blocked
  /\ pending' = pending \ {s}
  /\ CASE handler[s] = "ignored" -> UNCHANGED <<stack, machine>>
       [] handler[s] = "shutDown" ->
            stack' = Append(stack, shutDown(getNoKill, How(s), s)) /\ UNCHANGED machine
       [] handler[s] = "rebootHandler" -> machine' = "rebooted" /\ UNCHANGED stack
  /\ UNCHANGED <<opt, pc, handler, cad, install, status, loader, kids, zombies, mounted,
                 keys, request, late, childTodo, blind>>
-----------------------------------------------------------------------------
(* shutDown, step by step, in the innermost call *)

SetTop(c) == stack' = [stack EXCEPT ![Len(stack)] = c]

\* disableSwap, and unmountFilesystems up to its reading of /proc/mounts, which is
\* gone when an earlier call has unmounted /proc.
ReadMounts ==
  /\ InitRuns /\ stack # << >> /\ Top.at = "mounts"
  /\ \/ /\ proc \in mounted
        /\ SetTop([Top EXCEPT !.at = "unmount", !.todo = mounted])
        /\ late' = IF \E i \in 1 .. Len(stack) : stack[i].at = "halted" THEN late ELSE {}
        /\ UNCHANGED blind
     \/ /\ proc \notin mounted
        /\ SetTop([Top EXCEPT !.at = "term"])
        /\ blind' = TRUE
        /\ UNCHANGED late
  /\ UNCHANGED <<opt, pc, handler, cad, pending, install, status, loader, kids, zombies,
                 mounted, machine, keys, request, childTodo>>

\* Mutant: shutDown goes on after the first umount2().
NextAfterUnmountEarly(todo) == "term"

NextAfterUnmount(todo) == IF todo = {} THEN "term" ELSE "unmount"

\* umount2(MNT_DETACH) of one of them, in an order UndoMounts describes.
Unmount ==
  /\ InitRuns /\ stack # << >> /\ Top.at = "unmount"
  /\ \/ \E f \in Top.todo :
          /\ SetTop([Top EXCEPT !.todo = @ \ {f}, !.at = NextAfterUnmount(Top.todo \ {f})])
          /\ \/ mounted' = mounted \ {f} /\ UNCHANGED late
             \/ late' = late \cup {f} /\ UNCHANGED mounted      \* "umount failed"
     \/ /\ Top.todo = {}
        /\ SetTop([Top EXCEPT !.at = "term"])
        /\ UNCHANGED <<mounted, late>>
  /\ UNCHANGED <<opt, pc, handler, cad, pending, install, status, loader, kids, zombies,
                 machine, keys, request, childTodo, blind>>

\* kill(-1, 15) and kill(-1, 9).  Not every process gives in to SIGTERM.
Kill ==
  /\ InitRuns /\ stack # << >> /\ Top.at \in {"term", "kill"}
  /\ SetTop([Top EXCEPT !.at = CASE Top.nokill -> "down"
                                 [] Top.at = "term" -> "kill"
                                 [] OTHER -> "down"])
  /\ IF Top.nokill THEN UNCHANGED <<loader, kids, zombies>>
     ELSE \E ks \in IF Top.at = "term" THEN SUBSET kids ELSE {kids} :
          \E l \in IF Top.at = "term" THEN BOOLEAN ELSE {TRUE} :
            /\ kids' = kids \ ks
            /\ loader' = IF l /\ LoaderAlive THEN "bad" ELSE loader
            /\ zombies' = zombies \cup {<<k, "bad">> : k \in ks}
                          \cup IF l /\ LoaderAlive THEN {<<"loader", "bad">>} ELSE {}
  /\ UNCHANGED <<opt, pc, handler, cad, pending, install, status, mounted, machine, keys,
                 request, late, childTodo, blind>>

\* reboot(2), or the message, the handler of SIGINT and the endless sleep.
GoDown ==
  /\ InitRuns /\ stack # << >> /\ Top.at = "down"
  /\ CASE Top.how = "reboot" -> machine' = "rebooted" /\ UNCHANGED <<stack, handler>>
       [] Top.how = "off" -> machine' = "off" /\ UNCHANGED <<stack, handler>>
       [] Top.how = "halt" -> /\ SetTop([Top EXCEPT !.at = "halted"])
                              /\ handler' = [handler EXCEPT !["INT"] = "rebootHandler"]
                              /\ UNCHANGED machine
  /\ UNCHANGED <<opt, pc, cad, pending, install, status, loader, kids, zombies, mounted,
                 keys, request, late, childTodo, blind>>
-----------------------------------------------------------------------------
(* The other processes and the user *)

Mount(f) ==
  /\ machine = "up" /\ loader = "run" /\ f \notin mounted \cup OwnFs
  /\ mounted' = mounted \cup {f}
  /\ late' = late \cup {f}
  /\ UNCHANGED <<opt, pc, handler, cad, pending, install, status, stack, loader, kids, zombies,
                 machine, keys, request, childTodo, blind>>

\* execve() has failed: the child is in shutDown(1, 0, 0), where it reads /proc/mounts,
\* unmounts what it can, kills nobody and sleeps.
ChildReads ==
  /\ machine = "up" /\ loader = "exec_failed" /\ loader' = "undoing"
  /\ childTodo' = IF proc \in mounted THEN mounted ELSE {}
  /\ UNCHANGED <<opt, pc, handler, cad, pending, install, status, stack, kids, zombies, mounted,
                 machine, keys, request, late, blind>>

ChildUnmounts(f) ==
  /\ machine = "up" /\ loader = "undoing" /\ f \in childTodo
  /\ childTodo' = childTodo \ {f}
  /\ \/ mounted' = mounted \ {f} /\ UNCHANGED late
     \/ late' = late \cup {f} /\ UNCHANGED mounted
  /\ UNCHANGED <<opt, pc, handler, cad, pending, install, status, stack, loader, kids, zombies,
                 machine, keys, request, blind>>

\* The end of loader.c's main when anaconda has succeeded: run /sbin/poweroff or
\* /sbin/halt and wait for it.  The command may not start or not find init.pid.
AskDown ==
  /\ machine = "up" /\ loader = "run" /\ opt.flag # "none"
  /\ loader' = "asked"
  /\ LET s == IF opt.flag = "poweroff" THEN "USR2" ELSE "USR1" IN
     \/ /\ pending' = pending \cup {s}
        /\ request' = IF handler[s] = "ignored" THEN "lost" ELSE opt.flag
     \/ request' = "lost" /\ UNCHANGED pending
  /\ UNCHANGED <<opt, pc, handler, cad, install, status, stack, kids, zombies, mounted, machine,
                 keys, late, childTodo, blind>>

\* The loader ends: with rc = 0 after AskDown, else with whatever there is (with
\* "interactive" it has become a shell).
LoaderExits ==
  /\ machine = "up" /\ loader \in {"run", "asked"}
  /\ \E r \in IF loader = "asked" THEN {"ok"} ELSE {"ok", "bad"} :
       loader' = r /\ zombies' = zombies \cup {<<"loader", r>>}
  /\ UNCHANGED <<opt, pc, handler, cad, pending, install, status, stack, kids, mounted, machine,
                 keys, request, late, childTodo, blind>>

HelperExits(h) ==
  /\ machine = "up" /\ h \in kids
  /\ kids' = kids \ {h}
  /\ \E r \in {"ok", "bad"} : zombies' = zombies \cup {<<h, r>>}
  /\ UNCHANGED <<opt, pc, handler, cad, pending, install, status, stack, loader, mounted,
                 machine, keys, request, late, childTodo, blind>>

\* Ctrl-Alt-Del (what it does is up to cad), or reboot, halt and poweroff from a
\* shell, or a hangup.
UserSignals ==
  /\ machine = "up" /\ keys < MaxKeys
  /\ keys' = keys + 1
  /\ \/ cad = "hard" /\ machine' = "reset" /\ UNCHANGED pending
     \/ \E s \in Sigs : pending' = pending \cup {s} /\ UNCHANGED machine
  /\ UNCHANGED <<opt, pc, handler, cad, install, status, stack, loader, kids, zombies, mounted,
                 request, late, childTodo, blind>>
-----------------------------------------------------------------------------
InitStep ==
  \/ StartHelpers \/ ForkLoader \/ InstallHandler \/ CatchCtrlAltDel
  \/ WaitChild \/ InstallEnded
  \/ ReadMounts \/ Unmount \/ Kill \/ GoDown
  \/ \E s \in Sigs : Deliver(s)

Next ==
  \/ InitStep
  \/ \E f \in Fs : Mount(f) \/ ChildUnmounts(f)
  \/ ChildReads
  \/ AskDown \/ LoaderExits
  \/ \E h \in Helpers : HelperExits(h)
  \/ UserSignals

Spec == Init /\ [][Next]_vars

\* init is scheduled; the loader, the helpers and the user do as they like.
FairSpec == Spec /\ WF_vars(InitStep)
-----------------------------------------------------------------------------
(* Properties *)

\* unmountFilesystems inside shutDown: whenever init itself takes the machine down,
\* from its main program or from a handler that interrupted another shutDown, the
\* filesystems are unmounted but for those mounted after /proc/mounts was read and
\* those umount2() has refused.  A call that began when /proc was gone leaves, besides,
\* what the interrupted call was still going to unmount, and nothing else.
DownUnmounted ==
  machine \in {"rebooted", "off"} => mounted \subseteq late \cup Stranded

\* init.c and the end of loader.c: a kickstart poweroff (or halt) that has reached
\* init is not overtaken by the reboot that follows a loader that exits with 0,
\* although both happen within moments.  (The user may still reboot.)
RequestHonoured ==
  keys = 0 => /\ request = "poweroff" => machine \in {"up", "off"}
              /\ request = "halt" => machine = "up"

\* init.c after its loop: nobody's wish apart, the machine is rebooted only when
\* the loader has exited with 0.  (After a fork that failed the status tested is
\* that of some other child, or nobody's.)
RebootAfterSuccess ==
  keys = 0 /\ machine = "rebooted" => loader = "ok" \/ install = "failed"

\* init.c: when the loader has ended the machine goes down, or stands halted.
LoaderEndIsNoticed ==
  (loader \in {"ok", "bad"} /\ install = "pid")
     ~> (machine # "up" \/ (stack # << >> /\ Top.at = "halted"))
=============================================================================

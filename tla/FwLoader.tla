------------------------------ MODULE FwLoader ------------------------------
(***************************************************************************)
(* The firmware loader of stage 1 (fwloader.c): the loader process forks a *)
(* daemon that listens for kernel uevents, finds the firmware file a       *)
(* device asks for in a search path and feeds it to the kernel through the *)
(* sysfs attributes `loading' and `data'.  The loader extends the search   *)
(* path when a driver disk or an updates image brings firmware, and then   *)
(* stops the daemon and starts another one, because the daemon works on    *)
(* the copy of the path it got at fork.                                    *)
(*                                                                         *)
(* Three actors interleave: the loader, every daemon it has forked, and    *)
(* the kernel (external: modelled from what the code expects of it).  One  *)
(* action is one system call with the user code that follows it.  A signal *)
(* that is pending is handled before the daemon runs any more user code,   *)
(* hence the conjunct sig[p] = {} (Runs) in every step of a daemon.        *)
(***************************************************************************)
EXTENDS Integers, Sequences, FiniteSets

CONSTANTS
  Devs,        \* devices whose drivers may ask for firmware
  Dirs,        \* directories that may be put on the search path
  FwAt,        \* [Devs -> [Dirs -> FileState]]: what a lookup there finds
  InitPath,    \* "/firmware:/lib/firmware", the path of the first daemon
  AddLists,    \* the directory lists one restart may append
  NChunks,     \* write() calls it takes to copy a firmware image
  Timeout,     \* polls of 100 us before _load_firmware gives up on sysdir
  KillAfter,   \* 90 in the code: polls before SIGKILL is used
  MaxPolls,    \* 100 in the code: the last value of x that is polled
  MaxStarts,   \* bound: daemons ever forked
  MaxPath,     \* bound: entries the search path grows to
  QueueMax,    \* uevents the netlink socket buffers
  Telnet       \* TRUE when the loader may run under "telnet" (telnetd.c)

FileState == {"ok", "missing", "error"}
Pids == 1 .. MaxStarts
NoPid == -1
Other == "other"            \* a uevent that is not an add of a firmware
NoDev == "none"

ASSUME FwAssumption ==
  /\ Other \notin Devs /\ NoDev \notin Devs
  /\ FwAt \in [Devs -> [Dirs -> FileState]]
  /\ InitPath \in Seq(Dirs)
  /\ AddLists \subseteq Seq(Dirs)
  /\ NChunks \in Nat \ {0} /\ Timeout \in Nat /\ MaxStarts \in Nat \ {0}
  /\ QueueMax \in Nat /\ MaxPath \in Nat
  /\ KillAfter \in Nat /\ MaxPolls \in Nat /\ KillAfter < MaxPolls
  /\ Telnet \in BOOLEAN

Chunks == 1 .. NChunks

VARIABLES
  \* the loader process
  main,        \* where it is: "start", "run", in the loop "stop", or "exit"
  after,       \* where stop_fw_loader returns to
  x,           \* the counter of stop_fw_loader
  path,        \* loaderData->fw_search_pathz
  fwPid,       \* loaderData->fw_loader_pid
  nextPid,     \* the pid the next fork returns
  mine,        \* the daemons that are children of the process loader runs in
  \* the daemons
  st,          \* where a daemon is
  done,        \* its flag of that name
  committed,   \* history: the daemons SIGTERM has caught between their test of done
               \* and recv()
  sig,         \* signals pending for it
  snap,        \* fw_pathz, its copy of the search path
  queue,       \* messages waiting in its netlink socket
  dev,         \* the device load_firmware works for
  left,        \* what is left of timeout in _load_firmware
  count,       \* chunks _load_firmware has written
  fds,         \* the sysfs files it has open: `loading' (lfd), `data' (dfd)
  \* the kernel
  req, data

loaderVars == <<main, after, x, path, fwPid, nextPid, mine>>
job == <<dev, left, count, fds>>
kernelVars == <<req, data>>
vars == <<main, after, x, path, fwPid, nextPid, mine,
          st, done, committed, sig, snap, queue, dev, left, count, fds, req, data>>

DaemonStates ==
  {"unborn", "boot", "bind", "check", "armed", "poll", "recv", "find", "wait", "mark",
   "open", "write", "fin", "abort", "zombie", "reaped"}
Unbound == {"unborn", "boot", "bind", "zombie", "reaped"}

Alive(p) == st[p] \notin {"unborn", "zombie", "reaped"}
Runs(p)  == sig[p] = {}
Told(p)  == done[p] \/ sig[p] # {}

ReqStates == {"idle", "announced", "pending", "loading", "done", "failed"}
InProgress(d) == req[d] \in {"announced", "pending", "loading"}
Sysdir(d)     == req[d] \in {"pending", "loading"}

TypeOK ==
  /\ main \in {"start", "run", "stop", "exit"}
  /\ after \in {"start", "exit"}
  /\ x \in 0 .. MaxPolls
  /\ path \in Seq(Dirs)
  /\ fwPid \in Pids \cup {NoPid}
  /\ nextPid \in 1 .. MaxStarts + 1
  /\ mine \subseteq Pids
  /\ st \in [Pids -> DaemonStates]
  /\ done \in [Pids -> BOOLEAN]
  /\ committed \subseteq Pids
  /\ sig \in [Pids -> SUBSET {"TERM", "KILL"}]
  /\ snap \in [Pids -> Seq(Dirs)]
  /\ queue \in [Pids -> Seq(Devs \cup {Other})]
  /\ dev \in [Pids -> Devs \cup {NoDev}]
  /\ left \in [Pids -> 0 .. Timeout]
  /\ count \in [Pids -> 0 .. NChunks]
  /\ fds \in [Pids -> SUBSET {"loading", "data"}]
  /\ req \in [Devs -> ReqStates]
  /\ data \in [Devs -> SUBSET Chunks]

Init ==
  /\ main = "start" /\ after = "start" /\ x = 0
  /\ path = InitPath /\ fwPid = NoPid /\ nextPid = 1 /\ mine = {}
  /\ st = [p \in Pids |-> "unborn"]
  /\ done = [p \in Pids |-> FALSE] /\ committed = {}
  /\ sig = [p \in Pids |-> {}]
  /\ snap = [p \in Pids |-> << >>]
  /\ queue = [p \in Pids |-> << >>]
  /\ dev = [p \in Pids |-> NoDev]
  /\ left = [p \in Pids |-> 0]
  /\ count = [p \in Pids |-> 0]
  /\ fds = [p \in Pids |-> {}]
  /\ req = [d \in Devs |-> "idle"]
  /\ data = [d \in Devs |-> {}]
-----------------------------------------------------------------------------
(* The loader process *)

\* start_fw_loader: the parent's side of fork, which may fail.
start_fw_loader ==
  /\ main = "start"
  /\ main' = "run"
  /\ \/ /\ nextPid \in Pids
        /\ st' = [st EXCEPT ![nextPid] = "boot"]
        /\ snap' = [snap EXCEPT ![nextPid] = path]
        /\ fwPid' = nextPid
        /\ nextPid' = nextPid + 1
        /\ mine' = mine \cup {nextPid}
     \/ UNCHANGED <<st, snap, fwPid, nextPid, mine>>
  /\ UNCHANGED <<after, x, path, done, committed, sig, queue, job, kernelVars>>

\* kill(2) on a pid: a process that has exited is not affected.
SignalDaemon(s) ==
  sig' = IF fwPid # NoPid /\ Alive(fwPid)
         THEN [sig EXCEPT ![fwPid] = @ \cup {s}] ELSE sig

\* stop_fw_loader up to its loop.
BeginStop(next) ==
  /\ main = "run"
  /\ main' = "stop"
  /\ after' = next
  /\ x' = 0
  /\ SignalDaemon("TERM")

\* Mutant: the path grows and the running daemon is left alone.
RestartForgotten(ds) ==
  /\ nextPid \in Pids /\ Len(path \o ds) <= MaxPath
  /\ main = "run"
  /\ path' = path \o ds
  /\ UNCHANGED <<main, after, x, fwPid, nextPid, mine, st, done, committed, sig, snap, queue,
                 job, kernelVars>>

\* loadDriverDisk and main: add_fw_search_dir, stop_fw_loader, start_fw_loader.
Restart(ds) ==
  /\ nextPid \in Pids /\ Len(path \o ds) <= MaxPath
  /\ path' = path \o ds
  /\ BeginStop("start")
  /\ UNCHANGED <<fwPid, nextPid, mine, st, done, committed, snap, queue, job, kernelVars>>

\* main: the last stop_fw_loader, after anaconda has returned.
FinalStop ==
  /\ BeginStop("exit")
  /\ UNCHANGED <<path, fwPid, nextPid, mine, st, done, committed, snap, queue, job,
                 kernelVars>>

\* Mutant: SIGTERM is all the daemon ever gets.
EscalateNever == UNCHANGED sig

\* stop_fw_loader: SIGKILL in every turn after the first 90.
Escalate == IF x > KillAfter THEN SignalDaemon("KILL") ELSE UNCHANGED sig

\* Mutants: the turn is not counted; one turn more than x has room for.
CountTurnNever == UNCHANGED <<x, main>>
CountTurnTwice == IF x > MaxPolls THEN main' = after /\ UNCHANGED x
                                  ELSE x' = x + 1 /\ UNCHANGED main

\* stop_fw_loader: x++ and the condition of the loop.
CountTurn == IF x = MaxPolls THEN main' = after /\ UNCHANGED x
                             ELSE x' = x + 1 /\ UNCHANGED main

\* One turn of the loop of stop_fw_loader.  Without a pid waitid() fails with
\* EINVAL, which is neither ECHILD nor a turn that counts: the loop spins.
StopPoll ==
  /\ main = "stop"
  /\ fwPid # NoPid
  /\ Escalate
  /\ \/ /\ fwPid \notin mine \/ st[fwPid] = "reaped"      \* ECHILD
        /\ main' = after
        /\ UNCHANGED <<x, st>>
     \/ /\ fwPid \in mine /\ st[fwPid] = "zombie"         \* si_pid # 0
        /\ st' = [st EXCEPT ![fwPid] = "reaped"]
        /\ main' = after
        /\ UNCHANGED x
     \/ /\ fwPid \in mine /\ Alive(fwPid)
        /\ CountTurn
        /\ UNCHANGED st
  /\ UNCHANGED <<after, path, fwPid, nextPid, mine, done, committed, snap, queue, job,
                 kernelVars>>

\* beTelnet forks and goes on in the child; the daemons stay with the parent.
TelnetFork ==
  /\ Telnet /\ main = "run"
  /\ mine' = {}
  /\ UNCHANGED <<main, after, x, path, fwPid, nextPid, st, done, committed, sig, snap,
                 queue, job, kernelVars>>
-----------------------------------------------------------------------------
(* A daemon *)

Goto(p, s) == st' = [st EXCEPT ![p] = s]

\* daemonize: from here on SIGTERM is caught.
daemonize(p) ==
  /\ Runs(p) /\ st[p] = "boot" /\ Goto(p, "bind")
  /\ UNCHANGED <<loaderVars, done, committed, sig, snap, queue, job, kernelVars>>

\* open_uevent_socket; a failure ends the daemon with exit(1).
open_uevent_socket(p) ==
  /\ Runs(p) /\ st[p] = "bind"
  /\ Goto(p, "check") \/ Goto(p, "zombie")
  /\ UNCHANGED <<loaderVars, done, committed, sig, snap, queue, job, kernelVars>>

\* handle_events: the test of done before poll().
CheckDone(p) ==
  /\ Runs(p) /\ st[p] = "check"
  /\ Goto(p, IF done[p] THEN "zombie" ELSE "armed")
  /\ UNCHANGED <<loaderVars, done, committed, sig, snap, queue, job, kernelVars>>

\* handle_events: poll(fds, 1, -1) starts; done is not looked at any more.
EnterPoll(p) ==
  /\ Runs(p) /\ st[p] = "armed" /\ Goto(p, "poll")
  /\ UNCHANGED <<loaderVars, done, committed, sig, snap, queue, job, kernelVars>>

\* Mutant: the second test of done is missing.
QuitsAfterPollNever(p) == FALSE

\* handle_events: the test of done after poll().
QuitsAfterPoll(p) == done[p]

\* handle_events: poll() reports a message, and done is tested once more.
PollReturns(p) ==
  /\ Runs(p) /\ st[p] = "poll" /\ queue[p] # << >>
  /\ Goto(p, IF QuitsAfterPoll(p) THEN "zombie" ELSE "recv")
  /\ UNCHANGED <<loaderVars, done, committed, sig, snap, queue, job, kernelVars>>

\* get_netlink_msg and the filter of handle_single_uevent.  SIGTERM may have come
\* since the test of done.  recv() may fail.
get_netlink_msg(p) ==
  /\ Runs(p) /\ st[p] = "recv"
  /\ committed' = committed \ {p}
  /\ \/ Goto(p, "check") /\ UNCHANGED <<queue, job>>
     \/ /\ queue[p] # << >>
        /\ queue' = [queue EXCEPT ![p] = Tail(@)]
        /\ IF Head(queue[p]) \in Devs
           THEN /\ dev' = [dev EXCEPT ![p] = Head(queue[p])]
                /\ count' = [count EXCEPT ![p] = 0]
                /\ fds' = [fds EXCEPT ![p] = {}]
                /\ Goto(p, "find")
                /\ UNCHANGED left
           ELSE /\ Goto(p, "check")
                /\ UNCHANGED job
  /\ UNCHANGED <<loaderVars, done, sig, snap, kernelVars>>

\* The search loop of load_firmware: ENOENT and EPERM go on to the next
\* directory, any other failure of fetcher() ends the search.
Found(d, dirs) ==
  \E i \in 1 .. Len(dirs) :
    /\ FwAt[d][dirs[i]] = "ok"
    /\ \A j \in 1 .. i - 1 : FwAt[d][dirs[j]] = "missing"

\* load_firmware up to the call of _load_firmware.  When the file is not found,
\* or there is no temporary file, the kernel is told nothing.
load_firmware(p) ==
  /\ Runs(p) /\ st[p] = "find"
  /\ \/ /\ Found(dev[p], snap[p])
        /\ left' = [left EXCEPT ![p] = Timeout]
        /\ Goto(p, "wait")
     \/ Goto(p, "check") /\ UNCHANGED left
  /\ UNCHANGED <<loaderVars, done, committed, sig, snap, queue, dev, count, fds, kernelVars>>

\* _load_firmware: wait for sysdir and open `loading'.  The directory has to be
\* there while time is left: at timeout = 0 the code gives up without a look.
WaitSysdir(p) ==
  /\ Runs(p) /\ st[p] = "wait"
  /\ \/ /\ left[p] > 0 /\ ~Sysdir(dev[p])
        /\ left' = [left EXCEPT ![p] = @ - 1]
        /\ UNCHANGED <<st, fds>>
     \/ /\ left[p] > 0 /\ Sysdir(dev[p])
        /\ fds' = [fds EXCEPT ![p] = {"loading"}]
        /\ Goto(p, "mark")
        /\ UNCHANGED left
     \/ /\ left[p] = 0 \/ Sysdir(dev[p])      \* time is up, or open() fails
        /\ Goto(p, "check")
        /\ UNCHANGED <<left, fds>>
  /\ UNCHANGED <<loaderVars, done, committed, sig, snap, queue, dev, count, kernelVars>>

\* _load_firmware: set_loading(lfd, 1).  The kernel drops what it had.
MarkLoading(p) ==
  /\ Runs(p) /\ st[p] = "mark" /\ Goto(p, "open")
  /\ IF "loading" \in fds[p]
     THEN /\ req' = [req EXCEPT ![dev[p]] = "loading"]
          /\ data' = [data EXCEPT ![dev[p]] = {}]
     ELSE UNCHANGED kernelVars
  /\ UNCHANGED <<loaderVars, done, committed, sig, snap, queue, job>>

\* Mutants of CopyFails: return at once; take a short copy for a whole one.
CopyFailsSilently(p) == Goto(p, "check")
CopyFailsAsDone(p) == Goto(p, "fin")

\* _load_firmware: goto out with loading still -1.
CopyFails(p) == Goto(p, "abort")

\* _load_firmware: fd_map and open of `data'; a failure leaves loading = -1.
OpenData(p) ==
  /\ Runs(p) /\ st[p] = "open"
  /\ \/ /\ Sysdir(dev[p])
        /\ fds' = [fds EXCEPT ![p] = @ \cup {"data"}]
        /\ Goto(p, "write")
     \/ CopyFails(p) /\ UNCHANGED fds
  /\ UNCHANGED <<loaderVars, done, committed, sig, snap, queue, dev, left, count, kernelVars>>

\* _load_firmware: one write() of the copy loop; loading = 0 after the last.
WriteData(p) ==
  /\ Runs(p) /\ st[p] = "write"
  /\ \/ /\ "data" \in fds[p]
        /\ data' = [data EXCEPT ![dev[p]] = @ \cup {count[p] + 1}]
        /\ count' = [count EXCEPT ![p] = @ + 1]
        /\ Goto(p, IF count[p] + 1 = NChunks THEN "fin" ELSE "write")
     \/ CopyFails(p) /\ UNCHANGED <<count, data>>
  /\ UNCHANGED <<loaderVars, done, committed, sig, snap, queue, dev, left, fds, req>>

\* The request of d is over: its sysfs files are gone for whoever has them open.
CloseFiles(d) ==
  fds' = [p \in Pids |-> IF dev[p] = d THEN {} ELSE fds[p]]

\* _load_firmware: set_loading(lfd, loading).  0 completes a request that is
\* loading; -1, or 0 out of turn, aborts it.
Finish(p) ==
  /\ Runs(p) /\ st[p] \in {"fin", "abort"} /\ Goto(p, "check")
  /\ IF "loading" \in fds[p]
     THEN /\ req' = [req EXCEPT ![dev[p]] = IF st[p] = "fin" /\ @ = "loading"
                                            THEN "done" ELSE "failed"]
          /\ CloseFiles(dev[p])
     ELSE UNCHANGED <<req, fds>>
  /\ UNCHANGED <<loaderVars, done, committed, sig, snap, queue, dev, left, count, data>>

\* SIGTERM arrives: it kills a daemon that has not got its handler yet, makes
\* a poll() that is under way fail (done is set, so exit(0)), else sets done.
kill_hotplug_signal(p) ==
  /\ "TERM" \in sig[p] /\ Alive(p)
  /\ sig' = [sig EXCEPT ![p] = @ \ {"TERM"}]
  /\ IF st[p] \in {"boot", "poll"}
     THEN Goto(p, "zombie") /\ UNCHANGED done
     ELSE done' = [done EXCEPT ![p] = TRUE] /\ UNCHANGED st
  /\ committed' = IF st[p] = "recv" THEN committed \cup {p} ELSE committed
  /\ UNCHANGED <<loaderVars, snap, queue, job, kernelVars>>

\* SIGKILL arrives (external).
Killed(p) ==
  /\ "KILL" \in sig[p] /\ Alive(p)
  /\ Goto(p, "zombie")
  /\ sig' = [sig EXCEPT ![p] = {}]
  /\ UNCHANGED <<loaderVars, done, committed, snap, queue, job, kernelVars>>

DaemonStep(p) ==
  \/ daemonize(p) \/ open_uevent_socket(p)
  \/ CheckDone(p) \/ EnterPoll(p) \/ PollReturns(p) \/ get_netlink_msg(p)
  \/ load_firmware(p) \/ WaitSysdir(p) \/ MarkLoading(p)
  \/ OpenData(p) \/ WriteData(p) \/ Finish(p)
-----------------------------------------------------------------------------
(* The kernel (external) *)

\* A uevent goes to every bound socket with room left; elsewhere it is lost.
Multicast(u) ==
  queue' = [p \in Pids |-> IF st[p] \notin Unbound /\ Len(queue[p]) < QueueMax
                           THEN Append(queue[p], u) ELSE queue[p]]

\* A driver calls request_firmware(); sysdir may show up a little later.
RequestFirmware(d) ==
  /\ ~InProgress(d)
  /\ \E s \in {"announced", "pending"} : req' = [req EXCEPT ![d] = s]
  /\ data' = [data EXCEPT ![d] = {}]
  /\ Multicast(d)
  /\ UNCHANGED <<loaderVars, st, done, committed, sig, snap, job>>

SysdirAppears(d) ==
  /\ req[d] = "announced"
  /\ req' = [req EXCEPT ![d] = "pending"]
  /\ UNCHANGED <<loaderVars, st, done, committed, sig, snap, queue, job, data>>

\* /sys/class/firmware/timeout runs out.
KernelTimeout(d) ==
  /\ InProgress(d)
  /\ req' = [req EXCEPT ![d] = "failed"]
  /\ CloseFiles(d)
  /\ UNCHANGED <<loaderVars, st, done, committed, sig, snap, queue, dev, left, count, data>>

OtherUevent ==
  /\ Multicast(Other)
  /\ UNCHANGED <<loaderVars, st, done, committed, sig, snap, job, kernelVars>>
-----------------------------------------------------------------------------
LoaderStep ==
  \/ start_fw_loader
  \/ \E ds \in AddLists : Restart(ds)
  \/ FinalStop
  \/ StopPoll
  \/ TelnetFork

KernelStep ==
  \/ \E d \in Devs : RequestFirmware(d) \/ SysdirAppears(d) \/ KernelTimeout(d)
  \/ OtherUevent

Next ==
  \/ LoaderStep
  \/ \E p \in Pids : DaemonStep(p) \/ kill_hotplug_signal(p) \/ Killed(p)
  \/ KernelStep

Spec == Init /\ [][Next]_vars

\* The scheduler runs every process and the kernel delivers pending signals;
\* nothing is assumed of drivers, of timeouts, or of when the loader restarts.
Fairness ==
  /\ WF_vars(start_fw_loader) /\ WF_vars(StopPoll)
  /\ \A p \in Pids : /\ WF_vars(DaemonStep(p))
                     /\ WF_vars(kill_hotplug_signal(p))
                     /\ WF_vars(Killed(p))

FairSpec == Spec /\ Fairness
-----------------------------------------------------------------------------
(* Properties *)

\* stop_fw_loader / start_fw_loader: at every moment a daemon that has not been
\* told to quit is the one whose pid is recorded, and it searches the loader's
\* current path.  No daemon goes on serving requests with an outdated path.
ServingDaemonCurrent ==
  \A p \in Pids : Alive(p) /\ ~Told(p) => p = fwPid /\ snap[p] = path

\* stop_fw_loader escalates: a child the loader has lost the pid of, because
\* another one was started, has SIGKILL on its way.
OrphansKilled ==
  \A p \in mine : Alive(p) /\ p # fwPid => "KILL" \in sig[p]

\* _load_firmware writes 0 to `loading' only after the whole image: a request the
\* kernel takes as completed has every chunk, whatever was stopped, killed or
\* timed out meanwhile.
NoPartialFirmware == \A d \in Devs : req[d] = "done" => data[d] = Chunks

\* handle_events: once the handler of SIGTERM has run the daemon takes no further
\* message off its socket, even if the signal was missed by poll().  A signal that
\* comes between the test of done and recv() is the exception: that one message is
\* still taken and served, and no other.
QuittingTakesNoMore ==
  [][\A p \in Pids : done[p] /\ p \notin committed => Len(queue'[p]) >= Len(queue[p])]_vars

\* stop_fw_loader returns, even when the daemon is stuck in poll() with done set.
\* (With no pid recorded, after a first fork that failed, it would not.)
StopReturns == main = "stop" ~> main # "stop" \/ fwPid = NoPid

\* Every way out of _load_firmware after set_loading(1) reports back: a request
\* does not stay `loading' for the kernel to time it out, unless the daemon that
\* worked on it was killed.
KilledAtWork(d) ==
  \E p \in Pids : st[p] \in {"zombie", "reaped"} /\ dev[p] = d /\ "loading" \in fds[p]
LoadingEnds ==
  \A d \in Devs : req[d] = "loading" ~> req[d] # "loading" \/ KilledAtWork(d)
-----------------------------------------------------------------------------
(* What makes the safety properties inductive *)

\* Pids are handed out in order.
PidOrder ==
  /\ \A p \in Pids : p >= nextPid => st[p] = "unborn"
  /\ \A p \in mine : p < nextPid
  /\ fwPid # NoPid => fwPid < nextPid

\* From stop_fw_loader on, the recorded daemon is gone or told to quit ...
Stopped == main # "run" /\ fwPid # NoPid => ~Alive(fwPid) \/ Told(fwPid)

\* ... and when it returns to start_fw_loader a child of ours is gone or killed.
KillSent ==
  main = "start" /\ fwPid \in mine => ~Alive(fwPid) \/ "KILL" \in sig[fwPid]

\* Without telnet every daemon stays a child of the loader.
AllMine == ~Telnet => \A p \in Pids : st[p] # "unborn" => p \in mine

\* What _load_firmware knows of its own progress.
JobProgress ==
  \A p \in Pids :
    /\ st[p] \in {"find", "wait", "mark", "open", "write", "fin", "abort"} => dev[p] \in Devs
    /\ st[p] \in {"find", "wait", "mark", "open"} => count[p] = 0
    /\ st[p] = "write" => count[p] < NChunks
    /\ st[p] = "fin" => count[p] = NChunks

\* A daemon that is about to call recv() with done set has been caught there.
CaughtLate == \A p \in Pids : st[p] = "recv" /\ done[p] => p \in committed

\* While the serving daemon holds `loading' open the request is its own, and the
\* kernel has every chunk it has written.
OwnRequest ==
  ~Telnet => \A p \in Pids : p = fwPid /\ "loading" \in fds[p] =>
    /\ st[p] = "mark" => InProgress(dev[p])
    /\ st[p] \in {"open", "write", "fin", "abort"} =>
         req[dev[p]] = "loading" /\ 1 .. count[p] \subseteq data[dev[p]]

IInv ==
  /\ TypeOK /\ PidOrder /\ Stopped /\ KillSent /\ AllMine
  /\ ServingDaemonCurrent /\ OrphansKilled
  /\ JobProgress /\ OwnRequest /\ CaughtLate
  /\ ~Telnet => NoPartialFirmware
=============================================================================

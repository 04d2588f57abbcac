--------------------------- MODULE FwLoaderProofs ---------------------------
(***************************************************************************)
(* Proofs of the safety properties of FwLoader, for any number of devices, *)
(* directories, daemons and chunks and any bounds of the stop loop.        *)
(***************************************************************************)
EXTENDS FwLoader, TLAPS

\* kill(2) reaches at most the recorded daemon, and only adds a signal.
LEMMA SignalDaemonAdds ==
  ASSUME TypeOK, NEW s \in {"TERM", "KILL"}, SignalDaemon(s)
  PROVE  /\ sig' \in [Pids -> SUBSET {"TERM", "KILL"}]
         /\ \A p \in Pids : sig[p] \subseteq sig'[p]
         /\ \A p \in Pids : p # fwPid => sig'[p] = sig[p]
         /\ fwPid # NoPid /\ Alive(fwPid) => s \in sig'[fwPid]
  BY Zenon DEF TypeOK, SignalDaemon, Pids, NoPid

\* A turn of the stop loop adds SIGKILL at most.
LEMMA EscalateAdds ==
  ASSUME TypeOK, Escalate
  PROVE  /\ sig' \in [Pids -> SUBSET {"TERM", "KILL"}]
         /\ \A p \in Pids : sig[p] \subseteq sig'[p]
         /\ x > KillAfter /\ fwPid # NoPid /\ Alive(fwPid) => "KILL" \in sig'[fwPid]
<1>1. CASE x > KillAfter
  BY <1>1, SignalDaemonAdds, Zenon DEF Escalate
<1>2. CASE ~(x > KillAfter)
  BY <1>2, Zenon DEF Escalate, TypeOK
<1>3. QED
  BY <1>1, <1>2, Zenon

LEMMA InitIInv == Init => IInv
<1> SUFFICES ASSUME Init PROVE IInv
  BY Zenon
<1> USE FwAssumption
<1>1. TypeOK
  BY DEF Init, TypeOK, Pids, NoPid, DaemonStates, ReqStates, Chunks
<1>2. PidOrder /\ Stopped /\ KillSent /\ AllMine
  BY Zenon DEF Init, PidOrder, Stopped, KillSent, AllMine, Pids, NoPid
<1>3. ServingDaemonCurrent /\ OrphansKilled
  BY Zenon DEF Init, ServingDaemonCurrent, OrphansKilled, Alive, Pids
<1>4. JobProgress /\ OwnRequest /\ (~Telnet => NoPartialFirmware)
  BY Zenon DEF Init, JobProgress, OwnRequest, NoPartialFirmware, Pids, NoPid
<1>5. CaughtLate
  BY Zenon DEF Init, CaughtLate
<1>6. QED
  BY <1>1, <1>2, <1>3, <1>4, <1>5, Zenon DEF IInv

-----------------------------------------------------------------------------
(* Type correctness: it needs that a copy never overruns the image. *)

LEMMA NextTypeOK == TypeOK /\ JobProgress /\ [Next]_vars => TypeOK'
<1> SUFFICES ASSUME TypeOK, JobProgress, [Next]_vars PROVE TypeOK'
  BY Zenon
<1> USE DEF loaderVars, job, kernelVars
<1>a. st \in [Pids -> DaemonStates]
  BY Zenon DEF TypeOK
<1>b. sig \in [Pids -> SUBSET {"TERM", "KILL"}] /\ done \in [Pids -> BOOLEAN]
  BY Zenon DEF TypeOK
<1>c. snap \in [Pids -> Seq(Dirs)] /\ path \in Seq(Dirs)
  BY Zenon DEF TypeOK
<1>d. /\ dev \in [Pids -> Devs \cup {NoDev}] /\ left \in [Pids -> 0 .. Timeout]
      /\ count \in [Pids -> 0 .. NChunks]
      /\ fds \in [Pids -> SUBSET {"loading", "data"}]
  BY Zenon DEF TypeOK
<1>e. req \in [Devs -> ReqStates] /\ data \in [Devs -> SUBSET Chunks]
  BY Zenon DEF TypeOK
<1>f. /\ main \in {"start", "run", "stop", "exit"} /\ mine \subseteq Pids
      /\ fwPid \in Pids \cup {NoPid} /\ nextPid \in 1 .. MaxStarts + 1
      /\ MaxStarts \in Nat /\ NChunks \in Nat \ {0} /\ Timeout \in Nat
  BY FwAssumption, Zenon DEF TypeOK
<1>1. ASSUME start_fw_loader PROVE TypeOK'
  <2>1. st' \in [Pids -> DaemonStates] /\ snap' \in [Pids -> Seq(Dirs)]
    BY <1>1, <1>a, <1>c, Zenon DEF start_fw_loader, DaemonStates
  <2>2. mine' \subseteq Pids /\ fwPid' \in Pids \cup {NoPid}
    BY <1>1, <1>f, Zenon DEF start_fw_loader
  <2>3. nextPid' \in 1 .. MaxStarts + 1
    BY <1>1, <1>f DEF start_fw_loader, Pids
  <2>4. QED
    BY <1>1, <2>1, <2>2, <2>3, Zenon DEF start_fw_loader, TypeOK
<1>2. ASSUME NEW ds \in AddLists, Restart(ds) PROVE TypeOK'
  <2>1. path' \in Seq(Dirs)
    BY <1>2, <1>c, FwAssumption DEF Restart
  <2>2. sig' \in [Pids -> SUBSET {"TERM", "KILL"}]
    BY <1>2, SignalDaemonAdds, Zenon DEF Restart, BeginStop
  <2>3. main' = "stop" /\ after' = "start" /\ x' \in 0 .. MaxPolls
    BY <1>2, FwAssumption DEF Restart, BeginStop
  <2>4. QED
    BY <1>2, <2>1, <2>2, <2>3, Zenon DEF Restart, TypeOK
<1>3. ASSUME FinalStop PROVE TypeOK'
  <2>1. sig' \in [Pids -> SUBSET {"TERM", "KILL"}]
    BY <1>3, SignalDaemonAdds, Zenon DEF FinalStop, BeginStop
  <2>2. main' = "stop" /\ after' = "exit" /\ x' \in 0 .. MaxPolls
    BY <1>3, FwAssumption DEF FinalStop, BeginStop
  <2>3. QED
    BY <1>3, <2>1, <2>2, Zenon DEF FinalStop, TypeOK
<1>4. ASSUME StopPoll PROVE TypeOK'
  <2>1. sig' \in [Pids -> SUBSET {"TERM", "KILL"}]
    BY <1>4, EscalateAdds, Zenon DEF StopPoll
  <2>2. main' \in {"start", "run", "stop", "exit"} /\ x' \in 0 .. MaxPolls
    BY <1>4, FwAssumption DEF StopPoll, CountTurn, TypeOK
  <2>3. st' \in [Pids -> DaemonStates]
    BY <1>4, <1>a, Zenon DEF StopPoll, DaemonStates
  <2>4. QED
    BY <1>4, <2>1, <2>2, <2>3, Zenon DEF StopPoll, TypeOK
<1>5. ASSUME TelnetFork PROVE TypeOK'
  BY <1>5, Zenon DEF TelnetFork, TypeOK
<1>6. ASSUME NEW p \in Pids,
             \/ daemonize(p) \/ open_uevent_socket(p) \/ CheckDone(p) \/ EnterPoll(p)
             \/ PollReturns(p)
      PROVE  TypeOK'
  <2>1. st' \in [Pids -> DaemonStates]
    <3>1. \E s \in {"bind", "check", "zombie", "armed", "poll", "recv"} :
             st' = [st EXCEPT ![p] = s]
      BY <1>6, Zenon DEF daemonize, open_uevent_socket, CheckDone, EnterPoll, PollReturns, Goto
    <3>2. QED
      BY <1>a, <3>1, Zenon DEF DaemonStates
  <2>2. QED
    BY <1>6, <2>1, Zenon DEF daemonize, open_uevent_socket, CheckDone, EnterPoll, PollReturns,
       TypeOK
<1>7. ASSUME NEW p \in Pids, get_netlink_msg(p) PROVE TypeOK'
  <2>1. st' \in [Pids -> DaemonStates]
    BY <1>7, <1>a, Zenon DEF get_netlink_msg, Goto, DaemonStates
  <2>2. queue' \in [Pids -> Seq(Devs \cup {Other})]
    <3>1. queue[p] # << >> => Tail(queue[p]) \in Seq(Devs \cup {Other})
      BY DEF TypeOK
    <3>2. QED
      BY <1>7, <3>1, Zenon DEF get_netlink_msg, TypeOK
  <2>3. dev' \in [Pids -> Devs \cup {NoDev}] /\ left' = left
    BY <1>7, <1>d, Zenon DEF get_netlink_msg
  <2>4. count' \in [Pids -> 0 .. NChunks]
    <3>1. 0 \in 0 .. NChunks
      BY <1>f
    <3>2. count' = count \/ count' = [count EXCEPT ![p] = 0]
      BY <1>7, Zenon DEF get_netlink_msg
    <3>3. QED
      BY <1>d, <3>1, <3>2, Zenon
  <2>5. fds' \in [Pids -> SUBSET {"loading", "data"}]
    BY <1>7, <1>d, Zenon DEF get_netlink_msg
  <2>6. committed' \subseteq Pids
    BY <1>7, Zenon DEF get_netlink_msg, TypeOK
  <2>7. QED
    BY <1>7, <2>1, <2>2, <2>3, <2>4, <2>5, <2>6, Zenon DEF get_netlink_msg, TypeOK
<1>8. ASSUME NEW p \in Pids, load_firmware(p) \/ WaitSysdir(p) \/ OpenData(p)
      PROVE  TypeOK'
  <2>1. st' \in [Pids -> DaemonStates]
    BY <1>8, <1>a, Zenon DEF load_firmware, WaitSysdir, OpenData, CopyFails, Goto, DaemonStates
  <2>2. left' \in [Pids -> 0 .. Timeout]
    <3>1. \/ left' = left
          \/ left' = [left EXCEPT ![p] = Timeout]
          \/ left[p] > 0 /\ left' = [left EXCEPT ![p] = @ - 1]
      BY <1>8, Zenon DEF load_firmware, WaitSysdir, OpenData
    <3>2. left[p] \in 0 .. Timeout /\ Timeout \in 0 .. Timeout
      BY <1>d, <1>f
    <3>3. left[p] > 0 => left[p] - 1 \in 0 .. Timeout
      BY <3>2, <1>f
    <3>4. QED
      BY <3>1, <3>2, <3>3, <1>d, Zenon
  <2>3. fds' \in [Pids -> SUBSET {"loading", "data"}]
    <3>1. \/ fds' = fds
          \/ fds' = [fds EXCEPT ![p] = {"loading"}]
          \/ fds' = [fds EXCEPT ![p] = @ \cup {"data"}]
      BY <1>8, Zenon DEF load_firmware, WaitSysdir, OpenData
    <3>2. fds[p] \cup {"data"} \in SUBSET {"loading", "data"}
      BY <1>d, Zenon
    <3>3. QED
      BY <3>1, <3>2, <1>d, Zenon
  <2>4. QED
    BY <1>8, <2>1, <2>2, <2>3, Zenon DEF load_firmware, WaitSysdir, OpenData, TypeOK
<1>9. ASSUME NEW p \in Pids, MarkLoading(p) PROVE TypeOK'
  <2>1. st' \in [Pids -> DaemonStates]
    BY <1>9, Zenon DEF MarkLoading, Goto, DaemonStates, TypeOK
  <2>2. req' \in [Devs -> ReqStates] /\ data' \in [Devs -> SUBSET Chunks]
    BY <1>9, <1>e, Zenon DEF MarkLoading, ReqStates
  <2>3. QED
    BY <1>9, <2>1, <2>2, Zenon DEF MarkLoading, TypeOK
<1>10. ASSUME NEW p \in Pids, WriteData(p) PROVE TypeOK'
  <2>1. count[p] + 1 \in Chunks /\ dev[p] \in Devs
    BY <1>10, <1>d, <1>f DEF WriteData, JobProgress, Chunks
  <2>2. st' \in [Pids -> DaemonStates]
    BY <1>10, <1>a, Zenon DEF WriteData, CopyFails, Goto, DaemonStates
  <2>3. count' \in [Pids -> 0 .. NChunks]
    BY <1>10, <1>d, <1>f, <2>1 DEF WriteData, Chunks
  <2>4. data' \in [Devs -> SUBSET Chunks]
    BY <1>10, <1>e, <2>1 DEF WriteData
  <2>5. QED
    BY <1>10, <2>2, <2>3, <2>4, Zenon DEF WriteData, TypeOK
<1>11. ASSUME NEW p \in Pids, Finish(p) PROVE TypeOK'
  <2>1. st' \in [Pids -> DaemonStates] /\ req' \in [Devs -> ReqStates]
    BY <1>11, Zenon DEF Finish, Goto, DaemonStates, ReqStates, TypeOK
  <2>2. fds' \in [Pids -> SUBSET {"loading", "data"}]
    BY <1>11, Zenon DEF Finish, CloseFiles, TypeOK
  <2>3. QED
    BY <1>11, <2>1, <2>2, Zenon DEF Finish, TypeOK
<1>12. ASSUME NEW p \in Pids, kill_hotplug_signal(p) \/ Killed(p) PROVE TypeOK'
  <2>1. st' \in [Pids -> DaemonStates]
    BY <1>12, <1>a, Zenon DEF kill_hotplug_signal, Killed, Goto, DaemonStates
  <2>2. done' \in [Pids -> BOOLEAN] /\ sig' \in [Pids -> SUBSET {"TERM", "KILL"}]
    BY <1>12, <1>b, Zenon DEF kill_hotplug_signal, Killed
  <2>3. committed' \subseteq Pids
    <3>1. committed' = committed \/ committed' = committed \cup {p}
      BY <1>12, Zenon DEF kill_hotplug_signal, Killed
    <3>2. committed \subseteq Pids
      BY Zenon DEF TypeOK
    <3>3. QED
      BY <3>1, <3>2, Zenon
  <2>4. QED
    <3>1. CASE kill_hotplug_signal(p)
      BY <3>1, <2>1, <2>2, <2>3, Zenon DEF kill_hotplug_signal, TypeOK
    <3>2. CASE Killed(p)
      BY <3>2, <2>1, <2>2, <2>3, Zenon DEF Killed, TypeOK
    <3>3. QED
      BY <1>12, <3>1, <3>2, Zenon
<1>13. ASSUME NEW u \in Devs \cup {Other}, Multicast(u)
       PROVE  queue' \in [Pids -> Seq(Devs \cup {Other})]
  BY <1>13 DEF Multicast, TypeOK
<1>14. ASSUME NEW d \in Devs, RequestFirmware(d) PROVE TypeOK'
  BY <1>13, <1>14, Zenon DEF RequestFirmware, ReqStates, TypeOK
<1>15. ASSUME NEW d \in Devs, SysdirAppears(d) PROVE TypeOK'
  BY <1>15, Zenon DEF SysdirAppears, ReqStates, TypeOK
<1>16. ASSUME NEW d \in Devs, KernelTimeout(d) PROVE TypeOK'
  BY <1>16, Zenon DEF KernelTimeout, CloseFiles, ReqStates, TypeOK
<1>17. ASSUME OtherUevent PROVE TypeOK'
  BY <1>13, <1>17, Zenon DEF OtherUevent, TypeOK
<1>18. CASE UNCHANGED vars
  BY <1>18, Zenon DEF vars, TypeOK
<1>19. QED
  BY <1>1, <1>2, <1>3, <1>4, <1>5, <1>6, <1>7, <1>8, <1>9, <1>10, <1>11, <1>12,
     <1>14, <1>15, <1>16, <1>17, <1>18
    , Zenon DEF Next, LoaderStep, DaemonStep, KernelStep

-----------------------------------------------------------------------------
(* The loader side: who is told, who is killed, who is current. *)

\* What a daemon's own step, a signal or the kernel leaves alone for the daemons
\* and the loader: a daemon is not brought to life or promoted, and once told to
\* quit, or killed, stays so as long as it lives.
LEMMA DaemonStepKeeps ==
  ASSUME TypeOK, NEW p \in Pids, DaemonStep(p)
  PROVE  /\ UNCHANGED <<main, after, x, path, fwPid, nextPid, mine, done, sig, snap>>
         /\ \A q \in Pids : q # p => st'[q] = st[q]
         /\ Alive(p) /\ Runs(p) /\ st'[p] # "unborn"
<1> USE DEF loaderVars, job, kernelVars, Goto, Alive, TypeOK
<1>1. CASE daemonize(p) \/ open_uevent_socket(p) \/ CheckDone(p) \/ EnterPoll(p)
  BY <1>1, Zenon DEF daemonize, open_uevent_socket, CheckDone, EnterPoll
<1>2. CASE \/ PollReturns(p) \/ get_netlink_msg(p) \/ load_firmware(p) \/ WaitSysdir(p)
           \/ MarkLoading(p)
  BY <1>2, Zenon DEF PollReturns, get_netlink_msg, load_firmware, WaitSysdir, MarkLoading
<1>3. CASE OpenData(p) \/ WriteData(p) \/ Finish(p)
  BY <1>3, Zenon DEF OpenData, WriteData, Finish, CopyFails
<1>4. QED
  BY <1>1, <1>2, <1>3, Zenon DEF DaemonStep

LEMMA KernelStepKeeps ==
  ASSUME KernelStep
  PROVE  UNCHANGED <<main, after, x, path, fwPid, nextPid, mine, st, done, sig, snap>>
  BY Zenon DEF KernelStep, RequestFirmware, SysdirAppears, KernelTimeout, OtherUevent,
         loaderVars, kernelVars

LoaderInv == PidOrder /\ Stopped /\ KillSent /\ AllMine /\ ServingDaemonCurrent
             /\ OrphansKilled

LEMMA NextLoaderInv == TypeOK /\ LoaderInv /\ [Next]_vars => LoaderInv'
<1> SUFFICES ASSUME TypeOK, LoaderInv, [Next]_vars PROVE LoaderInv'
  BY Zenon
<1> USE DEF LoaderInv
<1>1. ASSUME start_fw_loader PROVE LoaderInv'
  <2>1. CASE UNCHANGED <<st, snap, fwPid, nextPid, mine>>
    BY <1>1, <2>1, Zenon DEF start_fw_loader, PidOrder, Stopped, KillSent, AllMine,
       ServingDaemonCurrent, OrphansKilled, Alive, Told
  <2>2. CASE /\ nextPid \in Pids
             /\ st' = [st EXCEPT ![nextPid] = "boot"]
             /\ snap' = [snap EXCEPT ![nextPid] = path]
             /\ fwPid' = nextPid
             /\ nextPid' = nextPid + 1
             /\ mine' = mine \cup {nextPid}
    <3>1. PidOrder'
      BY <2>2 DEF PidOrder, TypeOK, Pids, NoPid
    <3>2. Stopped' /\ KillSent' /\ AllMine'
      BY <1>1, <2>2, Zenon DEF start_fw_loader, Stopped, KillSent, AllMine, TypeOK
    <3>3. \A p \in Pids : p # nextPid => st'[p] = st[p] /\ snap'[p] = snap[p]
      BY <2>2, Zenon DEF TypeOK
    <3>4. UNCHANGED <<sig, done, path>> /\ main = "start"
      BY <1>1, Zenon DEF start_fw_loader
    <3>5. ServingDaemonCurrent'
      <4>1. snap'[nextPid] = path
        BY <2>2, Zenon DEF TypeOK
      <4>2. QED
        BY <2>2, <3>3, <3>4, <4>1 DEF ServingDaemonCurrent, Stopped, Alive, Told,
           Pids, NoPid
    <3>6. OrphansKilled'
      BY <2>2, <3>3, <3>4, Zenon DEF OrphansKilled, KillSent, Alive, TypeOK
    <3>7. QED
      BY <3>1, <3>2, <3>5, <3>6, Zenon
  <2>3. QED
    BY <1>1, <2>1, <2>2, Zenon DEF start_fw_loader
<1>2. ASSUME BeginStop("start") \/ BeginStop("exit"),
             UNCHANGED <<fwPid, nextPid, mine, st, done, snap>>
      PROVE  LoaderInv'
  <2>1. /\ \A p \in Pids : sig[p] \subseteq sig'[p]
        /\ fwPid # NoPid /\ Alive(fwPid) => "TERM" \in sig'[fwPid]
    BY <1>2, SignalDaemonAdds, Zenon DEF BeginStop
  <2>2. PidOrder' /\ AllMine' /\ KillSent'
    BY <1>2, Zenon DEF PidOrder, AllMine, KillSent, BeginStop
  <2>3. Stopped'
    BY <1>2, <2>1, Zenon DEF Stopped, Alive, Told
  <2>4. OrphansKilled'
    BY <1>2, <2>1, Zenon DEF OrphansKilled, Alive, TypeOK
  <2>5. ServingDaemonCurrent'
    <3>1. \A p \in Pids : Alive(p)' /\ ~Told(p)' => Alive(p) /\ ~Told(p) /\ "TERM" \notin sig'[p]
      BY <1>2, <2>1, Zenon DEF Alive, Told
    <3>2. \A p \in Pids : Alive(p)' => Told(p)'
      BY <2>1, <3>1 DEF ServingDaemonCurrent, Pids, NoPid
    <3>3. QED
      BY <3>2, Zenon DEF ServingDaemonCurrent
  <2>6. QED
    BY <2>2, <2>3, <2>4, <2>5, Zenon
<1>3. ASSUME StopPoll PROVE LoaderInv'
  <2>1. /\ \A p \in Pids : sig[p] \subseteq sig'[p]
        /\ x > KillAfter /\ Alive(fwPid) => "KILL" \in sig'[fwPid]
    BY <1>3, EscalateAdds, Zenon DEF StopPoll
  <2>2. /\ UNCHANGED <<path, fwPid, nextPid, mine, done, snap>>
        /\ fwPid \in Pids /\ main = "stop"
    BY <1>3, Zenon DEF StopPoll, TypeOK
  <2>3. \A p \in Pids : st'[p] = st[p] \/ (st[p] = "zombie" /\ st'[p] = "reaped")
    BY <1>3, Zenon DEF StopPoll, TypeOK
  <2>4. PidOrder' /\ AllMine'
    BY <2>2, <2>3, Zenon DEF PidOrder, AllMine
  <2>5. Stopped'
    BY <2>1, <2>2, <2>3, Zenon DEF Stopped, Alive, Told
  <2>6. KillSent'
    <3>1. CASE fwPid \in mine /\ Alive(fwPid)
      BY <1>3, <3>1, <2>1, <2>2, FwAssumption, Zenon DEF StopPoll, CountTurn, KillSent, Alive
    <3>2. CASE fwPid \notin mine \/ ~Alive(fwPid)
      BY <3>2, <2>2, <2>3, Zenon DEF KillSent, Alive
    <3>3. QED
      BY <3>1, <3>2, Zenon
  <2>7. OrphansKilled' /\ ServingDaemonCurrent'
    <3>1. \A p \in Pids : Alive(p)' => Alive(p) /\ (Told(p) => Told(p)')
      BY <2>1, <2>2, <2>3, Zenon DEF Alive, Told
    <3>2. mine \subseteq Pids
      BY Zenon DEF TypeOK
    <3>3. OrphansKilled'
      BY <2>1, <2>2, <3>1, <3>2, Zenon DEF OrphansKilled
    <3>4. ServingDaemonCurrent'
      BY <2>2, <3>1, Zenon DEF ServingDaemonCurrent
    <3>5. QED
      BY <3>3, <3>4, Zenon
  <2>8. QED
    BY <2>4, <2>5, <2>6, <2>7, Zenon
<1>4. ASSUME TelnetFork PROVE LoaderInv'
  BY <1>4, Zenon DEF TelnetFork, PidOrder, Stopped, KillSent, AllMine,
       ServingDaemonCurrent, OrphansKilled, Alive, Told
<1>5. ASSUME NEW p \in Pids, DaemonStep(p) PROVE LoaderInv'
  <2>1. \A q \in Pids : /\ Alive(q)' => Alive(q)
                        /\ st[q] = "unborn" => st'[q] = "unborn"
                        /\ st'[q] # "unborn" => st[q] # "unborn"
    BY <1>5, DaemonStepKeeps, Zenon DEF Alive
  <2>2. UNCHANGED <<main, after, x, path, fwPid, nextPid, mine, done, sig, snap>>
    BY <1>5, DaemonStepKeeps, Zenon
  <2>3. PidOrder' /\ AllMine'
    BY <2>1, <2>2, Zenon DEF PidOrder, AllMine
  <2>4. Stopped' /\ KillSent'
    BY <2>1, <2>2, Zenon DEF Stopped, KillSent, Told, TypeOK
  <2>5. ServingDaemonCurrent' /\ OrphansKilled'
    <3>1. mine \subseteq Pids
      BY Zenon DEF TypeOK
    <3>2. QED
      BY <2>1, <2>2, <3>1, Zenon DEF ServingDaemonCurrent, OrphansKilled, Told
  <2>6. QED
    BY <2>3, <2>4, <2>5, Zenon
<1>6. ASSUME NEW p \in Pids, kill_hotplug_signal(p) \/ Killed(p) PROVE LoaderInv'
  <2>1. /\ UNCHANGED <<main, after, x, path, fwPid, nextPid, mine, snap>>
        /\ Alive(p) /\ st'[p] # "unborn"
        /\ \A q \in Pids : q # p => UNCHANGED <<st[q], done[q], sig[q]>>
        /\ Alive(p)' => /\ st'[p] = st[p] /\ done'[p]
                        /\ "KILL" \in sig[p] => "KILL" \in sig'[p]
    BY <1>6 DEF kill_hotplug_signal, Killed, Goto, Alive, loaderVars, TypeOK
  <2>2. \A q \in Pids : /\ Alive(q)' => Alive(q)
                        /\ (st'[q] = "unborn") <=> (st[q] = "unborn")
                        /\ Alive(q)' => st'[q] = st[q] /\ (done[q] => done'[q])
                        /\ Alive(q)' /\ "KILL" \in sig[q] => "KILL" \in sig'[q]
    BY <2>1, Zenon DEF Alive
  <2>3. \A q \in Pids : Alive(q)' /\ Told(q) => Told(q)'
    BY <2>1, <2>2, Zenon DEF Told
  <2>4. PidOrder' /\ AllMine'
    BY <2>1, <2>2, Zenon DEF PidOrder, AllMine
  <2>5. Stopped' /\ KillSent'
    BY <2>1, <2>2, <2>3, Zenon DEF Stopped, KillSent, TypeOK
  <2>6. ServingDaemonCurrent' /\ OrphansKilled'
    <3>1. mine \subseteq Pids
      BY Zenon DEF TypeOK
    <3>2. QED
      BY <2>1, <2>2, <2>3, <3>1, Zenon DEF ServingDaemonCurrent, OrphansKilled
  <2>7. QED
    BY <2>4, <2>5, <2>6, Zenon
<1>7. ASSUME KernelStep PROVE LoaderInv'
  BY <1>7, KernelStepKeeps, Zenon DEF PidOrder, Stopped, KillSent, AllMine,
       ServingDaemonCurrent, OrphansKilled, Alive, Told
<1>8. CASE UNCHANGED vars
  BY <1>8, Zenon DEF vars, PidOrder, Stopped, KillSent, AllMine,
       ServingDaemonCurrent, OrphansKilled, Alive, Told
<1>9. QED
  BY <1>1, <1>2, <1>3, <1>4, <1>5, <1>6, <1>7, <1>8
    , Zenon DEF Next, LoaderStep, Restart, FinalStop

-----------------------------------------------------------------------------
(* The daemon side: what _load_firmware has done so far. *)

LEMMA NextJobProgress == TypeOK /\ JobProgress /\ [Next]_vars => JobProgress'
<1> SUFFICES ASSUME TypeOK, JobProgress, [Next]_vars PROVE JobProgress'
  BY Zenon
<1>a. /\ st \in [Pids -> DaemonStates] /\ dev \in [Pids -> Devs \cup {NoDev}]
      /\ count \in [Pids -> 0 .. NChunks] /\ NChunks \in Nat \ {0}
  BY FwAssumption, Zenon DEF TypeOK
<1>1. ASSUME \A p \in Pids : st'[p] = st[p] \/ st'[p] \in {"boot", "zombie", "reaped"},
             UNCHANGED <<dev, count>>
      PROVE  JobProgress'
  BY <1>1, Zenon DEF JobProgress
<1>2. CASE LoaderStep
  <2>1. UNCHANGED <<dev, count>>
    BY <1>2, Zenon DEF LoaderStep, start_fw_loader, Restart, FinalStop, StopPoll, TelnetFork, job
  <2>2. \A p \in Pids : st'[p] = st[p] \/ st'[p] \in {"boot", "reaped"}
    BY <1>2, <1>a, Zenon DEF LoaderStep, start_fw_loader, Restart, FinalStop, StopPoll, TelnetFork
  <2>3. QED
    BY <1>1, <2>1, <2>2, Zenon
<1>3. CASE KernelStep
  <2>1. UNCHANGED <<st, dev, count>>
    BY <1>3, Zenon DEF KernelStep, RequestFirmware, SysdirAppears, KernelTimeout, OtherUevent, job
  <2>2. QED
    BY <1>1, <2>1, Zenon
<1>4. ASSUME NEW p \in Pids, kill_hotplug_signal(p) \/ Killed(p) PROVE JobProgress'
  <2>1. UNCHANGED <<dev, count>>
    BY <1>4, Zenon DEF kill_hotplug_signal, Killed, job
  <2>2. \A q \in Pids : st'[q] = st[q] \/ st'[q] = "zombie"
    BY <1>4, <1>a, Zenon DEF kill_hotplug_signal, Killed, Goto
  <2>3. QED
    BY <1>1, <2>1, <2>2, Zenon
<1>5. ASSUME NEW p \in Pids, DaemonStep(p) PROVE JobProgress'
  <2> USE <1>a DEF Goto, job
  <2>1. CASE \/ daemonize(p) \/ open_uevent_socket(p) \/ CheckDone(p) \/ EnterPoll(p)
             \/ PollReturns(p)
    BY <2>1, Zenon DEF daemonize, open_uevent_socket, CheckDone, EnterPoll, PollReturns, JobProgress
  <2>2. CASE get_netlink_msg(p)
    BY <2>2 DEF get_netlink_msg, JobProgress
  <2>3. CASE load_firmware(p) \/ WaitSysdir(p) \/ MarkLoading(p)
    <3>1. /\ UNCHANGED <<dev, count>>
          /\ st[p] \in {"find", "wait", "mark"}
          /\ st'[p] \in {"check", "wait", "mark", "open"}
      BY <2>3, Zenon DEF load_firmware, WaitSysdir, MarkLoading
    <3>2. \A q \in Pids : q # p => st'[q] = st[q]
      BY <2>3, Zenon DEF load_firmware, WaitSysdir, MarkLoading
    <3>3. QED
      BY <3>1, <3>2, Zenon DEF JobProgress
  <2>4. CASE OpenData(p) \/ Finish(p)
    <3>1. /\ UNCHANGED <<dev, count>>
          /\ \/ st'[p] = "check"
             \/ st[p] = "open" /\ st'[p] \in {"write", "abort"}
      BY <2>4, Zenon DEF OpenData, Finish, CopyFails
    <3>2. \A q \in Pids : q # p => st'[q] = st[q]
      BY <2>4, Zenon DEF OpenData, Finish, CopyFails
    <3>3. QED
      BY <3>1, <3>2 DEF JobProgress
  <2>5. CASE WriteData(p)
    <3>a. st[p] = "write" /\ dev' = dev
      BY <2>5, Zenon DEF WriteData
    <3>1. dev' = dev /\ dev[p] \in Devs /\ count[p] < NChunks /\ count[p] \in Nat
      BY <3>a DEF JobProgress
    <3>2. \A q \in Pids : q # p => st'[q] = st[q] /\ count'[q] = count[q]
      BY <2>5, Zenon DEF WriteData, CopyFails
    <3>3. \/ st'[p] = "abort"
          \/ st'[p] = "fin" /\ count'[p] = NChunks
          \/ st'[p] = "write" /\ count'[p] < NChunks
      BY <2>5, <3>1 DEF WriteData, CopyFails
    <3>4. QED
      BY <3>1, <3>2, <3>3, Zenon DEF JobProgress
  <2>6. QED
    BY <1>5, <2>1, <2>2, <2>3, <2>4, <2>5, Zenon DEF DaemonStep
<1>6. CASE UNCHANGED vars
  BY <1>1, <1>6, Zenon DEF vars
<1>7. QED
  BY <1>2, <1>3, <1>4, <1>5, <1>6, Zenon DEF Next

\* Without telnet only the daemon whose pid is recorded runs: every other one
\* that is left has SIGKILL pending.
LEMMA OnlyCurrentRuns ==
  ASSUME ~Telnet, AllMine, OrphansKilled, NEW p \in Pids, Alive(p), Runs(p)
  PROVE  p = fwPid
  BY Zenon DEF AllMine, OrphansKilled, Alive, Runs

RequestInv == OwnRequest /\ NoPartialFirmware

LEMMA NextRequestInv ==
  ASSUME ~Telnet, TypeOK, JobProgress, PidOrder, AllMine, OrphansKilled, RequestInv,
         [Next]_vars
  PROVE  RequestInv'
<1>a. /\ st \in [Pids -> DaemonStates] /\ dev \in [Pids -> Devs \cup {NoDev}]
      /\ fds \in [Pids -> SUBSET {"loading", "data"}]
  BY Zenon DEF TypeOK
<1>b. /\ req \in [Devs -> ReqStates] /\ data \in [Devs -> SUBSET Chunks]
  BY Zenon DEF TypeOK
<1>c. /\ count \in [Pids -> 0 .. NChunks] /\ NChunks \in Nat \ {0}
  BY FwAssumption, Zenon DEF TypeOK
<1>1. ASSUME \A p \in Pids : st'[p] = st[p] \/ st'[p] \notin {"mark", "open", "write", "fin", "abort"},
             UNCHANGED <<dev, count, fds, req, data, fwPid>>
      PROVE  RequestInv'
  BY <1>1, Zenon DEF RequestInv, OwnRequest, NoPartialFirmware, InProgress
<1>2. CASE LoaderStep
  <2>1. UNCHANGED <<dev, count, fds, req, data>>
    BY <1>2, Zenon DEF LoaderStep, start_fw_loader, Restart, FinalStop, StopPoll, TelnetFork, job,
       kernelVars
  <2>2. \A p \in Pids : st'[p] = st[p] \/ st'[p] \in {"boot", "reaped"}
    BY <1>2, <1>a, Zenon DEF LoaderStep, start_fw_loader, Restart, FinalStop, StopPoll, TelnetFork
  <2>3. fwPid' = fwPid \/ (fwPid' \in Pids /\ st'[fwPid'] = "boot")
    BY <1>2, <1>a, Zenon DEF LoaderStep, start_fw_loader, Restart, FinalStop, StopPoll, TelnetFork
  <2>4. QED
    BY <2>1, <2>2, <2>3, Zenon DEF RequestInv, OwnRequest, NoPartialFirmware, InProgress
<1>3. ASSUME NEW d \in Devs, RequestFirmware(d) PROVE RequestInv'
  <2>1. /\ \A e \in Devs : e # d => req'[e] = req[e] /\ data'[e] = data[e]
        /\ req'[d] \in {"announced", "pending"} /\ ~InProgress(d)
        /\ UNCHANGED <<st, dev, count, fds, fwPid>>
    BY <1>3, <1>b, Zenon DEF RequestFirmware, job, loaderVars
  <2>2. NoPartialFirmware'
    BY <2>1, Zenon DEF NoPartialFirmware, RequestInv
  <2>3. OwnRequest'
    BY <2>1, Zenon DEF OwnRequest, RequestInv, JobProgress, InProgress
  <2>4. QED
    BY <2>2, <2>3, Zenon DEF RequestInv
<1>4. ASSUME NEW d \in Devs, SysdirAppears(d) PROVE RequestInv'
  BY <1>4, <1>b, Zenon DEF SysdirAppears, job, loaderVars, RequestInv, NoPartialFirmware,
     OwnRequest, JobProgress, InProgress
<1>5. ASSUME NEW d \in Devs, KernelTimeout(d) PROVE RequestInv'
  BY <1>5, <1>a, <1>b, Zenon DEF KernelTimeout, CloseFiles, loaderVars, RequestInv,
     NoPartialFirmware, OwnRequest, JobProgress, InProgress
<1>6. CASE OtherUevent
  BY <1>1, <1>6, Zenon DEF OtherUevent, job, kernelVars, loaderVars
<1>7. ASSUME NEW p \in Pids, kill_hotplug_signal(p) \/ Killed(p) PROVE RequestInv'
  <2>1. UNCHANGED <<dev, count, fds, req, data, fwPid>>
    BY <1>7, Zenon DEF kill_hotplug_signal, Killed, job, kernelVars, loaderVars
  <2>2. \A q \in Pids : st'[q] = st[q] \/ st'[q] = "zombie"
    BY <1>7, <1>a, Zenon DEF kill_hotplug_signal, Killed, Goto
  <2>3. QED
    BY <1>1, <2>1, <2>2, Zenon
<1>8. ASSUME NEW p \in Pids, DaemonStep(p) PROVE RequestInv'
  <2>a. p = fwPid /\ fwPid' = fwPid
    BY <1>8, OnlyCurrentRuns, DaemonStepKeeps, Zenon
  <2> USE <1>a DEF Goto, job, kernelVars
  <2>1. CASE daemonize(p) \/ open_uevent_socket(p) \/ CheckDone(p) \/ EnterPoll(p)
             \/ PollReturns(p) \/ load_firmware(p)
    <3>1. /\ UNCHANGED <<dev, count, fds, req, data>>
          /\ \A q \in Pids : st'[q] = st[q] \/ st'[q] \in {"bind", "check", "armed", "poll", "recv",
                                                         "zombie", "wait"}
      BY <2>1, Zenon DEF daemonize, open_uevent_socket, CheckDone, EnterPoll, PollReturns, load_firmware
    <3>2. QED
      BY <1>1, <2>a, <3>1, Zenon
  <2>2. CASE get_netlink_msg(p)
    <3>1. /\ UNCHANGED <<req, data>>
          /\ st'[p] \in {"find", "check"}
      BY <2>2, Zenon DEF get_netlink_msg
    <3>2. QED
      BY <2>a, <3>1, Zenon DEF RequestInv, NoPartialFirmware, OwnRequest
  <2>3. CASE WaitSysdir(p)
    BY <2>3, <2>a, Zenon DEF WaitSysdir, Sysdir, RequestInv, NoPartialFirmware, OwnRequest, InProgress
  <2>4. CASE MarkLoading(p)
    <3>1. dev[p] \in Devs /\ count[p] = 0
      BY <2>4, Zenon DEF MarkLoading, JobProgress
    <3>2. NoPartialFirmware'
      BY <2>4, <3>1, <1>b, Zenon DEF MarkLoading, RequestInv, NoPartialFirmware
    <3>3. OwnRequest'
      BY <2>4, <2>a, <3>1, <1>b DEF MarkLoading, RequestInv, OwnRequest, InProgress
    <3>4. QED
      BY <3>2, <3>3, Zenon DEF RequestInv
  <2>5. CASE OpenData(p)
    <3>1. /\ UNCHANGED <<dev, count, req, data>>
          /\ st[p] = "open" /\ st'[p] \in {"write", "abort"}
          /\ "loading" \in fds'[p] => "loading" \in fds[p]
      BY <2>5 DEF OpenData, CopyFails
    <3>2. QED
      BY <2>a, <3>1, Zenon DEF RequestInv, NoPartialFirmware, OwnRequest
  <2>6. CASE WriteData(p)
    <3>1. /\ dev[p] \in Devs /\ count[p] < NChunks /\ count[p] \in Nat
          /\ UNCHANGED <<dev, fds, req>>
      BY <2>6, <1>c DEF WriteData, JobProgress
    <3>2. CASE UNCHANGED <<count, data>>
      BY <2>6, <2>a, <3>1, <3>2, Zenon DEF WriteData, CopyFails, RequestInv, NoPartialFirmware,
         OwnRequest, InProgress
    <3>3. CASE /\ data' = [data EXCEPT ![dev[p]] = @ \cup {count[p] + 1}]
               /\ count' = [count EXCEPT ![p] = @ + 1]
               /\ st' = [st EXCEPT ![p] = IF count[p] + 1 = NChunks THEN "fin" ELSE "write"]
               /\ st[p] = "write"
      <4>1. NoPartialFirmware'
        <5>1. count[p] + 1 \in Chunks
          BY <1>c, <3>1 DEF Chunks
        <5>2. \A d \in Devs : data'[d] = data[d] \/ data'[d] = data[d] \cup {count[p] + 1}
          BY <1>b, <3>3, Zenon
        <5>3. \A S : S = Chunks => S \cup {count[p] + 1} = Chunks
          BY <5>1, Zenon
        <5>4. QED
          BY <3>1, <5>2, <5>3, Zenon DEF RequestInv, NoPartialFirmware
      <4>2. count'[p] = count[p] + 1 /\ data'[dev[p]] = data[dev[p]] \cup {count[p] + 1}
        BY <1>b, <1>c, <3>1, <3>3, Zenon
      <4>3. 1 .. count[p] \subseteq data[dev[p]] => 1 .. count'[p] \subseteq data'[dev[p]]
        <5>1. 1 .. (count[p] + 1) = (1 .. count[p]) \cup {count[p] + 1}
          BY <3>1
        <5>2. QED
          BY <4>2, <5>1, Zenon
      <4>4. OwnRequest'
        BY <2>a, <3>1, <3>3, <4>3, Zenon DEF RequestInv, OwnRequest
      <4>5. QED
        BY <4>1, <4>4, Zenon DEF RequestInv
    <3>4. QED
      BY <2>6, <3>2, <3>3, Zenon DEF WriteData
  <2>7. CASE Finish(p)
    <3>1. /\ dev[p] \in Devs /\ UNCHANGED <<dev, count, data>> /\ st'[p] = "check"
      BY <2>7, Zenon DEF Finish, JobProgress
    <3>2. OwnRequest'
      BY <2>a, <3>1, Zenon DEF OwnRequest
    <3>3. CASE req' = req
      BY <3>1, <3>2, <3>3, Zenon DEF RequestInv, NoPartialFirmware
    <3>4. CASE /\ "loading" \in fds[p] /\ st[p] \in {"fin", "abort"}
               /\ req' = [req EXCEPT ![dev[p]] = IF st[p] = "fin" /\ @ = "loading"
                                                 THEN "done" ELSE "failed"]
      <4>1. st[p] = "fin" => Chunks \subseteq data[dev[p]]
        BY <2>a, <3>4, Zenon DEF RequestInv, OwnRequest, JobProgress, Chunks
      <4>2. st[p] = "fin" => data[dev[p]] = Chunks
        BY <4>1, <3>1, <1>b, Zenon
      <4>3. NoPartialFirmware'
        BY <3>1, <3>4, <4>2, <1>b, Zenon DEF RequestInv, NoPartialFirmware
      <4>4. QED
        BY <3>2, <4>3, Zenon DEF RequestInv
    <3>5. QED
      BY <2>7, <3>3, <3>4, Zenon DEF Finish
  <2>8. QED
    BY <1>8, <2>1, <2>2, <2>3, <2>4, <2>5, <2>6, <2>7, Zenon DEF DaemonStep
<1>9. CASE UNCHANGED vars
  BY <1>1, <1>9, Zenon DEF vars
<1>10. QED
  BY <1>2, <1>3, <1>4, <1>5, <1>6, <1>7, <1>8, <1>9, Zenon DEF Next, KernelStep

-----------------------------------------------------------------------------
(* The end of a daemon *)

LEMMA NextCaughtLate == TypeOK /\ CaughtLate /\ [Next]_vars => CaughtLate'
<1> SUFFICES ASSUME TypeOK, CaughtLate, [Next]_vars PROVE CaughtLate'
  BY Zenon
<1>a. st \in [Pids -> DaemonStates] /\ done \in [Pids -> BOOLEAN]
  BY Zenon DEF TypeOK
<1>1. ASSUME UNCHANGED <<done, committed>>,
             \A p \in Pids : st'[p] = "recv" => st[p] = "recv" \/ ~done[p]
      PROVE  CaughtLate'
  BY <1>1, Zenon DEF CaughtLate
<1>2. CASE LoaderStep
  <2>1. UNCHANGED <<done, committed>>
    BY <1>2, Zenon DEF LoaderStep, start_fw_loader, Restart, FinalStop, StopPoll, TelnetFork
  <2>2. \A p \in Pids : st'[p] = st[p] \/ st'[p] \in {"boot", "reaped"}
    BY <1>2, <1>a, Zenon DEF LoaderStep, start_fw_loader, Restart, FinalStop, StopPoll, TelnetFork
  <2>3. QED
    BY <1>1, <2>1, <2>2, Zenon
<1>3. CASE KernelStep \/ UNCHANGED vars
  <2>1. UNCHANGED <<st, done, committed>>
    BY <1>3, Zenon DEF KernelStep, RequestFirmware, SysdirAppears, KernelTimeout, OtherUevent, vars
  <2>2. QED
    BY <1>1, <2>1, Zenon
<1>4. ASSUME NEW p \in Pids, kill_hotplug_signal(p) PROVE CaughtLate'
  <2>1. /\ \A q \in Pids : q # p => done'[q] = done[q] /\ st'[q] = st[q]
        /\ committed \subseteq committed' /\ (st'[p] = "recv" => p \in committed')
    BY <1>4, <1>a, Zenon DEF kill_hotplug_signal, Goto
  <2>2. QED
    BY <2>1, Zenon DEF CaughtLate
<1>5. ASSUME NEW p \in Pids, Killed(p) PROVE CaughtLate'
  BY <1>1, <1>5, <1>a, Zenon DEF Killed, Goto
<1>6. ASSUME NEW p \in Pids, get_netlink_msg(p) PROVE CaughtLate'
  <2>1. /\ \A q \in Pids : q # p => done'[q] = done[q] /\ st'[q] = st[q]
        /\ committed' = committed \ {p} /\ st'[p] # "recv"
    BY <1>6, <1>a, Zenon DEF get_netlink_msg, Goto
  <2>2. QED
    BY <2>1, Zenon DEF CaughtLate
<1>7. ASSUME NEW p \in Pids, PollReturns(p) PROVE CaughtLate'
  BY <1>1, <1>7, <1>a, Zenon DEF PollReturns, QuitsAfterPoll, Goto
<1>8. ASSUME NEW p \in Pids,
             \/ daemonize(p) \/ open_uevent_socket(p) \/ CheckDone(p) \/ EnterPoll(p)
             \/ load_firmware(p) \/ WaitSysdir(p) \/ MarkLoading(p)
             \/ OpenData(p) \/ WriteData(p) \/ Finish(p)
      PROVE  CaughtLate'
  <2>1. UNCHANGED <<done, committed>>
    BY <1>8, Zenon DEF daemonize, open_uevent_socket, CheckDone, EnterPoll, load_firmware,
       WaitSysdir, MarkLoading, OpenData, WriteData, Finish
  <2>2. \A q \in Pids : st'[q] = "recv" => st[q] = "recv"
    BY <1>8, <1>a, Zenon DEF daemonize, open_uevent_socket, CheckDone, EnterPoll, load_firmware,
       WaitSysdir, MarkLoading, OpenData, WriteData, Finish, CopyFails, Goto
  <2>3. QED
    BY <1>1, <2>1, <2>2, Zenon
<1>9. QED
  BY <1>2, <1>3, <1>4, <1>5, <1>6, <1>7, <1>8, Zenon DEF Next, DaemonStep

-----------------------------------------------------------------------------
(* The theorems *)

LEMMA NextIInv == IInv /\ [Next]_vars => IInv'
<1> SUFFICES ASSUME IInv, [Next]_vars PROVE IInv'
  BY Zenon
<1>1. TypeOK'
  BY NextTypeOK, Zenon DEF IInv
<1>2. LoaderInv'
  BY NextLoaderInv, Zenon DEF IInv, LoaderInv
<1>3. JobProgress'
  BY NextJobProgress, Zenon DEF IInv
<1>4. ~Telnet => RequestInv'
  BY NextRequestInv, Zenon DEF IInv, RequestInv
<1>5. Telnet => OwnRequest'
  BY Zenon DEF OwnRequest
<1>6. CaughtLate'
  BY NextCaughtLate, Zenon DEF IInv
<1>7. QED
  BY <1>1, <1>2, <1>3, <1>4, <1>5, <1>6, Zenon DEF IInv, LoaderInv, RequestInv

LEMMA InductiveInvariant == Spec => []IInv
  BY InitIInv, NextIInv, PTL DEF Spec

\* Every variable of the firmware loader keeps its type; in particular x of
\* stop_fw_loader never passes its last value and count of _load_firmware never
\* passes the size of the image.
THEOREM TypeCorrect == Spec => []TypeOK
<1>1. IInv => TypeOK
  BY Zenon DEF IInv
<1>2. QED
  BY <1>1, InductiveInvariant, PTL

\* For any number of restarts, any search paths and any interleaving, with or
\* without telnet: a daemon that has not been told to quit by stop_fw_loader is
\* the recorded one and has the loader's current search path.
THEOREM CurrentPath == Spec => []ServingDaemonCurrent
<1>1. IInv => ServingDaemonCurrent
  BY Zenon DEF IInv
<1>2. QED
  BY <1>1, InductiveInvariant, PTL

\* The escalation of stop_fw_loader: a child whose pid start_fw_loader has
\* overwritten is dead or has SIGKILL pending.
THEOREM NoOrphans == Spec => []OrphansKilled
<1>1. IInv => OrphansKilled
  BY Zenon DEF IInv
<1>2. QED
  BY <1>1, InductiveInvariant, PTL

\* Unless the loader runs under telnet, where two daemons may work at a time, a
\* firmware request the kernel takes as completed by _load_firmware has the whole
\* image, whatever daemon was stopped or killed and whatever request timed out.
THEOREM WholeFirmware == ASSUME ~Telnet PROVE Spec => []NoPartialFirmware
<1>1. IInv => NoPartialFirmware
  BY Zenon DEF IInv
<1>2. QED
  BY <1>1, InductiveInvariant, PTL

\* handle_events takes no message after the handler of SIGTERM has set done, but for
\* the one it was about to receive when the signal came.
THEOREM QuitsClean == Spec => QuittingTakesNoMore
<1> DEFINE A == \A p \in Pids : done[p] /\ p \notin committed => Len(queue'[p]) >= Len(queue[p])
<1>1. ASSUME TypeOK, CaughtLate, [Next]_vars PROVE [A]_vars
  <2>1. queue \in [Pids -> Seq(Devs \cup {Other})]
    BY <1>1, Zenon DEF TypeOK
  <2>2. ASSUME UNCHANGED queue PROVE A
    BY <2>1, <2>2
  <2>3. ASSUME NEW p \in Pids, get_netlink_msg(p) PROVE A
    <3>1. CASE UNCHANGED queue
      BY <2>2, <3>1, Zenon
    <3>2. CASE queue' = [queue EXCEPT ![p] = Tail(@)]
      <4>1. done[p] => p \in committed
        BY <1>1, <2>3, Zenon DEF get_netlink_msg, CaughtLate
      <4>2. \A q \in Pids : q # p => queue'[q] = queue[q]
        BY <2>1, <3>2, Zenon
      <4>3. \A q \in Pids : Len(queue[q]) >= Len(queue[q])
        BY <2>1
      <4>4. QED
        BY <4>1, <4>2, <4>3, Zenon
    <3>3. QED
      BY <2>3, <3>1, <3>2, Zenon DEF get_netlink_msg
  <2>4. ASSUME NEW u \in Devs \cup {Other}, Multicast(u) PROVE A
    BY <2>1, <2>4 DEF Multicast
  <2>5. CASE LoaderStep
    BY <2>5, <2>2, Zenon DEF LoaderStep, start_fw_loader, Restart, FinalStop, StopPoll, TelnetFork
  <2>6. ASSUME NEW p \in Pids, kill_hotplug_signal(p) \/ Killed(p) PROVE A
    BY <2>6, <2>2, Zenon DEF kill_hotplug_signal, Killed
  <2>7. ASSUME NEW p \in Pids, DaemonStep(p) PROVE A
    BY <2>7, <2>2, <2>3, Zenon DEF DaemonStep, daemonize, open_uevent_socket, CheckDone,
       EnterPoll, PollReturns, load_firmware, WaitSysdir, MarkLoading, OpenData, WriteData, Finish
  <2>8. CASE KernelStep
    BY <2>8, <2>2, <2>4, Zenon DEF KernelStep, RequestFirmware, SysdirAppears, KernelTimeout,
       OtherUevent
  <2>9. QED
    BY <1>1, <2>5, <2>6, <2>7, <2>8, Zenon DEF Next
<1>2. IInv => TypeOK /\ CaughtLate
  BY Zenon DEF IInv
<1>3. QED
  BY <1>1, <1>2, InductiveInvariant, PTL DEF Spec, QuittingTakesNoMore
=============================================================================

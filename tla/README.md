# A TLA+ development for comodoo

comodoo is an installer derived from Fedora's Anaconda.  Its own code is under
`src/installer/`: `stage-1` (`init` and `loader`, in C), `isys` (the library the
loader and the Python stage use), `isomd5sum`, `pyblock` and `stage-2` (Python).
`syslinux` is the upstream boot loader, kept as it is; with it comes gPXE, the network
boot program, whose TFTP client and TCP are modelled.

## 1. Inventory

How the parts meet: the kernel starts `init`; `init` starts helpers and the loader,
installs signal handlers and waits.  The loader starts the firmware daemon, leads a
dialogue that ends with a second stage mounted on `/mnt/runtime`, runs anaconda,
stops the daemon, and exits or asks `init` (by a signal) to halt or power off.
`init` unmounts everything and takes the machine down.  Over a network the kernel comes
from gPXE: its TFTP client fetches the files of a PXE server, its TCP carries HTTP and
iSCSI, and both wake themselves up with the same retry timer.

| Part | State | Operations | What is hard about it |
|---|---|---|---|
| Firmware loader (`fwloader.c`) | daemon's pid, search path, flag `done`, socket, sysfs files | start, stop, restart, handle an event, copy an image | signals against `poll()`, a restart during a copy, the kernel's time-outs |
| init, shutdown (`init.c`, `shutdown.c`) | handlers, `installpid`, status, calls of `shutDown` under way | fork, reap, handlers, `shutDown` | handlers that interrupt each other; loader and shutdown racing |
| Unmounting (`undomounts.c`) | the table with its flags | `undoMount`, `undoLoop` | mutual recursion over mounts and loop devices |
| Dialogue (`doLoaderMain`) | step, direction, `rc`, method, `stage2Data`, repo | ten steps | values left by earlier passes; Back from anywhere |
| CD, disk, NFS, URL methods | mounts, `/dev/loop0`, `/tmp/install.img` | find, check, copy, mount an image | several drives, media changed, partial copies |
| Driver and updates disks | stage, direction, loop6 | choose, verify, load, probe | Back leaves mounts and names behind |
| Network (`net.c`, `iface.c`) | interface, configuration files | choose, configure, wait for a connection | waiting, retries, partial input |
| Kickstart, transfers, telnet, media check | | | parsers of streams |
| gPXE TFTP (`tftp.c`, `bitmap.c`) | flags, peer, block size, bitmap of blocks, timer | open, time-out, reopen, fall back, OACK, DATA, ERROR, close | lost, repeated, late packets; two servers' ports; multicast; wrapping block numbers |
| gPXE TCP (`tcp.c`) | flags sent, acknowledged, received; sequence numbers, windows, queue, timer | open, write, close, time-out, each kind of segment | reordering; an application that calls back; closing in every state |
| gPXE retry timer (`retry.c`) | running, timeout, count | start, stop, expire | exponential backoff, the failure it reports |

`PROJECT.json` lists every part, also those left out, and the hazards by line.

## 2. Modules

`FwLoader` has the loader that starts and stops daemons, the daemons (each an
incarnation with its own search path) and the kernel's side of a request.  One action
stands for each stretch of code between two points where another process can act:
`CheckDone`, `EnterPoll`, `PollReturns` and `get_netlink_msg` are apart because SIGTERM
may come between them; the history variable `committed` records a daemon it has caught
between its last test of `done` and `recv()`.  netlink, sysfs and the kernel's time-out are
external.

`InitProc` has the main program of init up to its wait loop, signal delivery, and
`shutDown` step by step.  `stack` holds the calls of `shutDown`, since a handler may
interrupt another; a handler's own signal is blocked, as with `signal()` of glibc.
The loader is what init sees of it, and when it cannot be started its process runs
init's `shutDown` (`ChildReads`, `ChildUnmounts`).  `/proc` is one of the file systems: a
call that begins when an earlier one has unmounted it cannot read `/proc/mounts`, unmounts
nothing (`blind`), and `getNoKill` gives 0.  `Unmount` abstracts from the order, which is
the subject of `UndoMounts`.

`UndoMounts` has the two scans of `unmountFilesystems` and the frames of the recursion.
Initial states are all histories of N mounts and loop devices.  Paths are replaced by
the relation "lies under": `Above` is the least set of things that holds what a mount
point lies on and is closed under `parent`.  `umount2()`, `open` and LOOP_CLR_FD may fail
at every call, and the code goes on; `refused` and `kept` record what they failed on.

`LoaderWizard` composes `doLoaderMain` with `CdInstall`, `HdInstall`, `NfsInstall` and
`UrlInstall`, which share the state declared in `Stage2Images`.  `pc` is the step or
the point inside a method.  What media and servers hold is chosen at each access.
`rc` is a variable because the code reads it before setting it.

`DriverDisk` has the stages of `loadDriverFromMedia` and `loadUpdates` (stages the code
falls through into are steps of their own), `chooseManualDriver` with its nested call,
the sources given by kickstart or on the command line, and the places in `main` that
call them, in their order.  A pointer is null, set or freed; `free` or `realloc` of a
freed one goes well or crashes.  Devices, disks and answers are chosen at each step.
Branches that no path reaches are left out.  The restart of the firmware loader inside
`loadDriverDisk` is the subject of `FwLoader`.

`Telnet` and `FtpResponse` have the parsers of the telnet and of the FTP control
connection.  A step is a packet or a `read()`, of any length.  Bytes are told apart as far
as the code does.  The telnet client sends, at any time, keys, commands with and without an
option, its terminal type and window sizes with and without a value 255; `misread` records
that a byte was taken for what it is not.  The FTP buffer is static, so it keeps what
earlier replies left in it.

`RetryTimer` has the operations of `retry.c` as functions on the timer's record.  `Tftp`
and `TcpConnection` use it, and follow the same pattern: the C structure is one record,
each C function an operator from that record to the next, and an action one call from
outside (an expiry, a packet, the application) with everything it calls.  `tx` is what
was transmitted during it; the network loses it or hands it to the server or peer, and
keeps all that these have sent, to deliver any of it at any time and any number of
times.  The server and the peer are external and keep to the protocol.

`Tftp` has the four schemes gPXE registers.  A data packet carries the place in the file
its contents come from, and `image` collects where the recipient was told to put it, so
that a block that is misplaced is seen.  A write outside of the bitmap is recorded in
`wild`.  `Download` is what a download promises: parts arrive, none is taken back, the
end is reported as complete only with the whole file, and there is an end.

`TcpConnection` has the functions of `tcp.c` on one connection, and `Tcp` puts it between
an application and a peer.  Data are numbered units and sequence numbers wrap.  The
application may write, close, refuse data, and do the first two from within the call
that hands it data, which comes before `rcv_ack` is advanced.  `ByteStream` is what one
direction of a connection promises; the connection implements two of them.

The `MC` modules give constants their values; `MCStreams` puts the two parsers side by
side, a behaviour being one of either.

## 3. Runs

| Run | Question |
|---|---|
| `fw_safety` | Is a daemon that serves the current one, with the current path? Is every replaced daemon killed? Is a firmware image taken by the kernel whole (without telnet)? Does a daemon told to quit take another message, but the one it was about to receive? |
| `fw_live` | Does `stop_fw_loader` return, and is each request that is loading reported back on, also with telnet? |
| `init` | With kickstart's poweroff, and with halt and nokill: does the machine go down the way it was asked to, unmounted (also when calls of `shutDown` nest and `/proc` is gone), and does init notice the loader's end? |
| `undo_mounts` | Whatever fails: leaves first, files before devices, nothing left but what a call failed on, and an end to the recursion (each step decreases a measure)? |
| `wizard` | Is the image on `/mnt/runtime` the one named by the URL returned, is the network up before a fetch, is the medium visible to anaconda, is nothing left behind by Back? |
| `wizard_live` | Does the loader ever go round without a dialogue, with any method, start and `rc`, apart from the silent loops `NoSilentLoop` names? |
| `driver_disks` | Is nothing left mounted on any way out, does no dialogue go round on its own, does Back lead out? |
| `streams` | Do keys, output and FTP verdicts depend on how TCP cuts the stream? |
| `tftp` | Is every block put where it belongs, is the timer running as long as the request, is the bitmap large enough, and does the client implement `Download`? |
| `tcp` | Does a connection implement two `ByteStream`s, can an assertion fail, can it stall or leak without a timer, can the receive window shrink? |

Two runs expect a violation; each states what a comment of the code says and shows that
the code does otherwise (`findings` in `PROJECT.json`):

- `wizard_whole`: an interrupted download is mounted;
- `tftp_fallback`: a client that has fallen back from MTFTP to TFTP ends after one block
  and reports success.  The old file size keeps `tftp_presize` from sizing the new bitmap.

**Bounds.**  Firmware: two incarnations (a restart is the only way they interact), up
to two chunks (so that a copy can stop in the middle); the patience of `stop_fw_loader`
(90 and 100 turns) is scaled down, keeping "signal, wait, kill, wait"; `fw_live` has one
start, with telnet.  init: `/proc` and two file systems of the loader, one helper, one
Ctrl-Alt-Del besides the loader's own signal, so that handlers nest.  Unmounting: three
things, enough for a file system on a loop device whose file is on a file system that is
mounted below another; the proofs are for any number.  Wizard: two drives, two partitions, one export, one URL, at most two mounts
stacked on `/mnt/stage2` (an export that is mounted over itself goes on being retried at
the bound); one drive and one partition in `wizard_live`.  Driver disks:
none, the state space is finite.  Streams: four things sent by the client, enough to end
the negotiation and to mix keys with commands and a subnegotiation that holds IAC; three
characters of output; two replies, so that the second meets the first one's text, each in
at most three pieces; a code has one digit instead of three.  TFTP: files of 2 and 8
units with blocks of one or two units and block numbers modulo 4, so that a file of 8
wraps twice without options and once with `blksize`, and has a last block that is empty;
eleven packets reach the client, enough for nine blocks and two that are repeated; two
ports the server answers from; a packet is overtaken by one later block at most
(`MaxLate`); MTFTP gives up after two time-outs; timeouts of one and two ticks, so that
backoff reaches its limit; a name is resolved after at most three polls.  TCP: two units
in each direction, which are sent in one segment or in two, and windows of zero or
enough; sequence numbers modulo 32 that start just below the wrap, which keeps the half
of the numbers that a comparison needs.

**What the properties except and the runs leave out.**  The code has silent loops, and
`NoSilentLoop` names each: with LOADER_BACK in the uninitialised `rc` the loader alternates
between language and keyboard (`StaleBack`); an NFS image that is there but cannot be
mounted is retried for ever (`NfsAgain`); `readNetConfig` may return LOADER_BACK without a
word when it cannot write the configuration it was given (`NetConfigLeft`); and
`validMethods[-1]` at `loader.c:1398` is undefined (`"UB"`).  Menus of the keyboard and of
the network interface count as dialogues only when they were shown (`MenuLeft`).  Without
any one of these TLC finds the property violated.  `QuittingTakesNoMore` excepts the message
a daemon was about to receive when SIGTERM came, `DownUnmounted` what was mounted late or
refused and, after a call that found `/proc` gone, what the interrupted one had not come
to; `RequestHonoured` a request sent before the handler was installed; the properties of
`UndoMounts` what `umount2()`, `open` or LOOP_CLR_FD itself failed on.  `wizard` has no rescue copy in RAM with two
drives: discs in both make the code overwrite the copy in use.  `BackLeadsOut` leaves
out UPD_LOAD, which is repeated for ever when the disk cannot be copied.
`KeysDelivered`, `CRBeforeNL` and `VerdictRight` name the places at which a stream must
not be cut; without the exceptions TLC finds each of them violated.  `AbortsOnlyOnKeys` and
`KeysDelivered` also except what follows a command without an option, or, in the
negotiation, a doubled 255.  `DataInPlace` and
`Downloads` except a transfer in which one of the last blocks of a period of block
numbers is repeated, `Downloads` and `BitmapInRange` the bitmap of length zero (the
subject of `tftp_fallback`; an empty file has it as well), `NoSilentStall` and `Freed`
data that wait at a send window of zero, and `Freed` a peer that vanishes without a
FIN.  A file with more blocks than there are block numbers is not fetched by multicast,
whose blocks come in no order.  The hazards in `PROJECT.json` name the lines.

**Fairness.**  Weak fairness of a program's own steps: a process that can run is
scheduled.  Users, media, servers, helpers and the loader as init sees it are not fair,
with one exception: in the wizard and in the driver disk dialogues a dialogue is answered,
as the whole program is one process and a step includes the answer.  The answer itself is
free, and `BackLeadsOut` makes its assumption on the answers explicit.  In gPXE the main
loop polls the timers, so a running timer expires; the resolver answers in one way or the
other.  Packets are never fair: TFTP ends although the server may fall silent.  For TCP's
`Freed` the peer closes in the end and retransmits until its FIN is acknowledged, which
any TCP does and without which a half-closed connection may stay; the step it repeats is
written out in `Fairness`, since it is a particular choice of a segment.

## 4. Proofs

`FwLoaderProofs` proves, for all values of the constants, `TypeCorrect`, `CurrentPath`,
`NoOrphans`, `WholeFirmware` (without telnet) and `QuitsClean`.  The properties are not
inductive.  The strengthening `IInv` adds to them that pids are handed out in order
(`PidOrder`), that from `stop_fw_loader` on the recorded daemon is gone or told to quit
(`Stopped`), and gone or killed once `start_fw_loader` goes on (`KillSent`), that
without telnet all daemons are the loader's children (`AllMine`), what a daemon's
program counter says about its copy (`JobProgress`), and that while the serving daemon
holds `loading` open the request is its own and the kernel has every chunk it wrote
(`OwnRequest`), and that a daemon about to call `recv()` with `done` set was caught there
(`CaughtLate`, for `QuitsClean`).  Each action preserves it; the proof has one step per action and under
it one per conjunct the action disturbs.  The only assumption is `FwAssumption`, which
types the constants.

`InitProcProofs` proves, for every set of file systems, helpers and options and any
number of signals, `UnmountsFirst`, `HonoursRequests` and `RebootsAfterSuccess`.  Calls
of `shutDown` nest without bound.  The argument is that only the innermost one matters:
a call that is interrupted never goes on, so `UnmountedSoFar` speaks of `Top` alone.  A
call that finds `/proc` gone is the case apart: somebody has read `/proc/mounts` and
unmounted `/proc` before, so whatever is mounted is late, or was refused, or is in the list
of a call under way (`NoProc`), of which the child's list is one.
What an outer call has found unmounted is kept by `Down` once it has halted the machine
(`RebootHandler`: the handler that reboots at once is installed only then).  `Frames`
ties what a call does to the signal it stems from, `LoaderOnce` says that the loader
starts, asks and ends once, and `LoaderAlone` that without signals from the user its
request is pending and not blocked, or is what the innermost call carries out.  The only
assumption is `InitAssumption`, which types the options, keeps the loader apart from
the helpers and says that `/proc` is one of the file systems init mounts.

`UndoMountsProofs` proves, for any number of mounts and loop devices in any layout and
any order of the table, `TypeCorrect`, `UndoesLeavesFirst`, `KeepsFiles`, `ClearsIdle`,
`UndoesAll` and `Terminates`.
`IInv` says of the recursion that calls are nested in the order of `Rank` and so never
wait for themselves (`Nested`); that whatever a call has come to is done, or is being
done by a call further in (`Visited`); that a thing is in use until the call for it has
returned, and after that only if a call failed on it (`Gone`); and what the scans have
passed (`Scanned`).  A call that has come to the end of the table and is innermost
therefore has nothing left below it but what could not be undone.
`Called`, `WentOn` and `Returned` show this for the three things a step can do to the
stack, and the actions are put together from them.  `Terminates` says that every step
decreases `Left`, which is a natural number: a flag that is still set stands for all the
turns that the call it allows can take, and is cleared by that call, so that a call costs
more than it brings; a turn of a loop, a return and a step of a scan use up what is left
of the innermost call or of the scan.  With it the recursion cannot go on for ever,
however the things lie on one another.  The only assumption is `NAssumption`.

`TftpProofs` proves, for all values of the constants (file sizes, block sizes, number of
ports, bounds, options), `TimerSafe` and `BitmapSafe`; and, if a packet is overtaken by
fewer blocks than a period of block numbers has (`Timely`), `DataSafe` and `Implements`,
the safety part of the refinement of `Download`.  The inductive invariant `IInv` says what
holds of the request (`Good`: its fields are of their types; all bits below the first gap
are set and none beyond the length, which the file size and the block size determine; a
request that goes on has its timer running and a block it waits for, one that has ended
has not), of the server (`Server`: it has not sent more blocks than the file has), and of
both (`Settled`: no block can come before the client knows the block size in use, and
multicast and plain transfers do not mix).

`Long` adds to it where the blocks lie.  Every block lies where it came from, a bit that is
set stands for a block that is held (`Placed`), and a success has filled the bitmap
(`Filled`); a full bitmap then is a whole file (`Whole`).  For a file with fewer blocks than
there are block numbers this is inductive with any order of packets, multicast included
(`NextShort`).  For a longer one, which `Numbered` leaves to plain transfers, it is not:
that a number stands for the right block depends on what the server has sent.  `InOrder`
says it: the bits are those below the first gap, and the server has sent the blocks below
the gap, or one more.  A packet then belongs to the period of the gap's successor and is
put in its place, or it is one of the last blocks of the period before, received a second
time and put a period too far (`Period`, `DataInOrder`).  That is the repetition which
`DataInPlace` and `Outcome` except, and it is on record from then on (`Damaged`), because
what was put stays put.  TLC
checked `Long` on the instance of the run `tftp` before it was proved.

The proof goes through the operators as the code goes through its functions: one lemma for
each says what it keeps (`RxData`, `Packets`, `Answered`, `Transmitted` ...), and the
actions are put together from them.  That a bitmap has a first gap rests on a least element
of a set of naturals.  Assumptions: `TftpAssumption` and `TimeoutAssumption`, which type
the constants, and `Timely` where it is named.

`LoaderWizardProofs` proves, for any drives, partitions, exports, URLs and starting
points, `FetchesOverNetwork`, `UrlNamesRuntime`, `ImageOnVisibleMedium`, `LeavesNothing`
and `RepoCorrected`.  Each property speaks of a few places of the dialogue, and the
reason it holds there lies several steps back.  `IInv` has it at every place: where
`setupCdrom` is in the list of drives (`Scanning`), which method the data left from an
earlier attempt belong to and what the present one works on (`Data`), what is mounted and
where the image came from (`Mounts`), how `instRepo`, the guess made from it and the data
hang together (`Repo`), and that the way to a fetch leads through a chosen method and a
configured interface (`Net`).  There is one lemma per conjunct, with a case per action.
`UrlNamesRuntime` has the hypothesis `OneCopy`: in rescue mode, with two drives and a disc
in both, the copy in use is overwritten and the property is false.  Assumptions:
`LocationAssumption` (the kinds of location are apart, as the prefixes of their URLs are)
and `StartAssumption` (stage2= and kickstart set the method and its data together).

`DriverDiskProofs` proves `Unmounted`, for all ways out of the dialogues, and `Recursion`:
`loadDriverFromMedia` and `chooseManualDriver` call each other, but a call that waits is
never joined by a second one.  `IInv` says which of `/tmp/drivers`, `/tmp/dpart` and
`/dev/loop6` may be in use at each stage (`Mounted`) and where a call may be waiting
(`Suspends`).  There are no constants and no assumptions.  TLC covers this state space as
well; the proof says why nothing is left behind, stage by stage.

`TcpProofs` proves, for all sequence numbers to start from, windows, path MTUs and
lengths of the two streams, `Refinement` (a connection implements two `ByteStream`s),
`Assertions`, `TimerRuns` and `WindowKept`.  None of the properties is inductive: that
data are delivered in order depends on what the queue, the flags and the sequence
numbers mean.  `IInv` says this.  A connection is live or deleted (`Connection`).  In a
live one the flags are those of one of TCP's states, the queue is exactly what was
written and is not acknowledged, with SYN before and FIN after it, and `rcv_ack` stands
for what was received; a FIN is held back while data are queued and not longer.  The
application has been given the units before `rcv_ack` and has been told of an end only
after all of them (`Application`).  The peer holds a prefix of what was written, and its
FIN only after the application has closed (`Peer`).  `TcpHandlers`, about
`TcpConnection` alone, defines the live states and has the lemmas about sequence numbers
modulo `SeqMod`, the units and the timer, and one lemma for each function of `tcp.c`:
from a live connection it leads to a live one or deletes it, and what it transmits fits
its place in the stream (`Proper`).  `TcpProofs` has the peer, one lemma per action, and
`NextSteps`, which gives for every step both the invariant and the steps of the two
streams, so that `Refinement` follows from the same cases.  Assumptions:
`TimeoutAssumption` and `TcpAssumption`, which type the constants and say that less than
half of the sequence space is in use, and that a window and what is received together do
not reach round it (16 bits against 32).

**Only model-checked.**

- Liveness: `StopReturns`, `LoadingEnds`, `LoaderEndIsNoticed`, `NoSilentLoop`,
  `DialogueAsks`, `BackLeadsOut`, `Freed`, and that a download ends (the liveness part of
  `Downloads`).  Fairness is out of the prover's reach.
- `AbortsOnlyOnKeys`, `KeysDelivered` and `CRBeforeNL`: what the telnet code makes of a
  packet is a recursive function or a concatenation of any number of pieces, and to put
  packets together takes induction over data.
- `VerdictRight` and `HangsOnlyIfCutShort`: they need an invariant on the contents of the
  static buffer, line by line, for any way of reading a reply.  None has been worked out.
- The runs that expect a violation.

## 5. Not modelled, and the plan

Not modelled, although a model could be made: network configuration (`net.c`, the wait for
a connection in `iface.c`); kickstart, and the loader's `main` with its command line; the
order of FTP commands, HTTP headers and redirects; implanting and checking MD5 sums;
kernel modules; gPXE's other protocols (DHCP, DNS, ARP, HTTP, iSCSI, TLS) and drivers.
Left out for good: hardware queries of `isys`, `pyblock`, user interface code, MD5 itself,
the assembler parts of `syslinux` and the build scripts.  By lines the repository is
mostly syslinux and gPXE drivers, so the modelled share of it is small.

Left out inside modelled parts: the loader's test mode; the mount of `/mnt/isodir`,
which one action makes and undoes; that `copyFileFd` does not truncate, so that the tail of
a longer `/tmp/install.img` stays behind a shorter one; several mounts on one mount point, `/dev/loop7`, and
the size of the table in `undomounts.c`; `disableSwap`; the set-up init does before it
starts its helpers, but for its mounts; the size of the telnet terminal; a result of -1 of
`select()` or `read()` on the FTP control connection; the numbering of driver disks and
the file `/tmp/dd.img`; in gPXE clock values, names, addresses, ports and checksums, packets
that are malformed, TCP options and timestamps, and the accounting of memory (an
allocation that fails is a choice).  A failure of `tftp_presize` is one case with a failure
of delivery, although the data have been delivered by then: both end the request.  Words of
a bitmap are exact, as on the default i386; where `long` has 64 bits, the `int` shift of
`BITMAP_MASK` extends the sign of bit 31.  A TCP application does not close the connection
and refuse the data in the same call.

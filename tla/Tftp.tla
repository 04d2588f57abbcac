-------------------------------- MODULE Tftp --------------------------------
(***************************************************************************)
(* The TFTP client of gPXE: net/udp/tftp.c over core/bitmap.c and          *)
(* net/retry.c, with the four schemes it registers (tftp, tftpsize, tftm   *)
(* and mtftp), a server and a network that loses, delays, duplicates and   *)
(* reorders.                                                               *)
(*                                                                         *)
(* The request is one record, as in the code, and a function of the code   *)
(* is an operator from that record to the next.  tx is what                *)
(* tftp_send_packet transmitted; image is what the recipient was given:    *)
(* where a block was put, how long it is, and which part of the file it    *)
(* holds.  Names, addresses and the wording of the options are left out.   *)
(***************************************************************************)
EXTENDS RetryTimer, FiniteSets

CONSTANTS
  FileSizes,           \* the lengths a file on the server may have
  DefaultBlk,          \* TFTP_DEFAULT_BLKSIZE
  ServerBlk,           \* what the server answers to the option blksize
  Modulus,             \* block numbers are sent modulo 2^16
  MaxMtftpTimeouts,    \* MTFTP_MAX_TIMEOUTS
  Schemes,             \* the schemes a request is opened with
  OptionSets,          \* the options a server may know, a set of sets
  Tids,                \* the ports the server answers plain requests from
  MaxLate,             \* bound: later blocks that overtake a packet of the server
  MaxPackets,          \* bound: packets that reach the client
  MaxPolls             \* bound: expiries after which a name is resolved

ASSUME TftpAssumption ==
  /\ FileSizes \subseteq Nat /\ DefaultBlk \in Nat \ {0} /\ ServerBlk \in Nat \ {0}
  /\ Modulus \in Nat \ {0, 1} /\ MaxMtftpTimeouts \in Nat /\ MaxLate \in Nat
  /\ MaxPackets \in Nat /\ MaxPolls \in Nat
  /\ OptionSets \subseteq SUBSET {"blksize", "tsize"}
  /\ Schemes \subseteq {"tftp", "tftpsize", "tftm", "mtftp"}
  /\ Tids \cap {"none", "mtftpd"} = {}

VARIABLES
  tftp,      \* the request
  size,      \* the length of the file
  opts,      \* the options the server knows
  srv,       \* for every port of the server, the blocks it has sent to the
             \* client's present socket, or -1: no request has reached it
  budget     \* packets that may still reach the client

vars == <<tftp, size, opts, srv, budget>>

Sources == Tids \cup {"mtftpd"}

(***************************************************************************)
(* core/bitmap.c: bits below length; a write beyond the allocated words is *)
(* recorded in wild and changes nothing else.                              *)
(***************************************************************************)
EmptyBitmap == [bits |-> {}, length |-> 0, first_gap |-> 0]

bitmap_resize(bitmap, length) == [bitmap EXCEPT !.length = length]

bitmap_set(bitmap, bit) ==
  LET bits == bitmap.bits \cup ({bit} \cap 0 .. bitmap.length - 1)
      Gaps == {g \in bitmap.first_gap .. bitmap.length : g \notin bits}
  IN [bitmap EXCEPT !.bits = bits,
        !.first_gap = CHOOSE g \in Gaps : \A h \in Gaps : g <= h]

\* Mutant: the last block does not count.
bitmap_full_early(bitmap) == bitmap.first_gap + 1 >= bitmap.length

bitmap_full(bitmap) == bitmap.first_gap = bitmap.length

-----------------------------------------------------------------------------
\* Mutant: the timer is left running.
tftp_done_timed(t, result) == [t EXCEPT !.sock = "closed", !.mc = FALSE, !.status = result]

\* stop_timer is given no run time: a round trip is shorter than two ticks.
tftp_done(t, result) ==
  [t EXCEPT !.timer = stop_timer(@, 0), !.sock = "closed", !.mc = FALSE, !.status = result]

\* The named socket is resolved first; until then its window is zero.
tftp_reopen(t) ==
  [t EXCEPT !.sock = "resolving", !.flags = @ \ {"SEND_ACK"}, !.peer = "none"]

\* Mutant: no block after the last full one.
NumBlocksFull(filesize, blksize) == filesize \div blksize

\* tftp_presize: a file of whole blocks has an empty block at its end.
num_blocks(filesize, blksize) == filesize \div blksize + 1

tftp_presize(t, filesize) ==
  IF filesize <= t.filesize THEN t
  ELSE [t EXCEPT !.filesize = filesize,
                 !.bitmap = bitmap_resize(@, num_blocks(filesize, t.blksize))]

tftp_send_packet(t) ==
  LET stopped == stop_timer(t.timer, 0)
  IN [t EXCEPT !.timer = IF t.sock = "resolving" THEN start_timer_nodelay(stopped)
                         ELSE start_timer(stopped),
               !.tx = IF t.peer = "none" THEN "rrq"
                      ELSE IF "SEND_ACK" \in t.flags THEN "ack" ELSE "none"]

\* Falling back to plain TFTP when the server of MTFTP has not answered.
tftp_fall_back(t) ==
  tftp_reopen([t EXCEPT !.flags = {"RRQ_SIZES"}, !.mc = FALSE,
                        !.timer = start_timer_nodelay(@), !.bitmap = EmptyBitmap])

tftp_timer_expired(t0, reopens) ==
  LET t == [t0 EXCEPT !.timer = timer_expired(@)]
      counted == [t EXCEPT !.mtftp_timeouts = @ + 1]
      falls == counted.mtftp_timeouts > MaxMtftpTimeouts
  IN IF "MTFTP_RECOVERY" \in t.flags
     THEN IF t.peer # "none"
          THEN IF reopens THEN tftp_send_packet(tftp_reopen(t))
               ELSE tftp_done(tftp_reopen(t), "failed")
          ELSE IF ~falls THEN tftp_send_packet(counted)
          ELSE IF reopens THEN tftp_send_packet(tftp_fall_back(counted))
          ELSE tftp_done(tftp_fall_back(counted), "failed")
     ELSE IF fail(t0.timer) THEN tftp_done(t, "failed")
     ELSE tftp_send_packet(t)

(***************************************************************************)
(* Received packets.  An option that cannot be parsed, a multicast socket  *)
(* that cannot be opened and memory that runs out (ok is FALSE) end the    *)
(* request.                                                                *)
(***************************************************************************)
tftp_process_multicast(t, mcast) ==
  [t EXCEPT !.flags = IF mcast = "master" THEN @ ELSE @ \ {"SEND_ACK"}, !.mc = TRUE]

tftp_rx_oack(t0, p, ok) ==
  LET t1 == [t0 EXCEPT !.blksize = IF "blksize" \in opts THEN ServerBlk ELSE @,
                       !.tsize = IF "tsize" \in opts THEN size ELSE @]
      t2 == IF p.mcast = "absent" THEN t1 ELSE tftp_process_multicast(t1, p.mcast)
      t3 == IF t2.tsize # 0 THEN tftp_presize(t2, t2.tsize) ELSE t2
  IN IF ~ok THEN tftp_done(t2, "failed")
     ELSE IF "SIZEONLY" \in t3.flags THEN tftp_done(t3, "ok")
     ELSE tftp_send_packet(t3)

\* Mutant: the next period begins one block early.
block_base_early(bitmap) == ((bitmap.first_gap + 2) \div Modulus) * Modulus

\* The number in the packet counts within the period of the first missing
\* block's successor.
block_base(bitmap) == ((bitmap.first_gap + 1) \div Modulus) * Modulus

\* xfer_deliver_iob_meta: the recipient puts the data at the offset.
deliver(t, p, offset) ==
  [t EXCEPT !.image = @ \cup {[at |-> offset, len |-> p.len, from |-> p.from]}]

tftp_rx_data(t, p, ok) ==
  LET number == p.block % Modulus
      base == block_base(t.bitmap)
      block == base + number - 1
      offset == block * t.blksize
      t1 == tftp_presize(deliver(t, p, offset), offset + p.len)
      t2 == [t1 EXCEPT !.bitmap = bitmap_set(@, block), !.wild = @ \/ block >= t1.bitmap.length]
      t3 == tftp_send_packet(t2)
  IN IF \/ "SIZEONLY" \in t.flags
        \/ number = 0 /\ base = 0
        \/ p.len > t.blksize
        \/ ~ok
     THEN tftp_done(t, "failed")
     ELSE IF bitmap_full(t3.bitmap) THEN tftp_done(t3, "ok")
     ELSE t3

\* The first answer decides which port of the server is listened to.
tftp_rx(t, p, ok) ==
  LET known == IF t.peer = "none" THEN [t EXCEPT !.peer = p.src] ELSE t
  IN IF known.peer # p.src THEN t
     ELSE CASE p.kind = "oack"  -> tftp_rx_oack(known, p, ok)
            [] p.kind = "data"  -> tftp_rx_data(known, p, ok)
            [] p.kind = "error" -> tftp_done(known, "failed")

tftp_socket_deliver_iob(t, p, ok) == tftp_rx([t EXCEPT !.flags = @ \cup {"SEND_ACK"}], p, ok)

tftp_mc_socket_deliver_iob(t, p, ok) == tftp_rx(t, p, ok)

-----------------------------------------------------------------------------
(***************************************************************************)
(* The server.  A packet it sent to the client's present socket may arrive *)
(* at any later time and any number of times.  A multicast group carries   *)
(* any block at any time, since other clients fetch the file as well.      *)
(***************************************************************************)
Blk(src) == IF src # "mtftpd" /\ "blksize" \in opts THEN ServerBlk ELSE DefaultBlk
Blocks(src) == size \div Blk(src) + 1

Oacks == opts # {} \/ "RRQ_MULTICAST" \in tftp.flags

Data(src, i) ==
  [kind |-> "data", src |-> src, block |-> i, from |-> (i - 1) * Blk(src),
   len |-> IF i = Blocks(src) THEN size - (i - 1) * Blk(src) ELSE Blk(src)]

OackPackets(src) ==
  {[kind |-> "oack", src |-> src, mcast |-> m] :
     m \in IF "RRQ_MULTICAST" \in tftp.flags THEN {"absent", "master", "member"} ELSE {"absent"}}

UnicastPackets ==
  UNION {{Data(src, i) : i \in {j \in 1 .. srv[src] : j + MaxLate >= srv[src]}} \cup {[kind |-> "error", src |-> src]}
         \cup (IF src # "mtftpd" /\ Oacks THEN OackPackets(src) ELSE {}) :
         src \in {s \in Sources : srv[s] >= 0}}

MulticastPackets ==
  UNION {{Data(src, i) : i \in 1 .. Blocks(src)} :
         src \in IF "MTFTP_RECOVERY" \in tftp.flags THEN {"mtftpd"}
                 ELSE {s \in Tids : srv[s] >= 0}}

\* A request opens a transfer on a port of its own; an acknowledgement of the
\* last block sent brings the next one.
Answers(t) ==
  \/ /\ t.tx = "rrq" /\ t.sock = "open" /\ "MTFTP_RECOVERY" \notin t.flags
     /\ \E tid \in Tids : /\ srv[tid] = -1
                          /\ srv' = [srv EXCEPT ![tid] = IF Oacks THEN 0 ELSE 1]
  \/ /\ t.tx = "rrq" /\ t.sock = "open" /\ "MTFTP_RECOVERY" \in t.flags
     /\ srv' = [srv EXCEPT !["mtftpd"] = Blocks("mtftpd")]
  \/ /\ t.tx = "ack" /\ t.peer \in Tids
     /\ srv[t.peer] < Blocks(t.peer)
     /\ t.bitmap.first_gap % Modulus = srv[t.peer] % Modulus
     /\ srv' = [srv EXCEPT ![t.peer] = @ + 1]

\* What the client transmitted is lost or is answered.
Transmit(t) ==
  /\ tftp' = [t EXCEPT !.tx = "none"]
  /\ \/ srv' = srv
     \/ t.status = "run" /\ Answers(t)

-----------------------------------------------------------------------------
flags_of(scheme) ==
  CASE scheme = "tftp"     -> {"RRQ_SIZES"}
    [] scheme = "tftpsize" -> {"RRQ_SIZES", "SIZEONLY"}
    [] scheme = "tftm"     -> {"RRQ_SIZES", "RRQ_MULTICAST"}
    [] scheme = "mtftp"    -> {"MTFTP_RECOVERY"}

tftp_core_open(scheme) ==
  [flags |-> flags_of(scheme), mc |-> scheme = "mtftp", sock |-> "resolving", peer |-> "none",
   blksize |-> DefaultBlk, tsize |-> 0, filesize |-> 0, mtftp_timeouts |-> 0,
   bitmap |-> EmptyBitmap, timer |-> start_timer_nodelay(NewTimer),
   status |-> "run", tx |-> "none", image |-> {}, wild |-> FALSE]

NoAnswer == [s \in Sources |-> -1]

\* The block numbers of a file are unambiguous: it has fewer blocks than a block
\* number has values, or its blocks come one after the other.
Numbered(scheme) ==
  \/ scheme \in {"tftp", "tftpsize"}
  \/ size \div DefaultBlk + 1 < Modulus /\ size \div ServerBlk + 1 < Modulus

Init ==
  /\ size \in FileSizes
  /\ \E scheme \in Schemes : Numbered(scheme) /\ tftp = tftp_core_open(scheme)
  /\ opts \in OptionSets /\ srv = NoAnswer /\ budget = MaxPackets

\* A new socket has a new port: what is under way to the old one is lost.
Expires ==
  /\ tftp.status = "run" /\ tftp.timer.running
  /\ tftp.sock = "resolving" => tftp.timer.count < MaxPolls
  /\ \E reopens \in BOOLEAN :
       LET t == tftp_timer_expired(tftp, reopens)
       IN IF t.sock = "resolving"
          THEN tftp' = [t EXCEPT !.tx = "none"] /\ srv' = NoAnswer
          ELSE Transmit(t)
  /\ UNCHANGED <<size, opts, budget>>

\* The name is resolved; or it cannot be, which the request is not told.
Resolves ==
  /\ tftp.status = "run" /\ tftp.sock = "resolving"
  /\ \E sock \in {"open", "closed"} : tftp' = [tftp EXCEPT !.sock = sock]
  /\ UNCHANGED <<size, opts, srv, budget>>

ReceivesUnicast ==
  /\ tftp.status = "run" /\ tftp.sock = "open" /\ budget > 0
  /\ \E p \in UnicastPackets, ok \in BOOLEAN : Transmit(tftp_socket_deliver_iob(tftp, p, ok))
  /\ budget' = budget - 1 /\ UNCHANGED <<size, opts>>

ReceivesMulticast ==
  /\ tftp.status = "run" /\ tftp.mc /\ budget > 0
  /\ \E p \in MulticastPackets, ok \in BOOLEAN :
       Transmit(tftp_mc_socket_deliver_iob(tftp, p, ok))
  /\ budget' = budget - 1 /\ UNCHANGED <<size, opts>>

\* The recipient gives up.
tftp_xfer_close ==
  /\ tftp.status = "run"
  /\ tftp' = tftp_done(tftp, "failed")
  /\ UNCHANGED <<size, opts, srv, budget>>

Next == Expires \/ Resolves \/ ReceivesUnicast \/ ReceivesMulticast \/ tftp_xfer_close

Spec == Init /\ [][Next]_vars /\ WF_vars(Expires) /\ WF_vars(Resolves)

-----------------------------------------------------------------------------
\* A block among the last of a period of block numbers is received once more
\* when the first missing block is already counted in the next period, and is
\* put a period too far (tftp_rx_data adds one to the first gap).
Repeated(e) ==
  LET block == e.from \div tftp.blksize
      last == (block \div Modulus) * Modulus + Modulus - 2
  IN /\ block \in last - MaxLate .. last /\ (last + 1) * tftp.blksize <= size
     /\ e.at = e.from + Modulus * tftp.blksize
     /\ [e EXCEPT !.at = e.from] \in tftp.image

\* Every block is put where it belongs in the file, whichever packets are lost,
\* repeated or reordered and however often the client starts again, until a
\* block is repeated at the end of a period: tftp_rx_data works the number out
\* from the first gap of the bitmap.
DataInPlace == (\E e \in tftp.image : Repeated(e)) \/ (\A e \in tftp.image : e.at = e.from)

\* A request that goes on has its timer running, and one that has ended has not:
\* no path through the handlers loses the wake-up, and none leaves the timer of
\* a freed request in the list of timers (tftp_send_packet, tftp_done).
TimerWhileRunning == tftp.timer.running <=> tftp.status = "run"

\* bitmap_set is only called for a bit of the bitmap, except on a bitmap that
\* has no words at all (tftp_presize before bitmap_set in tftp_rx_data).
BitmapInRange == tftp.wild => tftp.bitmap.length = 0

\* The parts of the file that the recipient holds.
Held == {u \in 0 .. size - 1 :
           \E e \in tftp.image : e.at = e.from /\ e.at <= u /\ u < e.at + e.len}

\* Complete is promised at the end of a download that kept a bitmap and in which
\* no block was repeated at the end of a period.
Outcome ==
  CASE tftp.status = "run" -> "none"
    [] tftp.status = "ok" /\ "SIZEONLY" \notin tftp.flags /\ tftp.bitmap.length > 0
         /\ ~(\E e \in tftp.image : Repeated(e)) -> "complete"
    [] OTHER -> "ended"

D == INSTANCE Download WITH units <- 0 .. size - 1, have <- Held, outcome <- Outcome

\* The client implements a download: it reports the file complete only when
\* every block is there, and it ends, also when the server falls silent
\* (tftp_rx_data, tftp_timer_expired).
Downloads == D!Spec

\* tftp.c:864: "If all blocks have been received, finish."
WholeWhenDone ==
  tftp.status = "ok" /\ "SIZEONLY" \notin tftp.flags => Held = 0 .. size - 1
=============================================================================

----------------------------- MODULE TftpProofs -----------------------------
(***************************************************************************)
(* Proofs about the TFTP client, for every file, block size, number of     *)
(* retries and behaviour of server and network of module Tftp.             *)
(***************************************************************************)
EXTENDS Tftp, WellFoundedInduction, TLAPS

Flags == {"RRQ_SIZES", "SIZEONLY", "RRQ_MULTICAST", "MTFTP_RECOVERY", "SEND_ACK"}
Extents == [at : Nat, len : Nat, from : Nat]
Bitmaps == [bits : SUBSET Nat, length : Nat, first_gap : Nat]

Requests ==
  [flags : SUBSET Flags, mc : BOOLEAN, sock : {"resolving", "open", "closed"},
   peer : Sources \cup {"none"}, blksize : Nat \ {0}, tsize : Nat, filesize : Nat,
   mtftp_timeouts : Nat, bitmap : Bitmaps, timer : Timers, status : {"run", "ok", "failed"},
   tx : {"none", "rrq", "ack"}, image : SUBSET Extents, wild : BOOLEAN]

\* Bits are set below the length only, and the first gap is the first that is not.
Shape(bitmap) ==
  /\ bitmap.bits \subseteq 0 .. bitmap.length - 1
  /\ bitmap.first_gap <= bitmap.length
  /\ 0 .. bitmap.first_gap - 1 \subseteq bitmap.bits /\ bitmap.first_gap \notin bitmap.bits

HasGap(bitmap) == bitmap.length = 0 \/ bitmap.first_gap < bitmap.length

\* The bitmap fits the part of the file that is known, or is not allocated.
Sized(t) ==
  /\ t \in Requests /\ Shape(t.bitmap)
  /\ t.bitmap.length = 0 \/ t.bitmap.length = num_blocks(t.filesize, t.blksize)

\* A request that goes on has its timer running, waits for some block and has
\* never set a bit beyond the bitmap.
Runs(t) == t.status = "run" /\ t.timer.running /\ HasGap(t.bitmap) /\ ~t.wild

Ended(t) == t.status # "run" /\ ~t.timer.running /\ (t.wild => t.bitmap.length = 0)

Good(t) == Sized(t) /\ (Runs(t) \/ Ended(t))

\* The block size of a plain transfer.
PlainBlk == IF "blksize" \in opts THEN ServerBlk ELSE DefaultBlk

\* Nothing was received, and nothing of the file can be, while the client does not
\* know the block size; multicast and plain transfers do not mix.
Settled(t) ==
  IF "MTFTP_RECOVERY" \in t.flags
  THEN t.blksize = DefaultBlk /\ t.peer \notin Tids /\ \A s \in Tids : srv[s] = -1
  ELSE /\ srv["mtftpd"] = -1
       /\ \/ t.blksize = PlainBlk
          \/ /\ t.peer = "none" /\ ~t.mc /\ t.bitmap.length = 0
             /\ "blksize" \in opts /\ \A s \in Tids : srv[s] <= 0

Server ==
  /\ size \in FileSizes /\ opts \in OptionSets /\ budget \in Nat
  /\ srv \in [Sources -> Int] /\ \A s \in Sources : srv[s] <= Blocks(s)

IInv == Good(tftp) /\ Server /\ (tftp.status = "run" => Settled(tftp)) /\ tftp.tx = "none"

-----------------------------------------------------------------------------
(* Arithmetic: products and quotients. *)

LEMMA MulMono ==
  ASSUME NEW a \in Nat, NEW b \in Nat, NEW n \in Nat, a <= b
  PROVE  a * n <= b * n
  OBVIOUS

LEMMA DivFacts ==
  ASSUME NEW a \in Nat, NEW n \in Nat \ {0}
  PROVE  a \div n \in Nat /\ (a \div n) * n <= a /\ a < (a \div n) * n + n
  OBVIOUS

LEMMA DivAtLeast ==
  ASSUME NEW a \in Nat, NEW n \in Nat \ {0}, NEW k \in Nat, k * n <= a
  PROVE  k <= a \div n
<1>1. SUFFICES ASSUME (a \div n) + 1 <= k PROVE FALSE
  BY DivFacts
<1>2. ((a \div n) + 1) * n <= k * n
  BY <1>1, MulMono, DivFacts
<1>3. ((a \div n) + 1) * n = (a \div n) * n + n
  BY DivFacts
<1>4. QED
  BY <1>2, <1>3, DivFacts

LEMMA DivMono ==
  ASSUME NEW a \in Nat, NEW b \in Nat, NEW n \in Nat \ {0}, a <= b
  PROVE  a \div n <= b \div n
  BY DivFacts, DivAtLeast

LEMMA ModFacts ==
  ASSUME NEW a \in Nat, NEW n \in Nat \ {0}
  PROVE  a % n \in Nat /\ a = (a \div n) * n + (a % n)
  OBVIOUS

\* The period of block numbers that a lies in.
LEMMA DivUnique ==
  ASSUME NEW a \in Nat, NEW n \in Nat \ {0}, NEW q \in Nat, q * n <= a, a < q * n + n
  PROVE  a \div n = q /\ a % n = a - q * n
<1> DEFINE d == a \div n
           r == a % n
<1>1. d \in Nat /\ d * n <= a /\ a = d * n + r /\ r \in Nat
  BY DivFacts, ModFacts, Zenon
<1>2. q <= d
  BY DivAtLeast, Zenon
<1> HIDE DEF d, r
<1>3. d <= q
  <2>1. SUFFICES ASSUME q + 1 <= d PROVE FALSE
    BY <1>1
  <2>2. (q + 1) * n <= d * n
    BY <1>1, <2>1, MulMono
  <2>3. (q + 1) * n = q * n + n /\ q * n \in Nat /\ d * n \in Nat
    BY <1>1
  <2>4. QED
    BY <1>1, <2>2, <2>3
<1>4. d = q /\ q * n \in Nat
  BY <1>1, <1>2, <1>3
<1>5. r = a - q * n
  BY <1>1, <1>4
<1>6. QED
  BY <1>4, <1>5, Zenon DEF d, r

\* Two numbers that follow one another differ modulo n.
LEMMA ModNext ==
  ASSUME NEW a \in Nat, NEW n \in Nat \ {0, 1}
  PROVE  (a + 1) % n # a % n
<1> DEFINE d == a \div n
           r == a % n
<1>1. d \in Nat /\ r \in Nat /\ a = d * n + r /\ a < d * n + n /\ d * n \in Nat
  BY DivFacts, ModFacts
<1> HIDE DEF d, r
<1>2. CASE a + 1 < d * n + n
  <2>1. a + 1 \in Nat /\ d * n <= a + 1 /\ n \in Nat \ {0}
    BY <1>1
  <2>2. (a + 1) % n = (a + 1) - d * n
    BY <1>1, <1>2, <2>1, DivUnique, Zenon
  <2>3. (a + 1) - d * n # r
    BY <1>1
  <2>4. QED
    BY <2>2, <2>3, Zenon DEF r
<1>3. CASE a + 1 = d * n + n
  <2>1. /\ d + 1 \in Nat /\ n \in Nat \ {0} /\ a + 1 \in Nat
        /\ (d + 1) * n <= a + 1 /\ a + 1 < (d + 1) * n + n
    BY <1>1, <1>3
  <2>2. (a + 1) % n = (a + 1) - (d + 1) * n
    BY <2>1, DivUnique, Zenon
  <2>3. (a + 1) - (d + 1) * n = 0 /\ r # 0
    BY <1>1, <1>3
  <2>4. QED
    BY <2>2, <2>3, Zenon DEF r
<1>4. QED
  BY <1>1, <1>2, <1>3

\* The block that a number stands for, when block g is the first one missing, at
\* most block g has been sent and a packet is overtaken by fewer than a period.
LEMMA Period ==
  ASSUME NEW g \in Nat, NEW n \in Nat \ {0, 1}, NEW late \in Nat, late + 1 < n,
         NEW i \in Nat \ {0}, i <= g + 1, i + late >= g
  PROVE  LET base == ((g + 1) \div n) * n
             last == ((i - 1) \div n) * n + n - 2
         IN \/ base + (i % n) = i
            \/ /\ base + (i % n) = i + n
               /\ i - 1 >= last - late /\ i - 1 <= last /\ last + 1 <= g /\ last \in Nat
<1> DEFINE c == (g + 1) \div n
<1>1. c \in Nat /\ c * n \in Nat /\ c * n <= g + 1 /\ g + 1 < c * n + n
  BY DivFacts
<1> HIDE DEF c
<1>2. CASE c * n <= i
  <2>1. i \in Nat /\ n \in Nat \ {0} /\ i < c * n + n
    BY <1>1
  <2>2. i % n = i - c * n
    BY <1>1, <1>2, <2>1, DivUnique, Zenon
  <2>3. c * n + (i - c * n) = i
    BY <1>1
  <2>4. QED
    BY <2>2, <2>3, Zenon DEF c
<1>3. CASE i < c * n
  <2>1. c # 0
    BY <1>1, <1>3
  <2> DEFINE b == c - 1
  <2>2. b \in Nat /\ b * n = c * n - n /\ b * n \in Nat
    BY <1>1, <2>1
  <2> HIDE DEF b
  <2>3. i - 1 \in Nat /\ b * n <= i - 1 /\ i - 1 < b * n + n /\ b * n <= i /\ i < b * n + n
    BY <1>1, <1>3, <2>2
  <2>4. i % n = i - b * n /\ (i - 1) \div n = b
    <3>1. i \in Nat /\ n \in Nat \ {0}
      OBVIOUS
    <3>2. QED
      BY <2>2, <2>3, <3>1, DivUnique, Zenon
  <2>5. /\ c * n + (i - b * n) = i + n
        /\ i - 1 >= (b * n + n - 2) - late /\ i - 1 <= b * n + n - 2
        /\ (b * n + n - 2) + 1 <= g /\ b * n + n - 2 \in Nat
    BY <1>1, <1>3, <2>2
  <2>6. QED
    BY <2>4, <2>5, Zenon DEF c
<1>4. QED
  BY <1>1, <1>2, <1>3

\* Every set of natural numbers that is not empty has a least element.
LEMMA LeastNat ==
  ASSUME NEW S \in SUBSET Nat, S # {}
  PROVE  \E g \in S : \A h \in S : g <= h
<1>1. IsWellFoundedOn(OpToRel(<, Nat), Nat)
  BY NatLessThanWellFounded, Zenon
<1>2. PICK g \in S : \A y \in S : <<y, g>> \notin OpToRel(<, Nat)
  BY <1>1, WFMin, Zenon
<1>3. \A y \in S : ~(y < g)
  BY <1>2, Zenon DEF OpToRel
<1>4. QED
  BY <1>3

-----------------------------------------------------------------------------
(* The timer and the bitmap. *)

LEMMA TimerFacts ==
  ASSUME NEW timer \in Timers
  PROVE  /\ start_timer(timer) \in Timers /\ start_timer(timer).running
         /\ start_timer_nodelay(timer) \in Timers /\ start_timer_nodelay(timer).running
         /\ stop_timer(timer, 0) \in Timers /\ ~stop_timer(timer, 0).running
         /\ timer_expired(timer) \in Timers /\ ~timer_expired(timer).running
<1> USE TimeoutAssumption DEF Timers
<1>1. start_timer(timer) \in Timers /\ start_timer(timer).running
  BY Zenon DEF start_timer
<1>2. start_timer_nodelay(timer) \in Timers /\ start_timer_nodelay(timer).running
  BY <1>1, Zenon DEF start_timer_nodelay
<1>3. stop_timer(timer, 0) \in Timers /\ ~stop_timer(timer, 0).running
  <2> DEFINE rest == timer.timeout - timer.timeout \div 8 + 0 \div 2
  <2>1. rest \in Nat /\ (timer.count > 0 => timer.count - 1 \in Nat)
    OBVIOUS
  <2>2. \/ stop_timer(timer, 0) = timer /\ ~timer.running
        \/ stop_timer(timer, 0) = [timer EXCEPT !.running = FALSE, !.count = timer.count - 1]
             /\ timer.count > 0
        \/ stop_timer(timer, 0) = [timer EXCEPT !.running = FALSE, !.timeout = rest]
    BY Zenon DEF stop_timer
  <2> HIDE DEF rest
  <2>3. QED
    BY <2>1, <2>2, Zenon
<1>4. timer_expired(timer) \in Timers /\ ~timer_expired(timer).running
  BY DEF timer_expired
<1>5. QED
  BY <1>1, <1>2, <1>3, <1>4, Zenon

\* bitmap_set sets the bit if it is one of the bitmap's and finds the new gap.
LEMMA BitmapSet ==
  ASSUME NEW bitmap \in Bitmaps, Shape(bitmap), NEW bit \in Nat
  PROVE  LET r == bitmap_set(bitmap, bit)
         IN /\ r \in Bitmaps /\ Shape(r) /\ r.length = bitmap.length
            /\ r.bits = bitmap.bits \cup ({bit} \cap 0 .. bitmap.length - 1)
<1> DEFINE bits == bitmap.bits \cup ({bit} \cap 0 .. bitmap.length - 1)
           Gaps == {g \in bitmap.first_gap .. bitmap.length : g \notin bits}
           gap == CHOOSE g \in Gaps : \A h \in Gaps : g <= h
<1>1. Gaps \in SUBSET Nat /\ bitmap.length \in Gaps
  BY DEF Bitmaps, Shape
<1>2. \E g \in Gaps : \A h \in Gaps : g <= h
  <2> HIDE DEF Gaps
  <2> QED BY <1>1, LeastNat, Zenon
<1>3. gap \in Gaps /\ \A h \in Gaps : gap <= h
  <2> HIDE DEF Gaps
  <2> QED BY <1>2, Zenon
<1> HIDE DEF gap
<1>4. bitmap_set(bitmap, bit) = [bitmap EXCEPT !.bits = bits, !.first_gap = gap]
  BY Zenon DEF bitmap_set, gap
<1>5. gap \in Nat /\ gap <= bitmap.length /\ gap \notin bits
  BY <1>1, <1>3, Zenon DEF Bitmaps
<1>6. 0 .. gap - 1 \subseteq bits
  <2> SUFFICES ASSUME NEW b \in 0 .. gap - 1 PROVE b \in bits
    BY Zenon
  <2>1. CASE b < bitmap.first_gap
    BY <2>1, <1>5 DEF Shape, Bitmaps
  <2>2. CASE b >= bitmap.first_gap
    BY <2>2, <1>3, <1>5 DEF Bitmaps
  <2>3. QED
    BY <2>1, <2>2, <1>5 DEF Bitmaps
<1>7. bits \in SUBSET Nat /\ bits \subseteq 0 .. bitmap.length - 1
  BY Zenon DEF Bitmaps, Shape
<1> HIDE DEF bits
<1>8. QED
  <2>1. bitmap_set(bitmap, bit) \in Bitmaps /\ Shape(bitmap_set(bitmap, bit))
    BY <1>4, <1>5, <1>6, <1>7, Zenon DEF Bitmaps, Shape
  <2>2. /\ bitmap_set(bitmap, bit).length = bitmap.length
        /\ bitmap_set(bitmap, bit).bits = bits
    BY <1>4, Zenon DEF Bitmaps
  <2>3. QED
    BY <2>1, <2>2, Zenon DEF bits

-----------------------------------------------------------------------------
(* The functions of tftp.c keep a request in shape. *)

\* The data of the transfer are those of t.
Kept(t, u) ==
  /\ u.blksize = t.blksize /\ u.tsize = t.tsize /\ u.filesize = t.filesize
  /\ u.bitmap = t.bitmap /\ u.image = t.image /\ u.wild = t.wild
  /\ u.peer = t.peer /\ u.flags = t.flags

LEMMA Done ==
  ASSUME NEW t, Sized(t), t.wild => t.bitmap.length = 0, NEW result \in {"ok", "failed"}
  PROVE  LET u == tftp_done(t, result)
         IN Sized(u) /\ Ended(u) /\ Kept(t, u) /\ u.status = result
<1>1. t \in Requests /\ stop_timer(t.timer, 0) \in Timers /\ ~stop_timer(t.timer, 0).running
  BY TimerFacts, Zenon DEF Sized, Requests
<1>2. tftp_done(t, result) \in Requests /\ Kept(t, tftp_done(t, result))
  BY <1>1, Zenon DEF tftp_done, Requests, Kept
<1>3. tftp_done(t, result).status = result /\ ~tftp_done(t, result).timer.running
  BY <1>1, Zenon DEF tftp_done, Requests
<1>4. QED
  BY <1>2, <1>3, Zenon DEF Sized, Ended, Kept

LEMMA Sent ==
  ASSUME NEW t, Sized(t), t.status = "run"
  PROVE  LET u == tftp_send_packet(t)
         IN /\ Sized(u) /\ Kept(t, u) /\ u.sock = t.sock /\ u.mc = t.mc
            /\ HasGap(t.bitmap) /\ ~t.wild => Runs(u)
            /\ u.tx = "rrq" <=> t.peer = "none"
<1> DEFINE u == tftp_send_packet(t)
<1>1. t \in Requests /\ stop_timer(t.timer, 0) \in Timers
  BY TimerFacts, Zenon DEF Sized, Requests
<1>2. /\ start_timer(stop_timer(t.timer, 0)) \in Timers
      /\ start_timer(stop_timer(t.timer, 0)).running
      /\ start_timer_nodelay(stop_timer(t.timer, 0)) \in Timers
      /\ start_timer_nodelay(stop_timer(t.timer, 0)).running
  BY <1>1, TimerFacts, Zenon
<1>3. u \in Requests /\ Kept(t, u) /\ u.sock = t.sock /\ u.mc = t.mc /\ u.status = "run"
  BY <1>1, <1>2, Zenon DEF tftp_send_packet, Requests, Kept
<1>4. u.timer.running /\ (u.tx = "rrq" <=> t.peer = "none")
  BY <1>1, <1>2, Zenon DEF tftp_send_packet, Requests
<1> HIDE DEF u
<1>5. Sized(u) /\ (HasGap(t.bitmap) /\ ~t.wild => Runs(u))
  BY <1>3, <1>4, Zenon DEF Sized, Runs, Kept
<1>6. QED
  BY <1>3, <1>4, <1>5, Zenon DEF u

\* Everything but the known size and the bitmap is that of t.
Others(t, u) ==
  /\ u.blksize = t.blksize /\ u.tsize = t.tsize /\ u.image = t.image /\ u.wild = t.wild
  /\ u.peer = t.peer /\ u.flags = t.flags /\ u.status = t.status
  /\ u.sock = t.sock /\ u.mc = t.mc

LEMMA Presized ==
  ASSUME NEW t, Sized(t), NEW n \in Nat
  PROVE  LET u == tftp_presize(t, n)
         IN /\ Sized(u)
            /\ u.filesize >= n /\ u.filesize >= t.filesize /\ u.filesize \in {t.filesize, n}
            /\ u.bitmap.bits = t.bitmap.bits /\ u.bitmap.length >= t.bitmap.length
            /\ u.bitmap.first_gap = t.bitmap.first_gap
            /\ HasGap(t.bitmap) => HasGap(u.bitmap)
            /\ Others(t, u)
<1> DEFINE u == tftp_presize(t, n)
<1>1. /\ t \in Requests /\ t.filesize \in Nat /\ t.blksize \in Nat \ {0}
      /\ t.bitmap \in Bitmaps /\ Shape(t.bitmap)
      /\ t.bitmap.length = 0 \/ t.bitmap.length = num_blocks(t.filesize, t.blksize)
  BY Zenon DEF Sized, Requests
<1>2. CASE n <= t.filesize
  <2>1. u = t
    BY <1>2, Zenon DEF tftp_presize
  <2> HIDE DEF u
  <2>2. QED
    BY <1>1, <1>2, <2>1 DEF u, Bitmaps, Others
<1>3. CASE n > t.filesize
  <2> DEFINE len == num_blocks(n, t.blksize)
             bm == [t.bitmap EXCEPT !.length = len]
  <2>1. len \in Nat \ {0} /\ len >= t.bitmap.length
    BY <1>1, <1>3, DivMono, DivFacts DEF num_blocks
  <2>2. u = [t EXCEPT !.filesize = n, !.bitmap = bm]
    BY <1>1, <1>3 DEF tftp_presize, bitmap_resize
  <2> HIDE DEF len
  <2>3. /\ bm \in Bitmaps /\ bm.length = len /\ bm.bits = t.bitmap.bits
        /\ bm.first_gap = t.bitmap.first_gap
    BY <1>1, <2>1, Zenon DEF Bitmaps
  <2>4. Shape(bm) /\ (HasGap(t.bitmap) => HasGap(bm))
    BY <1>1, <2>1, <2>3 DEF Shape, HasGap, Bitmaps
  <2> HIDE DEF bm
  <2>5. u \in Requests /\ u.filesize = n /\ u.bitmap = bm /\ Others(t, u)
    BY <1>1, <2>2, <2>3, Zenon DEF Requests, Others
  <2> HIDE DEF u
  <2>6. Sized(u)
    BY <2>3, <2>4, <2>5, Zenon DEF Sized, len, Others
  <2>7. QED
    BY <1>1, <1>3, <2>1, <2>3, <2>4, <2>5, <2>6 DEF u
<1>4. QED
  BY <1>1, <1>2, <1>3

LEMMA Reopened ==
  ASSUME NEW t, Sized(t)
  PROVE  LET u == tftp_reopen(t)
         IN /\ Sized(u) /\ u.sock = "resolving" /\ u.peer = "none" /\ u.mc = t.mc
            /\ u.flags = t.flags \ {"SEND_ACK"} /\ u.status = t.status
            /\ u.blksize = t.blksize /\ u.tsize = t.tsize /\ u.filesize = t.filesize
            /\ u.bitmap = t.bitmap /\ u.image = t.image /\ u.wild = t.wild
<1> DEFINE u == tftp_reopen(t)
<1>1. t \in Requests /\ u \in Requests
  BY Zenon DEF Sized, tftp_reopen, Requests
<1>2. /\ u.sock = "resolving" /\ u.peer = "none" /\ u.mc = t.mc
      /\ u.flags = t.flags \ {"SEND_ACK"} /\ u.status = t.status
      /\ u.blksize = t.blksize /\ u.tsize = t.tsize /\ u.filesize = t.filesize
      /\ u.bitmap = t.bitmap /\ u.image = t.image /\ u.wild = t.wild
  BY <1>1, Zenon DEF tftp_reopen, Requests
<1> HIDE DEF u
<1>3. Sized(u)
  BY <1>1, <1>2, Zenon DEF Sized
<1>4. QED
  BY <1>2, <1>3, Zenon DEF u

LEMMA FallenBack ==
  ASSUME NEW t, Sized(t)
  PROVE  LET u == tftp_fall_back(t)
         IN /\ Sized(u) /\ u.sock = "resolving" /\ u.peer = "none" /\ ~u.mc
            /\ u.flags = {"RRQ_SIZES"} /\ u.status = t.status
            /\ u.blksize = t.blksize /\ u.tsize = t.tsize /\ u.filesize = t.filesize
            /\ u.bitmap = EmptyBitmap /\ u.image = t.image /\ u.wild = t.wild
<1> DEFINE v == [t EXCEPT !.flags = {"RRQ_SIZES"}, !.mc = FALSE,
                          !.timer = start_timer_nodelay(@), !.bitmap = EmptyBitmap]
<1>1. t \in Requests /\ start_timer_nodelay(t.timer) \in Timers
  BY TimerFacts, Zenon DEF Sized, Requests
<1>2. EmptyBitmap \in Bitmaps /\ Shape(EmptyBitmap) /\ EmptyBitmap.length = 0
  BY DEF EmptyBitmap, Bitmaps, Shape
<1>3. /\ v \in Requests /\ ~v.mc /\ v.flags = {"RRQ_SIZES"} /\ v.status = t.status
      /\ v.blksize = t.blksize /\ v.tsize = t.tsize /\ v.filesize = t.filesize
      /\ v.bitmap = EmptyBitmap /\ v.image = t.image /\ v.wild = t.wild
  BY <1>1, <1>2, Zenon DEF Requests, Flags
<1>4. tftp_fall_back(t) = tftp_reopen(v)
  BY Zenon DEF tftp_fall_back
<1> HIDE DEF v
<1>5. Sized(v)
  BY <1>2, <1>3, Zenon DEF Sized
<1>6. QED
  BY <1>3, <1>4, <1>5, Reopened

\* What an expiry does: the same request again, a new socket for MTFTP, or the
\* change from MTFTP to TFTP; or it is the last one.
\* The request goes on as it was, with a new socket, or as a plain one; or it fails.
TimedOut(t, u) ==
  /\ Good(u) /\ u.status \in {"run", "failed"}
  /\ u.blksize = t.blksize /\ u.tsize = t.tsize /\ u.filesize = t.filesize
  /\ u.image = t.image
  /\ \/ u.bitmap = t.bitmap
     \/ u.bitmap = EmptyBitmap
  /\ u.status = "run" =>
       \/ Kept(t, u) /\ u.sock = t.sock /\ u.mc = t.mc /\ (u.tx = "rrq" <=> u.peer = "none")
       \/ /\ "MTFTP_RECOVERY" \in t.flags /\ u.sock = "resolving"
          /\ u.flags = t.flags \ {"SEND_ACK"} /\ u.peer = "none"
       \/ /\ "MTFTP_RECOVERY" \in t.flags /\ u.sock = "resolving" /\ u.flags = {"RRQ_SIZES"}
          /\ u.peer = "none" /\ ~u.mc /\ u.bitmap = EmptyBitmap

LEMMA TimerExpired ==
  ASSUME NEW t, Sized(t), Runs(t), NEW reopens \in BOOLEAN
  PROVE  TimedOut(t, tftp_timer_expired(t, reopens))
<1> DEFINE e == [t EXCEPT !.timer = timer_expired(@)]
           c == [e EXCEPT !.mtftp_timeouts = @ + 1]
           u == tftp_timer_expired(t, reopens)
<1>1. t \in Requests /\ timer_expired(t.timer) \in Timers
  BY TimerFacts, Zenon DEF Sized, Requests
<1>2. /\ e \in Requests /\ Kept(t, e) /\ e.sock = t.sock /\ e.mc = t.mc /\ e.status = t.status
      /\ c \in Requests /\ Kept(t, c) /\ c.sock = t.sock /\ c.mc = t.mc /\ c.status = t.status
  <2>1. e \in Requests /\ Kept(t, e) /\ e.sock = t.sock /\ e.mc = t.mc /\ e.status = t.status
    BY <1>1, Zenon DEF Requests, Kept
  <2>2. e.mtftp_timeouts + 1 \in Nat
    BY <2>1 DEF Requests
  <2> HIDE DEF e
  <2>3. c \in Requests /\ Kept(e, c) /\ c.sock = e.sock /\ c.mc = e.mc /\ c.status = e.status
    BY <2>1, <2>2, Zenon DEF Requests, Kept
  <2>4. QED
    BY <2>1, <2>3, Zenon DEF Kept
<1>3. \/ u = tftp_send_packet(tftp_reopen(e)) /\ "MTFTP_RECOVERY" \in e.flags
      \/ u = tftp_done(tftp_reopen(e), "failed")
      \/ u = tftp_send_packet(c)
      \/ u = tftp_send_packet(tftp_fall_back(c)) /\ "MTFTP_RECOVERY" \in e.flags
      \/ u = tftp_done(tftp_fall_back(c), "failed")
      \/ u = tftp_done(e, "failed")
      \/ u = tftp_send_packet(e)
  BY Zenon DEF tftp_timer_expired
<1> SUFFICES TimedOut(t, u)
  BY Zenon
<1> HIDE DEF e, c, u
<1>4. Sized(e) /\ Sized(c) /\ ~e.wild /\ ~c.wild /\ e.status = "run" /\ c.status = "run"
      /\ HasGap(e.bitmap) /\ HasGap(c.bitmap)
  BY <1>2, Zenon DEF Sized, Kept, Runs
<1>5. HasGap(EmptyBitmap)
  BY Zenon DEF HasGap, EmptyBitmap
<1>6. CASE u = tftp_send_packet(tftp_reopen(e)) /\ "MTFTP_RECOVERY" \in e.flags
  <2>1. Sized(tftp_reopen(e)) /\ ~tftp_reopen(e).wild /\ tftp_reopen(e).status = "run"
        /\ HasGap(tftp_reopen(e).bitmap)
    BY <1>4, Reopened, Zenon
  <2>2. Sized(u) /\ Runs(u) /\ Kept(tftp_reopen(e), u) /\ u.sock = tftp_reopen(e).sock
    BY <2>1, <1>6, Sent, Zenon
  <2>3. /\ Kept(t, e) /\ "MTFTP_RECOVERY" \in t.flags /\ u.sock = "resolving" /\ u.peer = "none"
        /\ u.flags = t.flags \ {"SEND_ACK"} /\ u.blksize = t.blksize /\ u.tsize = t.tsize
        /\ u.filesize = t.filesize /\ u.bitmap = t.bitmap /\ u.image = t.image
    BY <1>2, <1>4, <1>6, <2>2, Reopened DEF Kept
  <2>4. QED
    BY <2>2, <2>3, Zenon DEF Good, Runs, TimedOut
<1>7. CASE u = tftp_done(tftp_reopen(e), "failed")
  BY <1>2, <1>4, <1>7, Done, Reopened DEF Good, Kept, Ended, TimedOut
<1>8. CASE u = tftp_send_packet(c)
  <2>1. Sized(u) /\ Runs(u) /\ Kept(c, u) /\ u.sock = c.sock /\ u.mc = c.mc
        /\ (u.tx = "rrq" <=> c.peer = "none")
    BY <1>4, <1>8, Sent, Zenon
  <2>2. QED
    BY <1>2, <2>1, Zenon DEF Good, Runs, Kept, TimedOut
<1>9. CASE u = tftp_send_packet(tftp_fall_back(c)) /\ "MTFTP_RECOVERY" \in e.flags
  <2>1. Sized(tftp_fall_back(c)) /\ ~tftp_fall_back(c).wild /\ tftp_fall_back(c).status = "run"
        /\ HasGap(tftp_fall_back(c).bitmap)
    BY <1>4, <1>5, FallenBack, Zenon
  <2>2. Sized(u) /\ Runs(u) /\ Kept(tftp_fall_back(c), u) /\ u.sock = tftp_fall_back(c).sock
        /\ u.mc = tftp_fall_back(c).mc
    BY <2>1, <1>9, Sent, Zenon
  <2>3. /\ "MTFTP_RECOVERY" \in t.flags /\ u.sock = "resolving" /\ u.peer = "none" /\ ~u.mc
        /\ u.flags = {"RRQ_SIZES"} /\ u.blksize = t.blksize /\ u.tsize = t.tsize
        /\ u.filesize = t.filesize /\ u.bitmap = EmptyBitmap /\ u.image = t.image
    BY <1>2, <1>4, <1>9, <2>2, FallenBack DEF Kept
  <2>4. QED
    BY <2>2, <2>3, Zenon DEF Good, Runs, TimedOut
<1>10. CASE u = tftp_done(tftp_fall_back(c), "failed")
  BY <1>2, <1>4, <1>10, Done, FallenBack DEF Good, Kept, Ended, TimedOut
<1>11. CASE u = tftp_done(e, "failed")
  BY <1>2, <1>4, <1>11, Done DEF Good, Kept, Ended, TimedOut
<1>12. CASE u = tftp_send_packet(e)
  <2>1. Sized(u) /\ Runs(u) /\ Kept(e, u) /\ u.sock = e.sock /\ u.mc = e.mc
        /\ (u.tx = "rrq" <=> e.peer = "none")
    BY <1>4, <1>12, Sent, Zenon
  <2>2. QED
    BY <1>2, <2>1, Zenon DEF Good, Runs, Kept, TimedOut
<1>13. QED
  BY <1>3, <1>6, <1>7, <1>8, <1>9, <1>10, <1>11, <1>12, Zenon

\* The options are taken over; no block is.
OackTaken(t, p, u) ==
  /\ Good(u) /\ u.image = t.image /\ u.bitmap.bits = t.bitmap.bits
  /\ u.bitmap.first_gap = t.bitmap.first_gap
  /\ u.tsize \in {t.tsize, size}
  /\ u.filesize \in {t.filesize, u.tsize} /\ u.filesize >= t.filesize
  /\ u.blksize = IF "blksize" \in opts THEN ServerBlk ELSE t.blksize
  /\ u.peer = t.peer /\ u.flags \subseteq t.flags
  /\ "MTFTP_RECOVERY" \in u.flags <=> "MTFTP_RECOVERY" \in t.flags
  /\ u.status = "ok" => "SIZEONLY" \in u.flags
  /\ u.status = "run" => (u.tx = "rrq" <=> u.peer = "none") /\ u.sock = t.sock
  /\ p.mcast = "absent" => u.flags = t.flags /\ (u.status = "run" => u.mc = t.mc)

LEMMA RxOack ==
  ASSUME NEW t, Sized(t), Runs(t), NEW p, NEW ok \in BOOLEAN, size \in Nat,
         t.bitmap.length = 0 \/ "blksize" \notin opts \/ t.blksize = ServerBlk
  PROVE  OackTaken(t, p, tftp_rx_oack(t, p, ok))
<1> DEFINE u == tftp_rx_oack(t, p, ok)
           t1 == [t EXCEPT !.blksize = IF "blksize" \in opts THEN ServerBlk ELSE @,
                           !.tsize = IF "tsize" \in opts THEN size ELSE @]
           t2 == IF p.mcast = "absent" THEN t1 ELSE tftp_process_multicast(t1, p.mcast)
           t3 == IF t2.tsize # 0 THEN tftp_presize(t2, t2.tsize) ELSE t2
<1>1. t \in Requests /\ t.blksize \in Nat \ {0} /\ t.tsize \in Nat
  BY Zenon DEF Sized, Requests
<1>2. /\ t1 \in Requests
      /\ t1.blksize = IF "blksize" \in opts THEN ServerBlk ELSE t.blksize
      /\ t1.tsize \in {t.tsize, size} /\ t1.filesize = t.filesize /\ t1.bitmap = t.bitmap
      /\ t1.image = t.image /\ t1.wild = t.wild /\ t1.peer = t.peer /\ t1.flags = t.flags
      /\ t1.status = t.status /\ t1.sock = t.sock /\ t1.mc = t.mc
  BY <1>1, TftpAssumption, Zenon DEF Requests
<1> HIDE DEF t1
<1>3. Sized(t1)
  BY <1>2, Zenon DEF Sized
<1>4. /\ t2 \in Requests /\ t2.blksize = t1.blksize /\ t2.tsize = t1.tsize
      /\ t2.filesize = t1.filesize /\ t2.bitmap = t1.bitmap /\ t2.image = t1.image
      /\ t2.wild = t1.wild /\ t2.peer = t1.peer /\ t2.status = t1.status
      /\ t2.flags \subseteq t1.flags /\ t2.sock = t1.sock
      /\ p.mcast = "absent" => t2.flags = t1.flags /\ t2.mc = t1.mc
      /\ "MTFTP_RECOVERY" \in t2.flags <=> "MTFTP_RECOVERY" \in t1.flags
  BY <1>2, Zenon DEF tftp_process_multicast, Requests
<1> HIDE DEF t2
<1>5. Sized(t2) /\ t2.tsize \in Nat
  BY <1>3, <1>4, Zenon DEF Sized, Requests
<1>6. /\ Sized(t3) /\ t3.blksize = t2.blksize /\ t3.tsize = t2.tsize
      /\ t3.filesize \in {t2.filesize, t2.tsize} /\ t3.filesize >= t2.filesize
      /\ t3.bitmap.bits = t2.bitmap.bits /\ (HasGap(t2.bitmap) => HasGap(t3.bitmap))
      /\ t3.bitmap.first_gap = t2.bitmap.first_gap /\ t3.sock = t2.sock /\ t3.mc = t2.mc
      /\ t3.image = t2.image /\ t3.wild = t2.wild /\ t3.peer = t2.peer
      /\ t3.status = t2.status /\ t3.flags = t2.flags
  <2>1. CASE t2.tsize = 0
    BY <2>1, <1>5 DEF Sized, Requests
  <2>2. CASE t2.tsize # 0
    <3>1. t3 = tftp_presize(t2, t2.tsize)
      BY <2>2, Zenon
    <3> HIDE DEF t3
    <3>2. /\ Sized(t3) /\ Others(t2, t3) /\ t3.bitmap.bits = t2.bitmap.bits
          /\ t3.bitmap.first_gap = t2.bitmap.first_gap
          /\ t3.filesize \in {t2.filesize, t2.tsize} /\ t3.filesize >= t2.filesize
          /\ HasGap(t2.bitmap) => HasGap(t3.bitmap)
      BY <1>5, <3>1, Presized, Zenon
    <3>3. QED
      BY <3>2, Zenon DEF Others
  <2>3. QED
    BY <2>1, <2>2, Zenon
<1> HIDE DEF t3
<1>7. ~t2.wild /\ ~t3.wild /\ t3.status = "run" /\ HasGap(t3.bitmap)
  BY <1>2, <1>4, <1>6, Zenon DEF Runs
<1>8. \/ u = tftp_done(t2, "failed")
      \/ u = tftp_done(t3, "ok") /\ "SIZEONLY" \in t3.flags
      \/ u = tftp_send_packet(t3)
  BY Zenon DEF tftp_rx_oack, t1, t2, t3
<1> SUFFICES OackTaken(t, p, u)
  BY Zenon
<1> HIDE DEF u
<1>9. CASE u = tftp_done(t2, "failed")
  <2>1. Sized(u) /\ Ended(u) /\ Kept(t2, u) /\ u.status = "failed"
    BY <1>5, <1>7, <1>9, Done, Zenon
  <2>2. u.filesize = t.filesize /\ u.filesize \in Nat
    BY <1>2, <1>4, <2>1 DEF Sized, Requests, Kept
  <2>3. /\ u.image = t.image /\ u.bitmap.bits = t.bitmap.bits /\ u.tsize \in {t.tsize, size}
        /\ u.blksize = IF "blksize" \in opts THEN ServerBlk ELSE t.blksize
        /\ u.peer = t.peer /\ u.flags \subseteq t.flags
        /\ u.bitmap.first_gap = t.bitmap.first_gap
        /\ "MTFTP_RECOVERY" \in u.flags <=> "MTFTP_RECOVERY" \in t.flags
        /\ p.mcast = "absent" => u.flags = t.flags
    BY <1>2, <1>4, <2>1, Zenon DEF Kept
  <2>4. QED
    BY <2>1, <2>2, <2>3 DEF Good, OackTaken
<1>10. CASE u = tftp_done(t3, "ok") /\ "SIZEONLY" \in t3.flags
  <2>1. Sized(u) /\ Ended(u) /\ Kept(t3, u) /\ u.status = "ok"
    BY <1>6, <1>7, <1>10, Done, Zenon
  <2>2. u.filesize \in {t.filesize, u.tsize} /\ u.filesize >= t.filesize
    BY <1>2, <1>4, <1>6, <2>1, Zenon DEF Kept
  <2>3. /\ u.image = t.image /\ u.bitmap.bits = t.bitmap.bits /\ u.tsize \in {t.tsize, size}
        /\ u.blksize = IF "blksize" \in opts THEN ServerBlk ELSE t.blksize
        /\ u.peer = t.peer /\ u.flags \subseteq t.flags
        /\ u.bitmap.first_gap = t.bitmap.first_gap
        /\ "MTFTP_RECOVERY" \in u.flags <=> "MTFTP_RECOVERY" \in t.flags
        /\ p.mcast = "absent" => u.flags = t.flags
    BY <1>2, <1>4, <1>6, <2>1, Zenon DEF Kept
  <2>4. "SIZEONLY" \in u.flags
    BY <1>10, <2>1, Zenon DEF Kept
  <2>5. QED
    BY <2>1, <2>2, <2>3, <2>4, Zenon DEF Good, OackTaken
<1>11. CASE u = tftp_send_packet(t3)
  <2>1. /\ Sized(u) /\ Runs(u) /\ Kept(t3, u) /\ (u.tx = "rrq" <=> t3.peer = "none")
        /\ u.sock = t3.sock /\ u.mc = t3.mc
    BY <1>6, <1>7, <1>11, Sent, Zenon
  <2>2. u.filesize \in {t.filesize, u.tsize} /\ u.filesize >= t.filesize
    BY <1>2, <1>4, <1>6, <2>1, Zenon DEF Kept
  <2>3. /\ u.image = t.image /\ u.bitmap.bits = t.bitmap.bits /\ u.tsize \in {t.tsize, size}
        /\ u.blksize = IF "blksize" \in opts THEN ServerBlk ELSE t.blksize
        /\ u.peer = t.peer /\ u.flags \subseteq t.flags
        /\ u.bitmap.first_gap = t.bitmap.first_gap
        /\ "MTFTP_RECOVERY" \in u.flags <=> "MTFTP_RECOVERY" \in t.flags
        /\ p.mcast = "absent" => u.flags = t.flags
    BY <1>2, <1>4, <1>6, <2>1, Zenon DEF Kept
  <2>4. /\ u.status = "run" /\ (u.tx = "rrq" <=> u.peer = "none") /\ u.sock = t.sock
        /\ p.mcast = "absent" => u.mc = t.mc
    BY <1>2, <1>4, <1>6, <2>1, Zenon DEF Runs, Kept
  <2>5. QED
    BY <2>1, <2>2, <2>3, <2>4, Zenon DEF Good, OackTaken
<1>12. QED
  BY <1>8, <1>9, <1>10, <1>11, Zenon

\* The block a packet is taken for.
BlockOf(t, p) == block_base(t.bitmap) + (p.block % Modulus) - 1

\* A data packet ends the request with an error, or its data are put, the known
\* size grows with them and the bit is set, if the bitmap is allocated by then.
DataTaken(t, p, u) ==
  LET block == BlockOf(t, p)
      offset == block * t.blksize
  IN /\ Good(u) /\ u.peer = t.peer /\ u.flags = t.flags
     /\ u.blksize = t.blksize /\ u.tsize = t.tsize
     /\ \/ u.status = "failed" /\ Kept(t, u)
        \/ /\ block \in Nat /\ p.len <= t.blksize /\ u.status \in {"run", "ok"}
           /\ u.image = t.image \cup {[at |-> offset, len |-> p.len, from |-> p.from]}
           /\ u.filesize >= offset + p.len /\ u.filesize >= t.filesize
           /\ u.filesize \in {t.filesize, offset + p.len}
           /\ u.bitmap.bits = t.bitmap.bits \cup ({block} \cap 0 .. u.bitmap.length - 1)
           /\ u.status = "ok" => u.bitmap.first_gap = u.bitmap.length
           /\ u.bitmap.length = 0 \/ block < u.bitmap.length
           /\ u.status = "run" => /\ u.tx = "rrq" <=> u.peer = "none"
                                  /\ u.bitmap.length # 0 /\ u.sock = t.sock /\ u.mc = t.mc

LEMMA RxData ==
  ASSUME NEW t, Sized(t), Runs(t), NEW p, NEW ok \in BOOLEAN,
         p.block \in Nat, p.len \in Nat, p.from \in Nat
  PROVE  DataTaken(t, p, tftp_rx_data(t, p, ok))
<1> DEFINE number == p.block % Modulus
           base == block_base(t.bitmap)
           block == base + number - 1
           offset == block * t.blksize
           d == deliver(t, p, offset)
           t1 == tftp_presize(d, offset + p.len)
           t2 == [t1 EXCEPT !.bitmap = bitmap_set(@, block), !.wild = @ \/ block >= t1.bitmap.length]
           t3 == tftp_send_packet(t2)
           u == tftp_rx_data(t, p, ok)
<1> USE TftpAssumption
<1>1. /\ t \in Requests /\ t.blksize \in Nat \ {0} /\ t.bitmap \in Bitmaps /\ t.bitmap.first_gap \in Nat
      /\ t.bitmap.length \in Nat
  BY Zenon DEF Sized, Requests, Bitmaps
<1>2. number \in 0 .. Modulus - 1 /\ base \in Nat
  BY <1>1, DivFacts DEF block_base
<1>3. \/ u = tftp_done(t, "failed")
      \/ /\ ~(number = 0 /\ base = 0) /\ ~(p.len > t.blksize)
         /\ u = IF bitmap_full(t3.bitmap) THEN tftp_done(t3, "ok") ELSE t3
  BY Zenon DEF tftp_rx_data
<1> SUFFICES DataTaken(t, p, u)
  BY Zenon
<1> HIDE DEF u
<1>4. CASE u = tftp_done(t, "failed")
  <2>1. Sized(u) /\ Ended(u) /\ Kept(t, u) /\ u.status = "failed"
    BY <1>4, Done, Zenon DEF Runs
  <2>2. QED
    BY <2>1, Zenon DEF Good, Kept, DataTaken
<1>5. CASE /\ ~(number = 0 /\ base = 0) /\ ~(p.len > t.blksize)
           /\ u = IF bitmap_full(t3.bitmap) THEN tftp_done(t3, "ok") ELSE t3
  <2>1. block \in Nat
    BY <1>2, <1>5
  <2> HIDE DEF number, base, block
  <2>2. offset \in Nat
    BY <1>1, <2>1
  <2> HIDE DEF offset
  <2>3. /\ d \in Requests /\ d.image = t.image \cup {[at |-> offset, len |-> p.len, from |-> p.from]}
        /\ d.bitmap = t.bitmap /\ d.filesize = t.filesize /\ d.blksize = t.blksize
        /\ d.tsize = t.tsize /\ d.peer = t.peer /\ d.flags = t.flags /\ d.status = t.status
        /\ d.wild = t.wild /\ d.sock = t.sock /\ d.mc = t.mc
    BY <1>1, <2>2 DEF deliver, Requests, Extents
  <2> HIDE DEF d
  <2>4. Sized(d)
    BY <2>3, Zenon DEF Sized
  <2>5. /\ Sized(t1) /\ t1.filesize >= offset + p.len /\ t1.filesize >= d.filesize
        /\ t1.filesize \in {d.filesize, offset + p.len} /\ t1.bitmap.bits = d.bitmap.bits
        /\ HasGap(t1.bitmap) /\ Others(d, t1)
    <3>1. offset + p.len \in Nat /\ HasGap(d.bitmap)
      BY <2>2, <2>3 DEF Runs
    <3> HIDE DEF offset
    <3>2. QED
      BY <2>4, <3>1, Presized, Zenon
  <2> HIDE DEF t1
  <2>6. /\ t1 \in Requests /\ t1.bitmap \in Bitmaps /\ Shape(t1.bitmap) /\ t1.bitmap.length \in Nat
        /\ t1.filesize \in Nat
    BY <2>5, Zenon DEF Sized, Requests, Bitmaps
  <2>7. t1.bitmap.length = 0 \/ block < t1.bitmap.length
    <3>1. block * t.blksize <= t1.filesize
      BY <2>2, <2>5, <2>6 DEF offset
    <3>2. block <= t1.filesize \div t.blksize
      BY <1>1, <2>1, <2>6, <3>1, DivAtLeast, Zenon
    <3>3. QED
      BY <1>1, <2>1, <2>3, <2>5, <2>6, <3>2, DivFacts DEF Sized, Others, num_blocks
  <2> DEFINE bm == bitmap_set(t1.bitmap, block)
  <2>8. /\ bm \in Bitmaps /\ Shape(bm) /\ bm.length = t1.bitmap.length
        /\ bm.bits = t1.bitmap.bits \cup ({block} \cap 0 .. t1.bitmap.length - 1)
    BY <2>1, <2>6, BitmapSet, Zenon
  <2> HIDE DEF bm
  <2>9. /\ t2 \in Requests /\ t2.bitmap = bm /\ t2.filesize = t1.filesize
        /\ t2.wild => t1.wild \/ block >= t1.bitmap.length
        /\ t2.blksize = t1.blksize /\ t2.tsize = t1.tsize /\ t2.image = t1.image
        /\ t2.peer = t1.peer /\ t2.flags = t1.flags /\ t2.status = t1.status
        /\ t2.sock = t1.sock /\ t2.mc = t1.mc
    <3>1. (t1.wild \/ block >= t1.bitmap.length) \in BOOLEAN
      BY Zenon
    <3>2. QED
      BY <2>6, <2>8, <3>1, Zenon DEF Requests, bm
  <2> HIDE DEF t2
  <2>10. Sized(t2) /\ t2.status = "run" /\ (t2.wild => bm.length = 0)
    <3>1. ~t1.wild /\ t1.status = "run"
      BY <2>3, <2>5, Zenon DEF Others, Runs
    <3>2. t2.wild => bm.length = 0
      BY <2>1, <2>6, <2>7, <2>8, <2>9, <3>1
    <3>3. QED
      BY <2>5, <2>8, <2>9, <3>1, <3>2, Zenon DEF Sized
  <2>11. /\ Sized(t3) /\ Kept(t2, t3) /\ (HasGap(bm) /\ ~t2.wild => Runs(t3))
         /\ (t3.tx = "rrq" <=> t2.peer = "none") /\ t3.sock = t2.sock /\ t3.mc = t2.mc
    BY <2>9, <2>10, Sent, Zenon
  <2> HIDE DEF t3
  <2>12. t3.bitmap = bm /\ (t3.wild => bm.length = 0)
    BY <2>9, <2>10, <2>11, Zenon DEF Kept
  <2>13. ASSUME Good(u), Kept(t3, u), u.status \in {"run", "ok"},
                u.status = "ok" => bm.first_gap = bm.length,
                u.status = "run" => /\ u.tx = "rrq" <=> t3.peer = "none"
                                    /\ bm.length # 0 /\ u.sock = t3.sock /\ u.mc = t3.mc
         PROVE  DataTaken(t, p, u)
    <3>1. /\ u.peer = t.peer /\ u.flags = t.flags /\ u.blksize = t.blksize /\ u.tsize = t.tsize
          /\ u.image = d.image /\ u.filesize = t1.filesize /\ u.bitmap = bm
      BY <2>3, <2>5, <2>9, <2>11, <2>13 DEF Kept, Others
    <3>2. block = BlockOf(t, p)
      BY Zenon DEF BlockOf, block, base, number
    <3>3. p.len <= t.blksize
      BY <1>1, <1>5
    <3>4. u.bitmap.bits = t.bitmap.bits \cup ({block} \cap 0 .. u.bitmap.length - 1)
      BY <2>3, <2>5, <2>8, <3>1, Zenon
    <3>5. t3.peer = u.peer /\ (u.bitmap.length = 0 \/ block < u.bitmap.length)
      BY <2>7, <2>8, <2>13, <3>1, Zenon DEF Kept
    <3>6. t3.sock = t.sock /\ t3.mc = t.mc
      <4>1. t3.sock = t1.sock /\ t3.mc = t1.mc
        BY <2>9, <2>11, Zenon
      <4>2. t1.sock = d.sock /\ t1.mc = d.mc
        BY <2>5, Zenon DEF Others
      <4>3. d.sock = t.sock /\ d.mc = t.mc
        BY <2>3, Zenon
      <4>4. QED
        BY <4>1, <4>2, <4>3, Zenon
    <3>7. QED
      BY <2>1, <2>3, <2>5, <2>13, <3>1, <3>2, <3>3, <3>4, <3>5, <3>6, Zenon DEF DataTaken, offset
  <2>14. CASE bm.first_gap = bm.length
    <3>1. u = tftp_done(t3, "ok")
      BY <1>5, <2>12, <2>14, Zenon DEF bitmap_full
    <3>2. Sized(u) /\ Ended(u) /\ Kept(t3, u) /\ u.status = "ok"
      BY <2>11, <2>12, <3>1, Done, Zenon
    <3>3. QED
      BY <2>13, <2>14, <3>2, Zenon DEF Good
  <2>15. CASE bm.first_gap # bm.length
    <3>1. u = t3
      BY <1>5, <2>12, <2>15, Zenon DEF bitmap_full
    <3>2. bm.length # 0 /\ HasGap(bm)
      BY <2>8, <2>15 DEF Shape, Bitmaps, HasGap
    <3>3. Runs(t3)
      BY <2>10, <2>11, <3>2, Zenon
    <3>4. QED
      <4>1. Good(u) /\ Kept(u, u) /\ u.status = "run" /\ t3.peer = t2.peer
        BY <2>11, <3>1, <3>3, Zenon DEF Good, Runs, Kept
      <4>2. QED
        BY <2>11, <2>13, <3>1, <3>2, <4>1, Zenon
  <2>16. QED
    BY <2>14, <2>15, Zenon
<1>6. QED
  BY <1>3, <1>4, <1>5, Zenon

-----------------------------------------------------------------------------
(* The server and the network. *)

LEMMA BlocksFacts ==
  ASSUME Server, NEW s \in Sources
  PROVE  /\ Blk(s) \in Nat \ {0} /\ Blocks(s) \in Nat \ {0} /\ size \in Nat
         /\ s \in Tids => Blk(s) = PlainBlk
         /\ s = "mtftpd" => Blk(s) = DefaultBlk
  BY TftpAssumption, DivFacts DEF Server, Sources, Blk, Blocks, PlainBlk

\* What reaches the client comes from a port that answers the kind of request it
\* makes; data come in the blocks that the client reckons with.
LEMMA Packets ==
  ASSUME Server, Settled(tftp), NEW p,
         p \in UnicastPackets \/ (tftp.mc /\ p \in MulticastPackets)
  PROVE  /\ p.src \in Sources
         /\ "MTFTP_RECOVERY" \in tftp.flags <=> p.src = "mtftpd"
         /\ \/ p.kind = "error"
            \/ p.kind = "oack" /\ p.src \in Tids
            \/ /\ p.kind = "data" /\ tftp.blksize = Blk(p.src)
               /\ \E i \in 1 .. Blocks(p.src) : p = Data(p.src, i)
<1>1. /\ \A s \in Sources : srv[s] \in Int /\ srv[s] <= Blocks(s)
      /\ Sources = Tids \cup {"mtftpd"} /\ "mtftpd" \notin Tids
  BY TftpAssumption, Zenon DEF Server, Sources
<1>2. \A s \in Sources : Blocks(s) \in Nat /\ (s \in Tids => Blk(s) = PlainBlk)
                         /\ (s = "mtftpd" => Blk(s) = DefaultBlk)
  BY BlocksFacts, Zenon
<1>3. CASE p \in UnicastPackets
  <2>1. PICK s \in Sources :
          /\ srv[s] >= 0
          /\ \/ \E i \in 1 .. srv[s] : p = Data(s, i)
             \/ p = [kind |-> "error", src |-> s]
             \/ s # "mtftpd" /\ p \in OackPackets(s)
    BY <1>3, Zenon DEF UnicastPackets
  <2>2. "MTFTP_RECOVERY" \in tftp.flags <=> s = "mtftpd"
    BY <1>1, <2>1 DEF Settled
  <2>3. CASE \E i \in 1 .. srv[s] : p = Data(s, i)
    <3>1. p.src = s /\ p.kind = "data"
      BY <2>3 DEF Data
    <3>2. \E i \in 1 .. Blocks(s) : p = Data(s, i)
      BY <1>1, <1>2, <2>3
    <3>3. tftp.blksize = Blk(s)
      <4>1. srv[s] >= 1
        BY <1>1, <2>3
      <4>2. QED
        BY <1>1, <1>2, <2>2, <4>1 DEF Settled
    <3>4. QED
      BY <2>2, <3>1, <3>2, <3>3, Zenon
  <2>4. CASE p = [kind |-> "error", src |-> s]
    BY <2>2, <2>4, Zenon
  <2>5. CASE s # "mtftpd" /\ p \in OackPackets(s)
    BY <1>1, <2>2, <2>5 DEF OackPackets
  <2>6. QED
    BY <2>1, <2>3, <2>4, <2>5, Zenon
<1>4. CASE tftp.mc /\ p \in MulticastPackets
  <2>1. PICK s \in Sources :
          /\ s = "mtftpd" \/ s \in Tids
          /\ "MTFTP_RECOVERY" \in tftp.flags <=> s = "mtftpd"
          /\ \E i \in 1 .. Blocks(s) : p = Data(s, i)
    BY <1>1, <1>4, Zenon DEF MulticastPackets
  <2>2. p.src = s /\ p.kind = "data"
    BY <2>1 DEF Data
  <2>3. tftp.blksize = Blk(s)
    BY <1>1, <1>2, <1>4, <2>1, Zenon DEF Settled
  <2>4. QED
    BY <2>1, <2>2, <2>3, Zenon
<1>5. QED
  BY <1>3, <1>4, Zenon

LEMMA DataFacts ==
  ASSUME Server, NEW s \in Sources, NEW i \in 1 .. Blocks(s)
  PROVE  LET p == Data(s, i)
         IN /\ p.block = i /\ p.from = (i - 1) * Blk(s)
            /\ p.from \in Nat /\ p.len \in Nat /\ p.from + p.len <= size
            /\ p.len = IF i - 1 = size \div Blk(s) THEN size - (i - 1) * Blk(s) ELSE Blk(s)
<1> DEFINE B == Blk(s)
           q == size \div B
<1>1. B \in Nat \ {0} /\ size \in Nat
  BY BlocksFacts, Zenon
<1>2. Blocks(s) = q + 1
  BY Zenon DEF Blocks
<1> HIDE DEF B
<1>3. q \in Nat /\ q * B <= size
  BY <1>1, DivFacts, Zenon
<1> HIDE DEF q
<1>4. i - 1 \in 0 .. q /\ (i - 1) * B \in Nat
  BY <1>1, <1>2, <1>3
<1>5. CASE i - 1 = q
  BY <1>1, <1>2, <1>3, <1>4, <1>5 DEF Data, B, q
<1>6. CASE i - 1 # q
  <2>1. i <= q /\ i \in Nat
    BY <1>4, <1>6, <1>3
  <2>2. i * B <= q * B
    BY <1>1, <1>3, <2>1, MulMono, Zenon
  <2>3. (i - 1) * B + B = i * B
    BY <1>1, <2>1
  <2>4. q * B \in Nat /\ i * B \in Nat
    BY <1>1, <1>3, <2>1
  <2>5. (i - 1) * B + B <= size
    BY <1>1, <1>3, <1>4, <2>2, <2>3, <2>4
  <2>6. Data(s, i).len = B /\ Data(s, i).from = (i - 1) * B /\ Data(s, i).block = i
    BY <1>2, <1>4, <1>3, <1>6 DEF Data, B
  <2>7. QED
    BY <1>1, <1>4, <1>6, <2>5, <2>6, Zenon DEF B, q
<1>7. QED
  BY <1>5, <1>6, Zenon

-----------------------------------------------------------------------------
(* The invariant. *)

\* What the handlers leave for Transmit.
Ready(t) == Good(t) /\ (t.status = "run" => Settled(t) /\ (t.tx = "ack" => t.peer # "none"))

LEMMA Quiet ==
  ASSUME NEW t \in Requests
  PROVE  LET u == [t EXCEPT !.tx = "none"]
         IN /\ u \in Requests /\ Kept(t, u) /\ u.tx = "none" /\ u.status = t.status
            /\ u.timer = t.timer /\ u.mc = t.mc /\ u.sock = t.sock
            /\ Good(t) => Good(u)
<1> DEFINE u == [t EXCEPT !.tx = "none"]
<1>1. /\ u \in Requests /\ Kept(t, u) /\ u.tx = "none" /\ u.status = t.status
      /\ u.timer = t.timer /\ u.mc = t.mc /\ u.sock = t.sock
  BY Zenon DEF Requests, Kept
<1> HIDE DEF u
<1>2. Good(t) => Good(u)
  BY <1>1, Zenon DEF Good, Sized, Runs, Ended, Kept
<1>3. QED
  BY <1>1, <1>2, Zenon DEF u

LEMMA Answered ==
  ASSUME Server, NEW t, Settled(t), t.tx = "ack" => t.peer # "none", Answers(t)
  PROVE  /\ srv' \in [Sources -> Int] /\ \A s \in Sources : srv'[s] <= Blocks(s)
         /\ IF "MTFTP_RECOVERY" \in t.flags
            THEN \A s \in Tids : srv'[s] = -1
            ELSE /\ srv'["mtftpd"] = -1
                 /\ t.blksize = PlainBlk \/ \A s \in Tids : srv'[s] <= 0
<1>1. /\ srv \in [Sources -> Int] /\ Sources = Tids \cup {"mtftpd"} /\ "mtftpd" \notin Tids
      /\ \A s \in Sources : srv[s] \in Int /\ srv[s] <= Blocks(s)
  BY TftpAssumption, Zenon DEF Server, Sources
<1>2. \A s \in Sources : Blocks(s) \in Nat \ {0}
  BY BlocksFacts, Zenon
<1>3. CASE /\ t.tx = "rrq" /\ "MTFTP_RECOVERY" \notin t.flags
           /\ \E tid \in Tids : /\ srv[tid] = -1
                                /\ srv' = [srv EXCEPT ![tid] = IF Oacks THEN 0 ELSE 1]
  <2>1. PICK tid \in Tids : srv' = [srv EXCEPT ![tid] = IF Oacks THEN 0 ELSE 1]
    BY <1>3, Zenon
  <2>2. "blksize" \in opts => Oacks
    BY Zenon DEF Oacks
  <2>3. \A s \in Sources : srv'[s] = IF s = tid THEN IF Oacks THEN 0 ELSE 1 ELSE srv[s]
    BY <1>1, <2>1, Zenon
  <2>4. srv' \in [Sources -> Int]
    BY <1>1, <2>1
  <2>5. \A s \in Sources : srv'[s] <= Blocks(s)
    BY <1>1, <1>2, <2>3
  <2>6. srv'["mtftpd"] = -1
    BY <1>1, <1>3, <2>3, Zenon DEF Settled
  <2>7. t.blksize = PlainBlk \/ \A s \in Tids : srv'[s] <= 0
    BY <1>1, <1>3, <2>2, <2>3 DEF Settled
  <2>8. QED
    BY <1>3, <2>4, <2>5, <2>6, <2>7, Zenon
<1>4. CASE "MTFTP_RECOVERY" \in t.flags /\ srv' = [srv EXCEPT !["mtftpd"] = Blocks("mtftpd")]
  <2>1. \A s \in Sources : srv'[s] = IF s = "mtftpd" THEN Blocks(s) ELSE srv[s]
    BY <1>1, <1>4, Zenon
  <2>2. srv' \in [Sources -> Int]
    BY <1>1, <1>2, <1>4
  <2>3. QED
    BY <1>1, <1>2, <1>4, <2>1, <2>2 DEF Settled
<1>5. CASE /\ t.tx = "ack" /\ t.peer \in Tids /\ srv[t.peer] < Blocks(t.peer)
           /\ srv' = [srv EXCEPT ![t.peer] = @ + 1]
  <2>1. "MTFTP_RECOVERY" \notin t.flags
    BY <1>5, Zenon DEF Settled
  <2>2. t.blksize = PlainBlk /\ srv["mtftpd"] = -1
    BY <1>5, <2>1, Zenon DEF Settled
  <2>3. \A s \in Sources : srv'[s] = IF s = t.peer THEN srv[s] + 1 ELSE srv[s]
    BY <1>1, <1>5, Zenon
  <2>4. srv' \in [Sources -> Int]
    BY <1>1, <1>5
  <2>5. QED
    BY <1>1, <1>2, <1>5, <2>1, <2>2, <2>3, <2>4
<1>6. QED
  BY <1>3, <1>4, <1>5, Zenon DEF Answers

LEMMA Transmitted ==
  ASSUME Server, NEW t, Ready(t), Transmit(t), UNCHANGED <<size, opts>>, budget' \in Nat
  PROVE  IInv'
<1>1. /\ tftp' = [t EXCEPT !.tx = "none"] /\ size' = size /\ opts' = opts /\ t \in Requests
  BY Zenon DEF Transmit, Ready, Good, Sized
<1>2. /\ Good(tftp') /\ Kept(t, tftp') /\ tftp'.tx = "none" /\ tftp'.status = t.status
      /\ tftp'.mc = t.mc
  BY <1>1, Quiet, Zenon DEF Ready
<1>3. /\ srv' \in [Sources -> Int] /\ \A s \in Sources : srv'[s] <= Blocks(s)
      /\ t.status = "run" =>
           IF "MTFTP_RECOVERY" \in t.flags
           THEN \A s \in Tids : srv'[s] = -1
           ELSE /\ srv'["mtftpd"] = -1
                /\ t.blksize = PlainBlk \/ \A s \in Tids : srv'[s] <= 0
  <2>1. CASE srv' = srv
    BY <2>1, Zenon DEF Server, Ready, Settled
  <2>2. CASE t.status = "run" /\ Answers(t)
    BY <2>2, Answered, Zenon DEF Ready
  <2>3. QED
    BY <2>1, <2>2, Zenon DEF Transmit
<1>4. \A s \in Sources : Blocks(s)' = Blocks(s)
  BY <1>1, Zenon DEF Blocks, Blk
<1>5. Server'
  BY <1>1, <1>3, <1>4, Zenon DEF Server
<1>6. tftp'.status = "run" => Settled(tftp)'
  BY <1>1, <1>2, <1>3, Zenon DEF Ready, Settled, Kept, PlainBlk
<1>7. QED
  <2>1. Good(tftp)'
    BY <1>2, Zenon DEF Good, Sized, Runs, Ended
  <2>2. QED
    BY <1>2, <1>5, <1>6, <2>1, Zenon DEF IInv

\* A packet that the client may receive when its request is t.
Expected(t, p) ==
  /\ p.src \in Sources
  /\ "MTFTP_RECOVERY" \in t.flags <=> p.src = "mtftpd"
  /\ \/ p.kind = "error"
     \/ p.kind = "oack" /\ p.src \in Tids
     \/ /\ p.kind = "data" /\ t.blksize = Blk(p.src)
        /\ \E i \in 1 .. Blocks(p.src) : p = Data(p.src, i)

\* Only the port and the flag SEND_ACK are new.
Listening(t, k) ==
  /\ k \in Requests /\ k.blksize = t.blksize /\ k.tsize = t.tsize /\ k.filesize = t.filesize
  /\ k.bitmap = t.bitmap /\ k.image = t.image /\ k.wild = t.wild /\ k.mc = t.mc
  /\ k.status = t.status /\ k.timer = t.timer /\ k.tx = t.tx /\ k.sock = t.sock
  /\ k.flags \in {t.flags, t.flags \cup {"SEND_ACK"}}

LEMMA RxCases ==
  ASSUME NEW t \in Requests, NEW p, p.src \in Sources, NEW ok \in BOOLEAN,
         p.kind \in {"oack", "data", "error"}
  PROVE  LET u == tftp_rx(t, p, ok)
         IN \/ u = t
            \/ \E k : /\ Listening(t, k) /\ k.peer = p.src /\ k.flags = t.flags
                      /\ t.peer \in {"none", k.peer}
                      /\ \/ p.kind = "oack" /\ u = tftp_rx_oack(k, p, ok)
                         \/ p.kind = "data" /\ u = tftp_rx_data(k, p, ok)
                         \/ u = tftp_done(k, "failed")
<1> DEFINE k == IF t.peer = "none" THEN [t EXCEPT !.peer = p.src] ELSE t
           u == tftp_rx(t, p, ok)
<1>1. u = t \/ (k.peer = p.src /\ u = CASE p.kind = "oack"  -> tftp_rx_oack(k, p, ok)
                                       [] p.kind = "data"  -> tftp_rx_data(k, p, ok)
                                       [] p.kind = "error" -> tftp_done(k, "failed"))
  BY Zenon DEF tftp_rx
<1>2. Listening(t, k) /\ k.flags = t.flags /\ t.peer \in {"none", k.peer}
  BY Zenon DEF Listening, Requests
<1> HIDE DEF u, k
<1>3. \/ u = t
      \/ /\ k.peer = p.src
         /\ \/ p.kind = "oack" /\ u = tftp_rx_oack(k, p, ok)
            \/ p.kind = "data" /\ u = tftp_rx_data(k, p, ok)
            \/ u = tftp_done(k, "failed")
  BY <1>1, Zenon
<1>4. QED
  BY <1>2, <1>3, Zenon DEF u

LEMMA ListeningKeeps ==
  ASSUME NEW t, NEW k, Listening(t, k)
  PROVE  /\ Sized(t) => Sized(k)
         /\ Runs(t) => Runs(k)
         /\ "MTFTP_RECOVERY" \in k.flags <=> "MTFTP_RECOVERY" \in t.flags
  BY Zenon DEF Listening, Sized, Runs

LEMMA Received ==
  ASSUME Server, NEW t, Sized(t), Runs(t), Settled(t), t.tx = "none",
         NEW p, Expected(t, p), NEW ok \in BOOLEAN
  PROVE  Ready(tftp_rx(t, p, ok))
<1> DEFINE u == tftp_rx(t, p, ok)
<1>1. t \in Requests /\ p.src \in Sources /\ p.kind \in {"oack", "data", "error"}
  BY Zenon DEF Sized, Expected
<1>2. Sources = Tids \cup {"mtftpd"} /\ "mtftpd" \notin Tids /\ size \in Nat
  BY TftpAssumption, Zenon DEF Server, Sources
<1>3. CASE u = t
  BY <1>3, Zenon DEF Ready, Good
<1>4. ASSUME NEW k, Listening(t, k), k.peer = p.src, k.flags = t.flags,
             \/ p.kind = "oack" /\ u = tftp_rx_oack(k, p, ok)
             \/ p.kind = "data" /\ u = tftp_rx_data(k, p, ok)
             \/ u = tftp_done(k, "failed")
      PROVE  Ready(u)
  <2>1. Sized(k) /\ Runs(k)
    BY <1>4, ListeningKeeps, Zenon
  <2>2. k.peer # "none" /\ k.blksize = t.blksize /\ k.bitmap = t.bitmap
    BY <1>1, <1>2, <1>4, TftpAssumption, Zenon DEF Listening
  <2> HIDE DEF u
  <2>3. CASE p.kind = "oack" /\ u = tftp_rx_oack(k, p, ok)
    <3>1. p.src \in Tids /\ "MTFTP_RECOVERY" \notin t.flags
      BY <1>2, <2>3, Zenon DEF Expected
    <3>2. /\ srv["mtftpd"] = -1
          /\ k.bitmap.length = 0 \/ "blksize" \notin opts \/ k.blksize = ServerBlk
          /\ "blksize" \notin opts => k.blksize = PlainBlk
      BY <2>2, <3>1, Zenon DEF Settled, PlainBlk
    <3>3. /\ Good(u) /\ u.blksize = IF "blksize" \in opts THEN ServerBlk ELSE k.blksize
          /\ u.peer = k.peer
          /\ "MTFTP_RECOVERY" \in u.flags <=> "MTFTP_RECOVERY" \in k.flags
          /\ u.status = "run" => (u.tx = "rrq" <=> u.peer = "none")
      <4>1. OackTaken(k, p, u)
        BY <1>2, <2>1, <2>3, <3>2, RxOack, Zenon
      <4>2. QED
        BY <4>1, Zenon DEF OackTaken
    <3>4. u.blksize = PlainBlk
      BY <3>2, <3>3, Zenon DEF PlainBlk
    <3>5. QED
      BY <1>4, <2>2, <3>1, <3>2, <3>3, <3>4, Zenon DEF Ready, Settled
  <2>4. CASE p.kind = "data" /\ u = tftp_rx_data(k, p, ok)
    <3>1. PICK i \in 1 .. Blocks(p.src) : p = Data(p.src, i)
      BY <2>4, Zenon DEF Expected
    <3>2. t.blksize = Blk(p.src)
      BY <2>4, Zenon DEF Expected
    <3>3. p.block \in Nat /\ p.len \in Nat /\ p.from \in Nat
      <4>1. i \in Nat
        OBVIOUS
      <4>2. QED
        BY <1>1, <3>1, <4>1, DataFacts, Zenon
    <3>4. DataTaken(k, p, u)
      BY <2>1, <2>4, <3>3, RxData, Zenon
    <3>5. Good(u) /\ u.peer = k.peer /\ u.flags = k.flags /\ u.blksize = k.blksize
      BY <3>4, Zenon DEF DataTaken
    <3>6. Settled(u)
      <4>1. "MTFTP_RECOVERY" \notin t.flags => p.src \in Tids /\ t.blksize = PlainBlk
        BY <1>1, <1>2, <3>2, BlocksFacts, Zenon DEF Expected
      <4>2. "MTFTP_RECOVERY" \in t.flags => p.src = "mtftpd"
        BY Zenon DEF Expected
      <4>3. QED
        BY <1>2, <1>4, <2>2, <3>5, <4>1, <4>2, Zenon DEF Settled
    <3>7. QED
      BY <2>2, <3>5, <3>6, Zenon DEF Ready
  <2>5. CASE u = tftp_done(k, "failed")
    <3>1. Sized(u) /\ Ended(u) /\ u.status = "failed"
      BY <2>1, <2>5, Done, Zenon DEF Runs
    <3>2. QED
      BY <3>1, Zenon DEF Ready, Good
  <2>6. QED
    BY <1>4, <2>3, <2>4, <2>5, Zenon
<1>5. QED
  BY <1>1, <1>3, <1>4, RxCases, Zenon

LEMMA Opened ==
  ASSUME NEW scheme \in Schemes
  PROVE  LET t == tftp_core_open(scheme)
         IN /\ Good(t) /\ t.status = "run" /\ t.tx = "none" /\ t.peer = "none"
            /\ t.blksize = DefaultBlk /\ t.bitmap = EmptyBitmap /\ t.tsize = 0
            /\ t.filesize = 0 /\ t.image = {}
            /\ "MTFTP_RECOVERY" \notin t.flags => ~t.mc
            /\ t.flags = flags_of(scheme)
<1> DEFINE t == tftp_core_open(scheme)
<1>1. start_timer_nodelay(NewTimer) \in Timers /\ start_timer_nodelay(NewTimer).running
  <2>1. NewTimer \in Timers
    BY TimeoutAssumption, Zenon DEF NewTimer, Timers
  <2>2. QED
    BY <2>1, TimerFacts, Zenon
<1>2. flags_of(scheme) \in SUBSET Flags /\ (scheme = "mtftp" <=> "MTFTP_RECOVERY" \in flags_of(scheme))
  BY TftpAssumption, Zenon DEF flags_of, Flags
<1>3. EmptyBitmap \in Bitmaps /\ Shape(EmptyBitmap) /\ HasGap(EmptyBitmap) /\ EmptyBitmap.length = 0
  BY DEF EmptyBitmap, Bitmaps, Shape, HasGap
<1>4. DefaultBlk \in Nat \ {0}
  BY TftpAssumption, Zenon
<1>5. t \in Requests
  BY <1>1, <1>2, <1>3, <1>4, Zenon DEF tftp_core_open, Requests
<1>6. /\ t.status = "run" /\ t.tx = "none" /\ t.peer = "none" /\ t.blksize = DefaultBlk
      /\ t.bitmap = EmptyBitmap /\ t.tsize = 0 /\ t.filesize = 0 /\ t.image = {} /\ t.wild = FALSE
      /\ t.timer = start_timer_nodelay(NewTimer) /\ t.mc = (scheme = "mtftp")
      /\ t.flags = flags_of(scheme)
  BY Zenon DEF tftp_core_open
<1> HIDE DEF t
<1>7. QED
  BY <1>1, <1>2, <1>3, <1>5, <1>6, Zenon DEF Good, Sized, Runs, t

LEMMA InitIInv == Init => IInv
<1> SUFFICES ASSUME Init PROVE IInv
  BY Zenon
<1>1. PICK scheme \in Schemes : tftp = tftp_core_open(scheme)
  BY Zenon DEF Init
<1>2. /\ Good(tftp) /\ tftp.status = "run" /\ tftp.tx = "none" /\ tftp.peer = "none"
      /\ tftp.blksize = DefaultBlk /\ tftp.bitmap = EmptyBitmap
      /\ "MTFTP_RECOVERY" \notin tftp.flags => ~tftp.mc
  BY <1>1, Opened, Zenon
<1>3. /\ srv \in [Sources -> Int] /\ (\A s \in Sources : srv[s] = -1)
      /\ Sources = Tids \cup {"mtftpd"}
  BY DEF Init, NoAnswer, Sources
<1>4. Server
  <2>1. \A s \in Sources : Blk(s) \in Nat \ {0} /\ size \in Nat
    BY TftpAssumption, Zenon DEF Init, Blk
  <2>2. \A s \in Sources : Blocks(s) \in Nat
    BY <2>1, DivFacts DEF Blocks
  <2>3. QED
    BY <1>3, <2>2, TftpAssumption DEF Init, Server
<1>5. Settled(tftp)
  BY <1>2, <1>3, TftpAssumption DEF Settled, PlainBlk, EmptyBitmap
<1>6. QED
  BY <1>2, <1>4, <1>5, Zenon DEF IInv

LEMMA ExpiresIInv ==
  ASSUME IInv, Expires
  PROVE  IInv'
<1>1. Sized(tftp) /\ Runs(tftp) /\ Server /\ Settled(tftp) /\ size' = size /\ opts' = opts /\ budget' = budget
  BY Zenon DEF IInv, Expires, Good, Ended
<1>2. PICK reopens \in BOOLEAN :
        LET t == tftp_timer_expired(tftp, reopens)
        IN IF t.sock = "resolving"
           THEN tftp' = [t EXCEPT !.tx = "none"] /\ srv' = NoAnswer
           ELSE Transmit(t)
  BY Zenon DEF Expires
<1> DEFINE t == tftp_timer_expired(tftp, reopens)
<1>3. /\ Good(t) /\ t.blksize = tftp.blksize
      /\ t.status = "run" =>
           \/ Kept(tftp, t) /\ t.mc = tftp.mc /\ (t.tx = "rrq" <=> t.peer = "none")
           \/ /\ "MTFTP_RECOVERY" \in tftp.flags /\ t.sock = "resolving"
              /\ t.flags = tftp.flags \ {"SEND_ACK"} /\ t.peer = "none"
           \/ /\ "MTFTP_RECOVERY" \in tftp.flags /\ t.sock = "resolving" /\ t.flags = {"RRQ_SIZES"}
              /\ t.peer = "none" /\ ~t.mc /\ t.bitmap = EmptyBitmap
  BY <1>1, TimerExpired, Zenon DEF TimedOut
<1>4. CASE t.sock = "resolving"
  <2>1. tftp' = [t EXCEPT !.tx = "none"] /\ srv' = NoAnswer
    BY <1>2, <1>4, Zenon
  <2> HIDE DEF t
  <2>2. t \in Requests
    BY <1>3, Zenon DEF Good, Sized
  <2>3. Good(tftp') /\ Kept(t, tftp') /\ tftp'.tx = "none" /\ tftp'.status = t.status /\ tftp'.mc = t.mc
    BY <1>3, <2>1, <2>2, Quiet, Zenon
  <2>4. /\ srv' \in [Sources -> Int] /\ (\A s \in Sources : srv'[s] = -1)
        /\ Sources = Tids \cup {"mtftpd"}
    BY <2>1 DEF NoAnswer, Sources
  <2>5. \A s \in Sources : Blocks(s)' = Blocks(s) /\ Blocks(s) \in Nat
    BY <1>1, BlocksFacts, Zenon DEF Blocks, Blk
  <2>6. Server'
    BY <1>1, <2>4, <2>5 DEF Server
  <2>7. ASSUME tftp'.status = "run" PROVE Settled(tftp)'
    <3>1. CASE Kept(tftp, t) /\ t.mc = tftp.mc
      BY <1>1, <2>3, <2>4, <3>1 DEF Settled, Kept, PlainBlk
    <3>2. CASE /\ "MTFTP_RECOVERY" \in tftp.flags /\ t.flags = tftp.flags \ {"SEND_ACK"}
               /\ t.peer = "none"
      BY <1>1, <1>3, <2>3, <2>4, <3>2, TftpAssumption, Zenon DEF Settled, Kept
    <3>3. CASE /\ "MTFTP_RECOVERY" \in tftp.flags /\ t.flags = {"RRQ_SIZES"}
               /\ t.peer = "none" /\ ~t.mc /\ t.bitmap = EmptyBitmap
      <4>1. /\ tftp'.blksize = DefaultBlk /\ "MTFTP_RECOVERY" \notin tftp'.flags
            /\ tftp'.peer = "none" /\ ~tftp'.mc /\ tftp'.bitmap.length = 0
        BY <1>1, <1>3, <2>3, <3>3 DEF Settled, Kept, EmptyBitmap
      <4>2. QED
        BY <1>1, <2>4, <4>1 DEF Settled, PlainBlk
    <3>4. QED
      BY <1>3, <2>3, <2>7, <3>1, <3>2, <3>3, Zenon
  <2>8. QED
    BY <2>3, <2>6, <2>7, Zenon DEF IInv
<1>5. CASE t.sock # "resolving"
  <2>1. Transmit(t)
    BY <1>2, <1>5, Zenon
  <2>2. Ready(t)
    <3> HIDE DEF t
    <3>1. t.status = "run" => Kept(tftp, t) /\ t.mc = tftp.mc /\ (t.tx = "rrq" <=> t.peer = "none")
      BY <1>3, <1>5, Zenon
    <3>2. QED
      BY <1>1, <1>3, <3>1, Zenon DEF Ready, Settled, Kept
  <2>3. QED
    BY <1>1, <2>1, <2>2, Transmitted, Zenon DEF Server
<1>6. QED
  BY <1>4, <1>5, Zenon

LEMMA SendAckSet ==
  ASSUME NEW t \in Requests
  PROVE  LET k == [t EXCEPT !.flags = @ \cup {"SEND_ACK"}]
         IN Listening(t, k) /\ k.peer = t.peer
  BY Zenon DEF Listening, Requests, Flags

\* The request that tftp_rx is called with, from either socket.
LEMMA Delivered ==
  ASSUME NEW t, Sized(t), Runs(t), Settled(t), t.tx = "none",
         NEW p, Expected(t, p)
  PROVE  LET k == [t EXCEPT !.flags = @ \cup {"SEND_ACK"}]
         IN Listening(t, k) /\ Sized(k) /\ Runs(k) /\ Settled(k) /\ k.tx = "none" /\ Expected(k, p)
<1> DEFINE k == [t EXCEPT !.flags = @ \cup {"SEND_ACK"}]
<1>1. Listening(t, k) /\ k.peer = t.peer
  BY SendAckSet, Zenon DEF Sized
<1> HIDE DEF k
<1>2. Sized(k) /\ Runs(k) /\ ("MTFTP_RECOVERY" \in k.flags <=> "MTFTP_RECOVERY" \in t.flags)
  BY <1>1, ListeningKeeps, Zenon
<1>3. Settled(k) /\ k.tx = "none"
  BY <1>1, <1>2, Zenon DEF Settled, Listening
<1>4. Expected(k, p)
  BY <1>1, <1>2, Zenon DEF Expected, Listening
<1>5. QED
  BY <1>1, <1>2, <1>3, <1>4, Zenon DEF k

LEMMA NextIInv ==
  ASSUME IInv, [Next]_vars
  PROVE  IInv'
<1>1. CASE Expires
  BY <1>1, ExpiresIInv, Zenon
<1>2. CASE Resolves
  <2>1. PICK sock \in {"open", "closed"} : tftp' = [tftp EXCEPT !.sock = sock]
    BY <1>2, Zenon DEF Resolves
  <2>2. tftp \in Requests
    BY Zenon DEF IInv, Good, Sized
  <2>3. /\ tftp' \in Requests /\ Kept(tftp, tftp') /\ tftp'.mc = tftp.mc /\ tftp'.tx = tftp.tx
        /\ tftp'.status = tftp.status /\ tftp'.timer = tftp.timer
    BY <2>1, <2>2, Zenon DEF Requests, Kept
  <2>4. size' = size /\ opts' = opts /\ srv' = srv /\ budget' = budget
    BY <1>2, Zenon DEF Resolves
  <2>5. Good(tftp)'
    BY <2>3, Zenon DEF IInv, Good, Sized, Runs, Ended, Kept
  <2>6. Server' /\ (Settled(tftp) => Settled(tftp)')
    BY <2>3, <2>4, Zenon DEF IInv, Server, Settled, Kept, PlainBlk, Blocks, Blk
  <2>7. QED
    BY <2>3, <2>5, <2>6, Zenon DEF IInv
<1>3. CASE ReceivesUnicast
  <2>1. PICK p \in UnicastPackets, ok \in BOOLEAN : Transmit(tftp_socket_deliver_iob(tftp, p, ok))
    BY <1>3, Zenon DEF ReceivesUnicast
  <2>2. /\ Sized(tftp) /\ Runs(tftp) /\ Settled(tftp) /\ Server /\ tftp.tx = "none"
        /\ UNCHANGED <<size, opts>> /\ budget' \in Nat
    <3>1. tftp.status = "run" /\ budget > 0 /\ budget' = budget - 1
          /\ UNCHANGED <<size, opts>>
      BY <1>3, Zenon DEF ReceivesUnicast
    <3>2. Good(tftp) /\ Server /\ (tftp.status = "run" => Settled(tftp)) /\ tftp.tx = "none"
      BY Zenon DEF IInv
    <3>3. budget' \in Nat
      BY <3>1, <3>2 DEF Server
    <3>4. QED
      BY <3>1, <3>2, <3>3, Zenon DEF Good, Ended
  <2>3. Expected(tftp, p)
    BY <2>1, <2>2, Packets, Zenon DEF Expected
  <2>4. Ready(tftp_socket_deliver_iob(tftp, p, ok))
    BY <2>1, <2>2, <2>3, Delivered, Received, Zenon DEF tftp_socket_deliver_iob
  <2>5. QED
    BY <2>1, <2>2, <2>4, Transmitted, Zenon
<1>4. CASE ReceivesMulticast
  <2>1. PICK p \in MulticastPackets, ok \in BOOLEAN : Transmit(tftp_mc_socket_deliver_iob(tftp, p, ok))
    BY <1>4, Zenon DEF ReceivesMulticast
  <2>2. /\ Sized(tftp) /\ Runs(tftp) /\ Settled(tftp) /\ Server /\ tftp.tx = "none" /\ tftp.mc
        /\ UNCHANGED <<size, opts>> /\ budget' \in Nat
    <3>1. tftp.status = "run" /\ budget > 0 /\ budget' = budget - 1 /\ tftp.mc
          /\ UNCHANGED <<size, opts>>
      BY <1>4, Zenon DEF ReceivesMulticast
    <3>2. Good(tftp) /\ Server /\ (tftp.status = "run" => Settled(tftp)) /\ tftp.tx = "none"
      BY Zenon DEF IInv
    <3>3. budget' \in Nat
      BY <3>1, <3>2 DEF Server
    <3>4. QED
      BY <3>1, <3>2, <3>3, Zenon DEF Good, Ended
  <2>3. Expected(tftp, p)
    BY <2>1, <2>2, Packets, Zenon DEF Expected
  <2>4. Ready(tftp_mc_socket_deliver_iob(tftp, p, ok))
    BY <2>1, <2>2, <2>3, Received, Zenon DEF tftp_mc_socket_deliver_iob
  <2>5. QED
    BY <2>1, <2>2, <2>4, Transmitted, Zenon
<1>5. CASE tftp_xfer_close
  <2>1. /\ Sized(tftp) /\ Runs(tftp) /\ tftp' = tftp_done(tftp, "failed")
        /\ size' = size /\ opts' = opts /\ srv' = srv /\ budget' = budget
    BY <1>5, Zenon DEF tftp_xfer_close, IInv, Good, Ended
  <2>2. Sized(tftp') /\ Ended(tftp') /\ tftp'.status = "failed"
    BY <2>1, Done, Zenon DEF Runs
  <2>3. tftp'.tx = tftp.tx
    BY <2>1, Zenon DEF tftp_done, Sized, Requests
  <2>4. Server'
    BY <2>1, Zenon DEF IInv, Server, Blocks, Blk
  <2>5. QED
    BY <2>2, <2>3, <2>4, Zenon DEF IInv, Good, Sized, Ended
<1>6. CASE UNCHANGED vars
  BY <1>6, Zenon DEF vars, IInv, Good, Sized, Runs, Ended, Server, Settled, PlainBlk, Blocks, Blk
<1>7. QED
  BY <1>1, <1>2, <1>3, <1>4, <1>5, <1>6, Zenon DEF Next

LEMMA Invariant == Spec => []IInv
  BY InitIInv, NextIInv, PTL DEF Spec

\* A request that goes on has its timer running, and one that has ended has not:
\* tftp_send_packet and tftp_done keep it so on every path through the handlers.
THEOREM TimerSafe == Spec => []TimerWhileRunning
<1>1. IInv => TimerWhileRunning
  BY Zenon DEF IInv, Good, Runs, Ended, TimerWhileRunning
<1>2. QED
  BY <1>1, Invariant, PTL

\* bitmap_set never writes beyond a bitmap that has words, for any file, block
\* size and order of packets: tftp_presize has made room for the block.
THEOREM BitmapSafe == Spec => []BitmapInRange
<1>1. IInv => BitmapInRange
  BY Zenon DEF IInv, Good, Runs, Ended, BitmapInRange
<1>2. QED
  BY <1>1, Invariant, PTL

-----------------------------------------------------------------------------
(***************************************************************************)
(* Files whose block numbers do not wrap.                                  *)
(***************************************************************************)

\* The file has fewer blocks than a block number has values.
ShortFile == num_blocks(size, DefaultBlk) < Modulus /\ num_blocks(size, ServerBlk) < Modulus

\* Block b of a file that is cut in blocks of length blk.
Block(b, blk) ==
  [at |-> b * blk, len |-> IF b = size \div blk THEN size - b * blk ELSE blk, from |-> b * blk]

\* What was put is in place; a bit stands for a block that was put, within the
\* part of the file that is known.
Placed(t) ==
  /\ t.filesize <= size /\ t.tsize \in {0, size}
  /\ \A e \in t.image : e.at = e.from
  /\ \A b \in t.bitmap.bits :
       /\ Block(b, t.blksize) \in t.image
       /\ b * t.blksize + Block(b, t.blksize).len <= t.filesize

\* A request for data that succeeded has filled its bitmap.
Filled(t) ==
  t.status = "ok" /\ "SIZEONLY" \notin t.flags => t.bitmap.first_gap = t.bitmap.length

Short == Placed(tftp) /\ Filled(tftp)

\* Block numbers count from the beginning of the file.
LEMMA BlockNumber ==
  ASSUME ShortFile, Server, NEW t, Sized(t), HasGap(t.bitmap), Placed(t),
         NEW s \in Sources, t.blksize = Blk(s), NEW i \in 1 .. Blocks(s)
  PROVE  BlockOf(t, Data(s, i)) = i - 1
<1>1. /\ t.blksize \in Nat \ {0} /\ t.filesize \in Nat /\ size \in Nat /\ t.filesize <= size
      /\ t.bitmap.first_gap \in Nat /\ t.bitmap.length \in Nat /\ Modulus \in Nat \ {0, 1}
      /\ t.bitmap.first_gap <= t.bitmap.length
  BY BlocksFacts, TftpAssumption, Zenon DEF Sized, Requests, Bitmaps, Shape, Placed
<1>2. Blocks(s) = num_blocks(size, t.blksize) /\ Blocks(s) < Modulus /\ Blocks(s) \in Nat
  <2>1. Blocks(s) = num_blocks(size, t.blksize) /\ Blocks(s) \in Nat
    BY BlocksFacts, Zenon DEF Blocks, num_blocks
  <2>2. t.blksize \in {DefaultBlk, ServerBlk}
    BY Zenon DEF Blk
  <2>3. QED
    BY <2>1, <2>2, Zenon DEF ShortFile
<1>3. t.bitmap.first_gap + 1 < Modulus
  <2>1. t.filesize \div t.blksize <= size \div t.blksize
    BY <1>1, DivMono, Zenon
  <2>2. t.filesize \div t.blksize \in Nat /\ size \div t.blksize \in Nat
    BY <1>1, DivFacts, Zenon
  <2>3. t.bitmap.length # 0 => t.bitmap.length <= Blocks(s)
    <3>1. t.bitmap.length # 0 => t.bitmap.length = t.filesize \div t.blksize + 1
      BY Zenon DEF Sized, num_blocks
    <3>2. Blocks(s) = size \div t.blksize + 1
      BY <1>2, Zenon DEF num_blocks
    <3>3. QED
      BY <2>1, <2>2, <3>1, <3>2
  <2>4. CASE t.bitmap.length = 0
    BY <1>1, <2>4
  <2>5. CASE t.bitmap.length # 0
    <3>1. t.bitmap.first_gap < t.bitmap.length
      BY <2>5, Zenon DEF HasGap
    <3>2. QED
      BY <1>1, <1>2, <2>3, <2>5, <3>1
  <2>6. QED
    BY <2>4, <2>5, Zenon
<1>4. block_base(t.bitmap) = 0
  BY <1>1, <1>3 DEF block_base
<1>5. i % Modulus = i
  BY <1>1, <1>2
<1>6. Data(s, i).block = i
  BY Zenon DEF Data
<1>7. QED
  BY <1>2, <1>4, <1>5, <1>6 DEF BlockOf

\* A packet that is taken for the block the server sent.
LEMMA DataPlaced ==
  ASSUME Server, NEW k, Sized(k), Placed(k),
         NEW s \in Sources, k.blksize = Blk(s), NEW i \in 1 .. Blocks(s),
         BlockOf(k, Data(s, i)) = i - 1,
         NEW u, DataTaken(k, Data(s, i), u)
  PROVE  Placed(u) /\ Filled(u) /\ k.image \subseteq u.image
<1> DEFINE p == Data(s, i)
           b == i - 1
           B == k.blksize
           e == [at |-> b * B, len |-> p.len, from |-> p.from]
<1>1. u.blksize = B /\ u.tsize = k.tsize /\ u.flags = k.flags
  BY Zenon DEF DataTaken
<1>2. CASE u.status = "failed" /\ Kept(k, u)
  BY <1>2, Zenon DEF Placed, Filled, Kept
<1>3. CASE /\ u.status \in {"run", "ok"}
           /\ u.image = k.image \cup {e}
           /\ u.filesize >= b * B + p.len /\ u.filesize >= k.filesize
           /\ u.filesize \in {k.filesize, b * B + p.len}
           /\ u.bitmap.bits = k.bitmap.bits \cup ({b} \cap 0 .. u.bitmap.length - 1)
           /\ u.status = "ok" => u.bitmap.first_gap = u.bitmap.length
  <2>1. /\ p.from = b * B /\ p.from \in Nat /\ p.len \in Nat /\ p.from + p.len <= size
        /\ p.len = IF b = size \div B THEN size - b * B ELSE B
    BY DataFacts
  <2>2. e = Block(b, B) /\ Block(b, B).len = p.len
    BY <2>1, Zenon DEF Block
  <2>3. k.filesize \in Nat /\ u.filesize \in Nat /\ size \in Nat /\ B \in Nat
        /\ k.bitmap.bits \subseteq Nat
    BY BlocksFacts, Zenon DEF DataTaken, Good, Sized, Requests, Bitmaps
  <2>4. u.filesize <= size /\ u.tsize \in {0, size}
    BY <1>1, <1>3, <2>1, <2>3, Zenon DEF Placed
  <2>5. \A x \in u.image : x.at = x.from
    <3>1. e.at = e.from
      BY <2>1, Zenon
    <3>2. \A x \in k.image : x.at = x.from
      BY Zenon DEF Placed
    <3> HIDE DEF e
    <3>3. QED
      BY <1>3, <3>1, <3>2, Zenon
  <2>6. ASSUME NEW c \in u.bitmap.bits
        PROVE  Block(c, u.blksize) \in u.image /\ c * u.blksize + Block(c, u.blksize).len <= u.filesize
    <3>1. CASE c = b
      BY <1>1, <1>3, <2>2, <3>1, Zenon
    <3>2. CASE c \in k.bitmap.bits
      <4>1. Block(c, B) \in k.image /\ c * B + Block(c, B).len <= k.filesize
        BY <3>2, Zenon DEF Placed
      <4>2. Block(c, B).len \in Int /\ c * B \in Int
        BY <2>3, <3>2 DEF Block
      <4>3. c * B + Block(c, B).len <= u.filesize
        <5>1. u.filesize >= k.filesize
          BY <1>3, Zenon
        <5> HIDE DEF B
        <5>2. QED
          BY <2>3, <4>1, <4>2, <5>1
      <4>4. QED
        BY <1>1, <1>3, <4>1, <4>3, Zenon
    <3>3. QED
      BY <1>3, <3>1, <3>2, Zenon
  <2>7. QED
    BY <1>3, <2>4, <2>5, <2>6, Zenon DEF Placed, Filled
<1>4. QED
  BY <1>2, <1>3, Zenon DEF DataTaken

LEMMA OackPlaced ==
  ASSUME Server, NEW k, Sized(k), Runs(k), Placed(k), NEW p, NEW ok \in BOOLEAN,
         k.bitmap.length = 0 \/ "blksize" \notin opts \/ k.blksize = ServerBlk
  PROVE  LET u == tftp_rx_oack(k, p, ok)
         IN Placed(u) /\ Filled(u) /\ u.image = k.image
<1> DEFINE u == tftp_rx_oack(k, p, ok)
<1>1. size \in Nat
  BY TftpAssumption, Zenon DEF Server
<1>2. /\ Good(u) /\ u.image = k.image /\ u.bitmap.bits = k.bitmap.bits
      /\ u.tsize \in {k.tsize, size}
      /\ u.filesize \in {k.filesize, u.tsize} /\ u.filesize >= k.filesize
      /\ u.blksize = IF "blksize" \in opts THEN ServerBlk ELSE k.blksize
      /\ u.status = "ok" => "SIZEONLY" \in u.flags
  <2>1. OackTaken(k, p, u)
    BY <1>1, RxOack, Zenon
  <2> HIDE DEF u
  <2>2. QED
    BY <2>1, Zenon DEF OackTaken
<1> HIDE DEF u
<1>3. /\ k.filesize \in Nat /\ u.filesize \in Nat /\ k.blksize \in Nat /\ k.bitmap.bits \subseteq Nat
      /\ k.bitmap.bits \subseteq 0 .. k.bitmap.length - 1
  BY <1>2, Zenon DEF Good, Sized, Requests, Bitmaps, Shape
<1>4. u.filesize <= size /\ u.tsize \in {0, size}
  <2>1. k.filesize <= size /\ k.tsize \in {0, size}
    BY Zenon DEF Placed
  <2>2. u.tsize \in {0, size}
    BY <1>2, <2>1, Zenon
  <2>3. u.filesize = k.filesize \/ u.filesize = u.tsize
    BY <1>2, Zenon
  <2>4. QED
    BY <1>1, <2>1, <2>2, <2>3
<1>5. k.bitmap.bits = {} \/ u.blksize = k.blksize
  BY <1>2, <1>3
<1>6. ASSUME NEW b \in u.bitmap.bits
      PROVE  /\ Block(b, u.blksize) \in u.image
             /\ b * u.blksize + Block(b, u.blksize).len <= u.filesize
  <2>1. Block(b, u.blksize) \in u.image /\ b * u.blksize + Block(b, u.blksize).len <= k.filesize
    BY <1>2, <1>5, <1>6, Zenon DEF Placed
  <2>2. b * u.blksize \in Int /\ Block(b, u.blksize).len \in Int
    <3>1. b \in Nat /\ u.blksize \in Nat
      BY <1>2, <1>3, <1>5, Zenon
    <3>2. QED
      BY <1>1, <3>1 DEF Block
  <2>3. QED
    BY <1>2, <1>3, <2>1, <2>2
<1>7. Placed(u)
  BY <1>2, <1>4, <1>6, Zenon DEF Placed
<1>8. QED
  BY <1>2, <1>7, Zenon DEF Filled, u

LEMMA ReceivedShort ==
  ASSUME ShortFile, Server, NEW t, Sized(t), Runs(t), Settled(t), Placed(t),
         NEW p, Expected(t, p), NEW ok \in BOOLEAN
  PROVE  LET u == tftp_rx(t, p, ok)
         IN Placed(u) /\ Filled(u) /\ t.image \subseteq u.image
<1> DEFINE u == tftp_rx(t, p, ok)
<1>1. t \in Requests /\ p.src \in Sources /\ p.kind \in {"oack", "data", "error"}
  BY Zenon DEF Sized, Expected
<1>2. Sources = Tids \cup {"mtftpd"} /\ "mtftpd" \notin Tids
  BY TftpAssumption, Zenon DEF Sources
<1>3. CASE u = t
  BY <1>3, Zenon DEF Filled, Runs
<1>4. ASSUME NEW k, Listening(t, k), k.flags = t.flags,
             \/ p.kind = "oack" /\ u = tftp_rx_oack(k, p, ok)
             \/ p.kind = "data" /\ u = tftp_rx_data(k, p, ok)
             \/ u = tftp_done(k, "failed")
      PROVE  Placed(u) /\ Filled(u) /\ t.image \subseteq u.image
  <2>1. Sized(k) /\ Runs(k)
    BY <1>4, ListeningKeeps, Zenon
  <2>2. Placed(k) /\ k.image = t.image /\ k.blksize = t.blksize /\ k.bitmap = t.bitmap
    BY <1>4, Zenon DEF Placed, Listening
  <2> HIDE DEF u
  <2>3. CASE p.kind = "oack" /\ u = tftp_rx_oack(k, p, ok)
    <3>1. "MTFTP_RECOVERY" \notin t.flags
      BY <1>2, <2>3, Zenon DEF Expected
    <3>2. k.bitmap.length = 0 \/ "blksize" \notin opts \/ k.blksize = ServerBlk
      BY <2>2, <3>1, Zenon DEF Settled, PlainBlk
    <3>3. QED
      BY <2>1, <2>2, <2>3, <3>2, OackPlaced, Zenon
  <2>4. CASE p.kind = "data" /\ u = tftp_rx_data(k, p, ok)
    <3>1. PICK i \in 1 .. Blocks(p.src) : p = Data(p.src, i)
      BY <2>4, Zenon DEF Expected
    <3>2. t.blksize = Blk(p.src)
      BY <2>4, Zenon DEF Expected
    <3>3. p.block \in Nat /\ p.len \in Nat /\ p.from \in Nat
      <4>1. i \in Nat
        OBVIOUS
      <4>2. QED
        BY <1>1, <3>1, <4>1, DataFacts, Zenon
    <3>4. DataTaken(k, p, u)
      BY <2>1, <2>4, <3>3, RxData, Zenon
    <3>5. QED
      <4>1. k.blksize = Blk(p.src) /\ DataTaken(k, Data(p.src, i), u)
        BY <2>2, <3>1, <3>2, <3>4, Zenon
      <4>2. BlockOf(k, Data(p.src, i)) = i - 1
        BY <1>1, <2>1, <2>2, <4>1, BlockNumber, Zenon DEF Runs
      <4>3. Placed(u) /\ Filled(u) /\ k.image \subseteq u.image
        BY <1>1, <2>1, <2>2, <4>1, <4>2, DataPlaced, Zenon
      <4>4. QED
        BY <2>2, <4>3, Zenon
  <2>5. CASE u = tftp_done(k, "failed")
    <3>1. Kept(k, u) /\ u.status = "failed"
      BY <2>1, <2>5, Done, Zenon DEF Runs
    <3>2. QED
      BY <2>2, <3>1, Zenon DEF Placed, Filled, Kept
  <2>6. QED
    BY <1>4, <2>3, <2>4, <2>5, Zenon
<1>5. QED
  BY <1>1, <1>3, <1>4, RxCases, Zenon

LEMMA KeptShort ==
  ASSUME NEW t, Placed(t), Filled(t), Kept(t, tftp'), tftp'.status = t.status, size' = size
  PROVE  Short' /\ tftp'.image = t.image
  BY Zenon DEF Short, Placed, Filled, Kept, Block

\* One step of the client, while block numbers do not wrap.
LEMMA NextShort ==
  ASSUME ShortFile, IInv, Short, Next
  PROVE  Short' /\ tftp.image \subseteq tftp'.image /\ size' = size /\ tftp.status = "run"
<1>1. /\ size' = size /\ tftp.status = "run" /\ Sized(tftp) /\ Runs(tftp) /\ Server
      /\ Settled(tftp) /\ tftp.tx = "none" /\ Placed(tftp)
  BY Zenon DEF Next, Expires, Resolves, ReceivesUnicast, ReceivesMulticast, tftp_xfer_close,
         IInv, Good, Ended, Short
<1>2. ASSUME NEW t \in Requests, Placed(t), Filled(t), tftp.image \subseteq t.image,
             tftp' = [t EXCEPT !.tx = "none"]
      PROVE  Short' /\ tftp.image \subseteq tftp'.image
  BY <1>1, <1>2, Quiet, KeptShort, Zenon
<1>3. CASE Expires
  <2>1. PICK reopens \in BOOLEAN : tftp' = [tftp_timer_expired(tftp, reopens) EXCEPT !.tx = "none"]
    BY <1>3, Zenon DEF Expires, Transmit
  <2> DEFINE t == tftp_timer_expired(tftp, reopens)
  <2>2. /\ Good(t) /\ t.status \in {"run", "failed"} /\ t.blksize = tftp.blksize
        /\ t.tsize = tftp.tsize /\ t.filesize = tftp.filesize /\ t.image = tftp.image
        /\ t.bitmap = tftp.bitmap \/ t.bitmap = EmptyBitmap
    BY <1>1, TimerExpired DEF TimedOut
  <2>3. tftp' = [t EXCEPT !.tx = "none"]
    BY <2>1, Zenon
  <2> HIDE DEF t
  <2>4. Placed(t) /\ Filled(t)
    <3>1. t.bitmap = tftp.bitmap \/ t.bitmap.bits = {}
      BY <2>2 DEF EmptyBitmap
    <3>2. Placed(t)
      BY <1>1, <2>2, <3>1, Zenon DEF Placed
    <3>3. QED
      BY <2>2, <3>2, Zenon DEF Filled
  <2>5. QED
    BY <1>1, <1>2, <2>2, <2>3, <2>4, Zenon DEF Good, Sized
<1>4. CASE Resolves
  <2>1. PICK sock \in {"open", "closed"} : tftp' = [tftp EXCEPT !.sock = sock]
    BY <1>4, Zenon DEF Resolves
  <2>2. Kept(tftp, tftp') /\ tftp'.status = tftp.status
    BY <1>1, <2>1, Zenon DEF Sized, Requests, Kept
  <2>3. QED
    BY <1>1, <2>2, KeptShort, Zenon DEF Short
<1>5. CASE ReceivesUnicast
  <2>1. PICK p \in UnicastPackets, ok \in BOOLEAN :
          tftp' = [tftp_socket_deliver_iob(tftp, p, ok) EXCEPT !.tx = "none"]
    BY <1>5, Zenon DEF ReceivesUnicast, Transmit
  <2>2. Expected(tftp, p)
    BY <1>1, <2>1, Packets, Zenon DEF Expected
  <2> DEFINE k == [tftp EXCEPT !.flags = @ \cup {"SEND_ACK"}]
             u == tftp_rx(k, p, ok)
  <2>3. Listening(tftp, k) /\ Sized(k) /\ Runs(k) /\ Settled(k) /\ k.tx = "none" /\ Expected(k, p)
    BY <1>1, <2>2, Delivered, Zenon
  <2>4. tftp' = [u EXCEPT !.tx = "none"]
    BY <2>1, Zenon DEF tftp_socket_deliver_iob
  <2> HIDE DEF k
  <2>5. Placed(k) /\ k.image = tftp.image
    BY <1>1, <2>3, Zenon DEF Placed, Listening
  <2>6. Placed(u) /\ Filled(u) /\ k.image \subseteq u.image
    BY <1>1, <2>3, <2>5, ReceivedShort, Zenon
  <2>7. u \in Requests
    BY <1>1, <2>3, Received, Zenon DEF Ready, Good, Sized
  <2> HIDE DEF u
  <2>8. QED
    BY <1>1, <1>2, <2>4, <2>5, <2>6, <2>7, Zenon
<1>6. CASE ReceivesMulticast
  <2>1. PICK p \in MulticastPackets, ok \in BOOLEAN :
          tftp' = [tftp_rx(tftp, p, ok) EXCEPT !.tx = "none"]
    BY <1>6, Zenon DEF ReceivesMulticast, Transmit, tftp_mc_socket_deliver_iob
  <2>2. Expected(tftp, p)
    BY <1>1, <1>6, <2>1, Packets, Zenon DEF Expected, ReceivesMulticast
  <2> DEFINE u == tftp_rx(tftp, p, ok)
  <2>3. Placed(u) /\ Filled(u) /\ tftp.image \subseteq u.image
    BY <1>1, <2>2, ReceivedShort, Zenon
  <2>4. u \in Requests
    BY <1>1, <2>2, Received, Zenon DEF Ready, Good, Sized
  <2>5. tftp' = [u EXCEPT !.tx = "none"]
    BY <2>1, Zenon
  <2> HIDE DEF u
  <2>6. QED
    BY <1>1, <1>2, <2>3, <2>4, <2>5, Zenon
<1>7. CASE tftp_xfer_close
  <2>1. Kept(tftp, tftp') /\ tftp'.status = "failed"
    BY <1>1, <1>7, Done, Zenon DEF tftp_xfer_close, Runs
  <2>2. QED
    BY <1>1, <2>1, Zenon DEF Short, Placed, Filled, Kept, Block
<1>8. QED
  BY <1>1, <1>3, <1>4, <1>5, <1>6, <1>7, Zenon DEF Next

-----------------------------------------------------------------------------
(***************************************************************************)
(* Files whose block numbers wrap: plain transfers, in which the server    *)
(* sends one block after the other.                                        *)
(***************************************************************************)

\* A packet is overtaken by fewer blocks than a period of block numbers has.
Timely == MaxLate + 1 < Modulus

Plain(t) == "MTFTP_RECOVERY" \notin t.flags /\ "RRQ_MULTICAST" \notin t.flags /\ ~t.mc

\* The blocks below the first gap are there and no others; the server has sent the
\* blocks below the gap, and that of the gap if the acknowledgement has reached it.
InOrder(t) ==
  LET gap == t.bitmap.first_gap
  IN /\ t.bitmap.bits = 0 .. gap - 1
     /\ \A s \in Tids : s # t.peer => srv[s] <= 1
     /\ \/ t.peer = "none" /\ gap = 0
        \/ t.peer \in Tids /\ t.sock # "resolving" /\ srv[t.peer] \in {gap, gap + 1}

\* Repeated, of the request t.
RepeatedIn(t, e) ==
  LET block == e.from \div t.blksize
      last == (block \div Modulus) * Modulus + Modulus - 2
  IN /\ block \in last - MaxLate .. last /\ (last + 1) * t.blksize <= size
     /\ e.at = e.from + Modulus * t.blksize
     /\ [e EXCEPT !.at = e.from] \in t.image

Damaged(t) == t.blksize = PlainBlk /\ \E e \in t.image : RepeatedIn(t, e)

\* What holds of a plain transfer: it is in place and in order until a block is
\* repeated at the end of a period.
Fine(t) == Damaged(t) \/ (Placed(t) /\ Filled(t) /\ (t.status = "run" => InOrder(t)))

Long ==
  \/ ShortFile /\ Short
  \/ (tftp.status = "run" => Plain(tftp)) /\ Fine(tftp)

LEMMA GapOf ==
  ASSUME NEW bitmap \in Bitmaps, Shape(bitmap), NEW n \in Nat, bitmap.bits = 0 .. n - 1
  PROVE  bitmap.first_gap = n
<1>1. bitmap.first_gap \in Nat
  BY Zenon DEF Bitmaps
<1>2. ~(bitmap.first_gap < n)
  BY <1>1 DEF Shape
<1>3. ~(n < bitmap.first_gap)
  <2>1. SUFFICES ASSUME n < bitmap.first_gap PROVE FALSE
    BY Zenon
  <2>2. n \in 0 .. bitmap.first_gap - 1
    BY <1>1, <2>1
  <2>3. n \in 0 .. n - 1
    BY <2>2, Zenon DEF Shape
  <2>4. QED
    BY <2>3
<1>4. QED
  BY <1>1, <1>2, <1>3

\* What was put stays put.
LEMMA DamageStays ==
  ASSUME NEW t, Damaged(t), NEW u, t.image \subseteq u.image, u.blksize = t.blksize
  PROVE  Damaged(u)
  BY Zenon DEF Damaged, RepeatedIn

\* A packet of the server that is not too late.
Fresh(t, p) ==
  /\ srv[p.src] >= 0
  /\ p.kind = "oack" /\ "RRQ_MULTICAST" \notin t.flags => p.mcast = "absent"
  /\ p.kind = "data" =>
       \E i \in 1 .. srv[p.src] : i + MaxLate >= srv[p.src] /\ p = Data(p.src, i)

LEMMA FreshPackets ==
  ASSUME NEW p \in UnicastPackets
  PROVE  Fresh(tftp, p)
<1>1. PICK s \in Sources :
        /\ srv[s] >= 0
        /\ \/ \E i \in 1 .. srv[s] : i + MaxLate >= srv[s] /\ p = Data(s, i)
           \/ p = [kind |-> "error", src |-> s]
           \/ p \in OackPackets(s)
  BY Zenon DEF UnicastPackets
<1>2. CASE \E i \in 1 .. srv[s] : i + MaxLate >= srv[s] /\ p = Data(s, i)
  <2>1. p.src = s /\ p.kind = "data"
    BY <1>2 DEF Data
  <2>2. QED
    BY <1>1, <1>2, <2>1 DEF Fresh
<1>3. CASE p = [kind |-> "error", src |-> s]
  <2>1. p.src = s /\ p.kind = "error"
    BY <1>3
  <2>2. QED
    BY <1>1, <2>1 DEF Fresh
<1>4. CASE p \in OackPackets(s)
  <2>1. /\ p.src = s /\ p.kind = "oack"
        /\ "RRQ_MULTICAST" \notin tftp.flags => p.mcast = "absent"
    BY <1>4 DEF OackPackets
  <2>2. QED
    BY <1>1, <2>1 DEF Fresh
<1>5. QED
  BY <1>1, <1>2, <1>3, <1>4, Zenon

\* The first answer, or one more from the same port.
LEMMA Heard ==
  ASSUME Server, NEW s \in Tids, srv[s] >= 0,
         NEW t \in Requests, InOrder(t), t.sock = "open", t.peer \in {"none", s},
         NEW k, Listening(t, k), k.peer = s
  PROVE  InOrder(k)
<1>1. k.bitmap = t.bitmap /\ k.sock = "open" /\ s # "none"
  BY TftpAssumption, Zenon DEF Listening
<1>2. srv[s] \in Int /\ t.bitmap.first_gap \in Nat
  BY Zenon DEF Server, Sources, Requests, Bitmaps
<1>3. srv[s] \in {t.bitmap.first_gap, t.bitmap.first_gap + 1}
  <2>1. CASE t.peer = "none"
    <3>1. srv[s] <= 1 /\ t.bitmap.first_gap = 0
      BY <1>1, <2>1, TftpAssumption, Zenon DEF InOrder
    <3>2. QED
      BY <1>2, <3>1
  <2>2. CASE t.peer = s
    BY <1>1, <2>2, Zenon DEF InOrder
  <2>3. QED
    BY <2>1, <2>2, Zenon
<1>4. \A r \in Tids : r # s => srv[r] <= 1
  <2>1. CASE t.peer = s
    BY <2>1, Zenon DEF InOrder
  <2>2. CASE t.peer = "none"
    BY <2>2, TftpAssumption, Zenon DEF InOrder
  <2>3. QED
    BY <2>1, <2>2, Zenon
<1>5. t.bitmap.bits = 0 .. t.bitmap.first_gap - 1
  BY Zenon DEF InOrder
<1>6. k.sock # "resolving"
  BY <1>1, Zenon
<1>7. QED
  BY <1>1, <1>3, <1>4, <1>5, <1>6, Zenon DEF InOrder

\* A data packet of a transfer that is in order.
LEMMA DataInOrder ==
  ASSUME Timely, Server, NEW s \in Tids, NEW k, Sized(k), Runs(k), Placed(k), InOrder(k),
         k.peer = s, k.sock = "open", k.blksize = Blk(s),
         NEW i \in 1 .. srv[s], i + MaxLate >= srv[s],
         NEW u, DataTaken(k, Data(s, i), u)
  PROVE  Fine(u)
<1> DEFINE g == k.bitmap.first_gap
           B == k.blksize
           p == Data(s, i)
           b == i - 1
           last == (b \div Modulus) * Modulus + Modulus - 2
<1>1. /\ g \in Nat /\ B \in Nat \ {0} /\ B = PlainBlk /\ Modulus \in Nat \ {0, 1} /\ MaxLate \in Nat
      /\ s \in Sources /\ srv[s] \in Int /\ srv[s] <= Blocks(s) /\ Blocks(s) \in Nat /\ size \in Nat
  <2>1. s \in Sources
    BY Zenon DEF Sources
  <2>2. QED
    BY <2>1, BlocksFacts, TftpAssumption, Zenon DEF Sized, Requests, Bitmaps, Server
<1>2. srv[s] \in {g, g + 1} /\ k.bitmap.bits = 0 .. g - 1
  <2>1. s # "none"
    BY TftpAssumption, Zenon
  <2>2. QED
    BY <2>1, Zenon DEF InOrder
<1> HIDE DEF g, B
<1>3. /\ i \in Nat \ {0} /\ i <= g + 1 /\ i + MaxLate >= g /\ i \in 1 .. Blocks(s)
      /\ b \in Nat /\ b <= g /\ (b = g => srv[s] = g + 1)
  BY <1>1, <1>2
<1>4. /\ p.block = i /\ p.from = b * B /\ p.from \in Nat /\ p.len \in Nat
      /\ p.len = IF b = size \div B THEN size - b * B ELSE B
  <2>1. B = Blk(s)
    BY Zenon DEF B
  <2>2. QED
    BY <1>1, <1>3, <2>1, DataFacts
<1>5. \/ BlockOf(k, p) = b
      \/ /\ BlockOf(k, p) = b + Modulus
         /\ b >= last - MaxLate /\ b <= last /\ last + 1 <= g /\ last \in Nat
  <2> DEFINE base == ((g + 1) \div Modulus) * Modulus
             m == i % Modulus
  <2>1. \/ base + m = i
        \/ /\ base + m = i + Modulus
           /\ b >= last - MaxLate /\ b <= last /\ last + 1 <= g /\ last \in Nat
    BY <1>1, <1>3, Period, Zenon DEF Timely
  <2>2. BlockOf(k, p) = base + m - 1
    BY <1>4, Zenon DEF BlockOf, block_base, g
  <2>3. base \in Nat /\ m \in Nat
    <3>1. g + 1 \in Nat /\ Modulus \in Nat \ {0} /\ i \in Nat
      BY <1>1, <1>3
    <3>2. (g + 1) \div Modulus \in Nat /\ m \in Nat
      BY <3>1, DivFacts, ModFacts, Zenon
    <3>3. QED
      BY <3>1, <3>2
  <2> HIDE DEF base, m, last
  <2>4. QED
    BY <1>1, <1>3, <2>1, <2>2, <2>3
<1>6. CASE BlockOf(k, p) = b
  <2>1. Placed(u) /\ Filled(u)
    BY <1>1, <1>3, <1>6, DataPlaced, Zenon
  <2>2. ASSUME u.status = "run" PROVE InOrder(u)
    <3>1. /\ u.bitmap.bits = k.bitmap.bits \cup ({b} \cap 0 .. u.bitmap.length - 1)
          /\ b < u.bitmap.length /\ u.sock = k.sock /\ u.peer = k.peer /\ Good(u)
      BY <1>6, <2>2, Zenon DEF DataTaken, Kept
    <3>2. u.bitmap \in Bitmaps /\ Shape(u.bitmap) /\ u.bitmap.length \in Nat
      BY <3>1, Zenon DEF Good, Sized, Requests, Bitmaps
    <3> DEFINE h == IF b = g THEN g + 1 ELSE g
    <3>3. h \in Nat /\ u.bitmap.bits = 0 .. h - 1 /\ srv[s] \in {h, h + 1}
      BY <1>1, <1>2, <1>3, <3>1, <3>2
    <3> HIDE DEF h
    <3>4. u.bitmap.first_gap = h
      BY <3>2, <3>3, GapOf, Zenon
    <3>5. \A r \in Tids : r # u.peer => srv[r] <= 1
      BY <3>1, Zenon DEF InOrder
    <3>6. u.peer \in Tids /\ u.sock # "resolving" /\ srv[u.peer] \in {h, h + 1}
      BY <3>1, <3>3, Zenon
    <3>7. QED
      BY <3>3, <3>4, <3>5, <3>6, Zenon DEF InOrder
  <2>3. QED
    BY <2>1, <2>2, Zenon DEF Fine
<1>7. CASE /\ BlockOf(k, p) = b + Modulus
           /\ b >= last - MaxLate /\ b <= last /\ last + 1 <= g /\ last \in Nat
  <2>1. CASE u.status = "failed" /\ Kept(k, u)
    BY <2>1, Zenon DEF Fine, Placed, Filled, Kept
  <2> DEFINE e == [at |-> (b + Modulus) * B, len |-> p.len, from |-> p.from]
  <2>2. CASE u.image = k.image \cup {e}
    <3>1. u.blksize = B
      BY Zenon DEF DataTaken, B
    <3>2. e.from = b * B /\ e.at = (b + Modulus) * B
      BY <1>4, Zenon
    <3>3. e.from \div B = b
      <4>1. b * B \in Nat /\ b * B <= b * B /\ b * B < b * B + B
        BY <1>1, <1>3
      <4>2. (b * B) \div B = b
        BY <1>1, <1>3, <4>1, DivUnique, Zenon
      <4>3. QED
        BY <3>2, <4>2, Zenon
    <3>4. e.at = e.from + Modulus * B
      <4> HIDE DEF e
      <4> QED BY <1>1, <1>3, <3>2
    <3>5. b \in last - MaxLate .. last
      <4> HIDE DEF last
      <4> QED BY <1>1, <1>3, <1>7
    <3>6. (last + 1) * B <= size
      <4>1. g * B <= k.filesize
        <5>1. g <= k.filesize \div B /\ k.filesize \in Nat
          <6>1. /\ k.bitmap.length = 0 \/ k.bitmap.length = k.filesize \div B + 1
                /\ k.bitmap.length = 0 \/ g < k.bitmap.length
                /\ g <= k.bitmap.length /\ k.filesize \in Nat /\ k.bitmap.length \in Nat
            BY Zenon DEF Sized, Runs, HasGap, Shape, Requests, Bitmaps, num_blocks, g, B
          <6>2. k.filesize \div B \in Nat
            BY <1>1, <6>1, DivFacts, Zenon
          <6> HIDE DEF last
          <6>3. QED
            BY <1>1, <6>1, <6>2
        <5> DEFINE q == k.filesize \div B
        <5>2. q \in Nat /\ q * B <= k.filesize
          BY <1>1, <5>1, DivFacts, Zenon
        <5>3. g * B <= q * B
          BY <1>1, <5>1, <5>2, MulMono
        <5> HIDE DEF q
        <5>4. g * B \in Nat /\ q * B \in Nat
          BY <1>1, <5>2
        <5>5. QED
          BY <5>1, <5>2, <5>3, <5>4
      <4>2. (last + 1) * B <= g * B
        <5>1. last + 1 \in Nat /\ last + 1 <= g /\ B \in Nat
          BY <1>1, <1>7
        <5> HIDE DEF last
        <5>2. QED
          BY <1>1, <5>1, MulMono, Zenon
      <4>3. k.filesize \in Nat /\ k.filesize <= size
        BY Zenon DEF Placed, Sized, Requests
      <4>4. (last + 1) * B \in Nat /\ g * B \in Nat
        <5> HIDE DEF last
        <5> QED BY <1>1, <1>7
      <4>5. QED
        BY <1>1, <4>1, <4>2, <4>3, <4>4
    <3>7. [e EXCEPT !.at = e.from] \in u.image
      <4>1. [e EXCEPT !.at = e.from] = Block(b, B)
        BY <1>4 DEF Block
      <4>2. b \in k.bitmap.bits
        <5> HIDE DEF last
        <5> QED BY <1>1, <1>2, <1>3, <1>7
      <4>3. Block(b, B) \in k.image
        BY <4>2, Zenon DEF Placed, B
      <4>4. QED
        BY <2>2, <4>1, <4>3, Zenon
    <3>8. e \in u.image
      BY <2>2, Zenon
    <3> HIDE DEF e
    <3>9. RepeatedIn(u, e)
      BY <3>1, <3>3, <3>4, <3>5, <3>6, <3>7, Zenon DEF RepeatedIn
    <3>10. QED
      BY <1>1, <3>1, <3>8, <3>9, Zenon DEF Fine, Damaged
  <2>3. QED
    BY <1>7, <2>1, <2>2, Zenon DEF DataTaken, B
<1>8. QED
  BY <1>5, <1>6, <1>7, Zenon

LEMMA ReceivedPlain ==
  ASSUME Timely, Server, NEW t, Sized(t), Runs(t), Settled(t), Plain(t), t.sock = "open",
         NEW p, Expected(t, p), Fresh(t, p), NEW ok \in BOOLEAN
  PROVE  LET u == tftp_rx(t, p, ok)
         IN /\ t.image \subseteq u.image
            /\ u.status = "run" => Plain(u)
            /\ Fine(t) => Fine(u)
<1> DEFINE u == tftp_rx(t, p, ok)
<1>1. /\ t \in Requests /\ p.src \in Sources /\ p.kind \in {"oack", "data", "error"}
      /\ t.status = "run"
  BY Zenon DEF Sized, Expected, Runs
<1>2. Sources = Tids \cup {"mtftpd"} /\ "mtftpd" \notin Tids /\ p.src \in Tids /\ size \in Nat
  BY TftpAssumption, Zenon DEF Sources, Expected, Plain, Server
<1>3. CASE u = t
  BY <1>3, Zenon
<1>4. ASSUME NEW k, Listening(t, k), k.peer = p.src, k.flags = t.flags,
             t.peer \in {"none", k.peer},
             \/ p.kind = "oack" /\ u = tftp_rx_oack(k, p, ok)
             \/ p.kind = "data" /\ u = tftp_rx_data(k, p, ok)
             \/ u = tftp_done(k, "failed")
      PROVE  /\ t.image \subseteq u.image
             /\ u.status = "run" => Plain(u)
             /\ Fine(t) => Fine(u)
  <2>1. Sized(k) /\ Runs(k) /\ Plain(k)
    BY <1>4, ListeningKeeps, Zenon DEF Plain, Listening
  <2>2. /\ k.image = t.image /\ k.blksize = t.blksize /\ k.bitmap = t.bitmap
        /\ k.sock = "open" /\ (Placed(t) => Placed(k)) /\ (Damaged(t) => Damaged(k))
    BY <1>4, Zenon DEF Placed, Listening, Damaged, RepeatedIn
  <2>3. InOrder(t) => InOrder(k)
    BY <1>1, <1>2, <1>4, Heard, Zenon DEF Fresh
  <2>4. k.bitmap.length = 0 \/ "blksize" \notin opts \/ k.blksize = ServerBlk
    BY <2>2, Zenon DEF Settled, PlainBlk, Plain
  <2> HIDE DEF u
  <2>5. CASE p.kind = "oack" /\ u = tftp_rx_oack(k, p, ok)
    <3>1. /\ u.image = k.image /\ u.bitmap.bits = k.bitmap.bits
          /\ u.bitmap.first_gap = k.bitmap.first_gap /\ u.peer = k.peer
          /\ u.blksize = IF "blksize" \in opts THEN ServerBlk ELSE k.blksize
          /\ u.flags = k.flags /\ (u.status = "run" => u.sock = k.sock /\ u.mc = k.mc)
      <4>1. OackTaken(k, p, u)
        BY <1>2, <2>1, <2>4, <2>5, RxOack, Zenon
      <4>2. p.mcast = "absent"
        BY <2>5, Zenon DEF Fresh, Plain
      <4>3. QED
        BY <4>1, <4>2, Zenon DEF OackTaken
    <3>2. u.status = "run" => Plain(u)
      BY <2>1, <3>1, Zenon DEF Plain
    <3>3. CASE Damaged(t)
      <4>1. u.blksize = k.blksize
        BY <2>2, <3>1, <3>3, Zenon DEF Damaged, PlainBlk
      <4>2. QED
        BY <2>2, <3>1, <3>2, <3>3, <4>1, DamageStays, Zenon DEF Fine
    <3>4. CASE Placed(t) /\ InOrder(t)
      <4>1. Placed(u) /\ Filled(u)
        BY <2>1, <2>2, <2>4, <2>5, <3>4, OackPlaced, Zenon
      <4>2. u.status = "run" => InOrder(u)
        BY <2>3, <3>1, <3>4, Zenon DEF InOrder
      <4>3. QED
        BY <2>2, <3>1, <3>2, <4>1, <4>2, Zenon DEF Fine
    <3>5. QED
      BY <1>1, <2>2, <3>1, <3>2, <3>3, <3>4, Zenon DEF Fine
  <2>6. CASE p.kind = "data" /\ u = tftp_rx_data(k, p, ok)
    <3>1. PICK i \in 1 .. srv[p.src] : i + MaxLate >= srv[p.src] /\ p = Data(p.src, i)
      BY <2>6, Zenon DEF Fresh
    <3>2. t.blksize = Blk(p.src)
      BY <2>6, Zenon DEF Expected
    <3>3. p.block \in Nat /\ p.len \in Nat /\ p.from \in Nat
      <4>1. i \in 1 .. Blocks(p.src)
        <5>1. Blocks(p.src) \in Nat /\ srv[p.src] \in Int /\ srv[p.src] <= Blocks(p.src)
          BY <1>1, BlocksFacts, Zenon DEF Server
        <5>2. QED
          BY <3>1, <5>1
      <4>2. i \in Nat
        OBVIOUS
      <4>3. /\ Data(p.src, i).block = i
            /\ Data(p.src, i).from \in Nat /\ Data(p.src, i).len \in Nat
        BY <1>1, <4>1, DataFacts, Zenon
      <4>4. QED
        BY <3>1, <4>2, <4>3, Zenon
    <3>4. DataTaken(k, p, u)
      BY <2>1, <2>6, <3>3, RxData, Zenon
    <3>5. /\ k.image \subseteq u.image /\ u.blksize = k.blksize
          /\ u.status = "run" => u.flags = k.flags /\ u.mc = k.mc
      BY <3>4, Zenon DEF DataTaken, Kept
    <3>6. u.status = "run" => Plain(u)
      BY <2>1, <3>5, Zenon DEF Plain
    <3>7. CASE Damaged(t)
      BY <2>2, <3>5, <3>6, <3>7, DamageStays, Zenon DEF Fine
    <3>8. CASE Placed(t) /\ InOrder(t)
      <4>1. Placed(k) /\ InOrder(k) /\ k.blksize = Blk(p.src) /\ DataTaken(k, Data(p.src, i), u)
        BY <2>2, <2>3, <3>1, <3>2, <3>4, <3>8, Zenon
      <4>2. Fine(u)
        BY <1>2, <1>4, <2>1, <2>2, <3>1, <4>1, DataInOrder, Zenon
      <4>3. QED
        BY <2>2, <3>5, <3>6, <4>2, Zenon
    <3>9. QED
      BY <1>1, <2>2, <3>5, <3>6, <3>7, <3>8, Zenon DEF Fine
  <2>7. CASE u = tftp_done(k, "failed")
    <3>1. Kept(k, u) /\ u.status = "failed"
      BY <2>1, <2>7, Done, Zenon DEF Runs
    <3>2. u.image = k.image /\ u.blksize = k.blksize /\ (Placed(k) => Placed(u) /\ Filled(u))
      BY <3>1, Zenon DEF Placed, Filled, Kept
    <3>3. Damaged(k) => Damaged(u)
      BY <3>2, DamageStays, Zenon
    <3>4. QED
      BY <2>2, <3>1, <3>2, <3>3, Zenon DEF Fine
  <2>8. QED
    BY <1>4, <2>5, <2>6, <2>7, Zenon
<1>5. QED
  BY <1>1, <1>3, <1>4, RxCases, Zenon

\* An acknowledgement brings the block of the first gap, and no other.
LEMMA AnsweredInOrder ==
  ASSUME Server, NEW t \in Requests, Plain(t), InOrder(t), srv' = srv \/ Answers(t)
  PROVE  /\ \A s \in Tids : s # t.peer => srv'[s] <= 1
         /\ t.peer \in Tids => srv'[t.peer] \in {t.bitmap.first_gap, t.bitmap.first_gap + 1}
<1> DEFINE g == t.bitmap.first_gap
<1>1. /\ srv \in [Sources -> Int] /\ Tids \subseteq Sources /\ g \in Nat
      /\ Modulus \in Nat \ {0, 1} /\ "none" \notin Tids
  BY TftpAssumption, Zenon DEF Server, Sources, Requests, Bitmaps
<1>2. /\ \A s \in Tids : s # t.peer => srv[s] <= 1
      /\ t.peer \in Tids => srv[t.peer] \in {g, g + 1}
  BY <1>1, Zenon DEF InOrder
<1> HIDE DEF g
<1>3. CASE srv' = srv
  BY <1>2, <1>3, Zenon DEF g
<1>4. CASE \E tid \in Tids : srv[tid] = -1 /\ srv' = [srv EXCEPT ![tid] = IF Oacks THEN 0 ELSE 1]
  <2>1. PICK tid \in Tids : srv[tid] = -1 /\ srv' = [srv EXCEPT ![tid] = IF Oacks THEN 0 ELSE 1]
    BY <1>4, Zenon
  <2>2. tid # t.peer
    BY <1>1, <1>2, <2>1
  <2>3. \A s \in Tids : srv'[s] = IF s = tid THEN IF Oacks THEN 0 ELSE 1 ELSE srv[s]
    BY <1>1, <2>1, Zenon
  <2>4. \A s \in Tids : s # t.peer => srv'[s] <= 1
    BY <1>1, <1>2, <2>3
  <2>5. QED
    BY <1>2, <2>2, <2>3, <2>4, Zenon DEF g
<1>5. CASE /\ t.peer \in Tids /\ g % Modulus = srv[t.peer] % Modulus
           /\ srv' = [srv EXCEPT ![t.peer] = @ + 1]
  <2>1. srv[t.peer] # g + 1
    <3>1. (g + 1) % Modulus # g % Modulus
      BY <1>1, ModNext, Zenon
    <3>2. QED
      BY <1>5, <3>1, Zenon
  <2>2. \A s \in Tids : srv'[s] = IF s = t.peer THEN srv[s] + 1 ELSE srv[s]
    BY <1>1, <1>5, Zenon
  <2>3. srv'[t.peer] = g + 1
    BY <1>2, <1>5, <2>1, <2>2, Zenon
  <2>4. QED
    BY <1>2, <2>2, <2>3, Zenon DEF g
<1>6. QED
  BY <1>3, <1>4, <1>5, Zenon DEF Answers, Plain, g

\* What the client transmits, lost or answered, leaves a plain transfer in order.
LEMMA TransmitLong ==
  ASSUME Server, NEW t \in Requests, t.status = "run" => Plain(t), Fine(t), Transmit(t),
         size' = size, opts' = opts
  PROVE  Long' /\ tftp'.image = t.image
<1>1. /\ Kept(t, tftp') /\ tftp'.status = t.status /\ tftp'.mc = t.mc /\ tftp'.sock = t.sock
  BY Quiet, Zenon DEF Transmit
<1>2. tftp'.status = "run" => Plain(tftp)'
  BY <1>1, Zenon DEF Plain, Kept
<1>3. tftp'.image = t.image /\ tftp'.blksize = t.blksize
  BY <1>1, Zenon DEF Kept
<1>4. CASE Damaged(t)
  <2>1. Damaged(tftp)'
    BY <1>3, <1>4, Zenon DEF Damaged, RepeatedIn, PlainBlk
  <2>2. QED
    BY <1>2, <1>3, <2>1, Zenon DEF Long, Fine
<1>5. CASE Placed(t) /\ Filled(t) /\ (t.status = "run" => InOrder(t))
  <2>1. Short'
    BY <1>1, <1>5, KeptShort, Zenon
  <2>2. ASSUME tftp'.status = "run" PROVE InOrder(tftp)'
    <3>1. /\ \A s \in Tids : s # t.peer => srv'[s] <= 1
          /\ t.peer \in Tids => srv'[t.peer] \in {t.bitmap.first_gap, t.bitmap.first_gap + 1}
      BY <1>1, <1>5, <2>2, AnsweredInOrder, Zenon DEF Transmit
    <3>2. InOrder(t)
      BY <1>1, <1>5, <2>2, Zenon
    <3>3. QED
      BY <1>1, <3>1, <3>2, Zenon DEF InOrder, Kept
  <2>3. QED
    BY <1>2, <1>3, <2>1, <2>2, Zenon DEF Long, Fine, Short
<1>6. QED
  BY <1>4, <1>5, Zenon DEF Fine

\* One step of a plain transfer.
LEMMA NextPlain ==
  ASSUME Timely, IInv, Plain(tftp), Fine(tftp), Next
  PROVE  Long' /\ tftp.image \subseteq tftp'.image /\ size' = size /\ tftp.status = "run"
<1>1. /\ size' = size /\ opts' = opts /\ tftp.status = "run" /\ Sized(tftp) /\ Runs(tftp) /\ Server
      /\ Settled(tftp) /\ tftp.tx = "none" /\ tftp \in Requests
  BY Zenon DEF Next, Expires, Resolves, ReceivesUnicast, ReceivesMulticast, tftp_xfer_close,
         IInv, Good, Ended, Sized
<1>2. CASE Expires
  <2>1. PICK reopens \in BOOLEAN :
          LET t == tftp_timer_expired(tftp, reopens)
          IN IF t.sock = "resolving"
             THEN tftp' = [t EXCEPT !.tx = "none"] /\ srv' = NoAnswer
             ELSE Transmit(t)
    BY <1>2, Zenon DEF Expires
  <2> DEFINE t == tftp_timer_expired(tftp, reopens)
  <2>2. /\ t \in Requests /\ t.status \in {"run", "failed"} /\ t.blksize = tftp.blksize
        /\ t.tsize = tftp.tsize /\ t.filesize = tftp.filesize /\ t.image = tftp.image
        /\ t.bitmap = tftp.bitmap \/ t.bitmap = EmptyBitmap
        /\ t.status = "run" => Kept(tftp, t) /\ t.sock = tftp.sock /\ t.mc = tftp.mc
    BY <1>1, TimerExpired, Zenon DEF TimedOut, Good, Sized, Plain
  <2>3. IF t.sock = "resolving"
        THEN tftp' = [t EXCEPT !.tx = "none"] /\ srv' = NoAnswer
        ELSE Transmit(t)
    BY <2>1, Zenon
  <2> HIDE DEF t
  <2>4. t.status = "run" => Plain(t)
    BY <2>2, Zenon DEF Plain, Kept
  <2>5. Damaged(tftp) => Damaged(t)
    BY <2>2, DamageStays, Zenon
  <2>6. Placed(tftp) => Placed(t) /\ Filled(t)
    <3>1. t.bitmap = tftp.bitmap \/ t.bitmap.bits = {}
      BY <2>2 DEF EmptyBitmap
    <3>2. Placed(tftp) => Placed(t)
      BY <2>2, <3>1, Zenon DEF Placed
    <3>3. QED
      BY <2>2, <3>2, Zenon DEF Filled
  <2>7. Fine(t)
    <3>1. t.status = "run" /\ InOrder(tftp) => InOrder(t)
      BY <2>2, Zenon DEF InOrder, Kept
    <3>2. QED
      BY <1>1, <2>5, <2>6, <3>1, Zenon DEF Fine
  <2>8. CASE t.sock = "resolving"
    <3>1. tftp' = [t EXCEPT !.tx = "none"] /\ srv' = NoAnswer
      BY <2>3, <2>8, Zenon
    <3>2. Kept(t, tftp') /\ tftp'.status = t.status /\ tftp'.mc = t.mc /\ tftp'.sock = t.sock
      BY <2>2, <3>1, Quiet, Zenon
    <3>3. tftp'.status = "run" => Plain(tftp)'
      BY <2>4, <3>2, Zenon DEF Plain, Kept
    <3>4. Damaged(t) => Damaged(tftp)'
      BY <1>1, <3>2, Zenon DEF Damaged, RepeatedIn, PlainBlk, Kept
    <3>5. Placed(t) /\ Filled(t) => Short'
      BY <1>1, <3>2, KeptShort, Zenon
    <3>6. InOrder(t) => InOrder(tftp)'
      <4>1. \A s \in Tids : srv'[s] <= 1
        BY <3>1 DEF NoAnswer, Sources
      <4>2. QED
        BY <2>8, <3>2, <4>1, Zenon DEF InOrder, Kept
    <3>7. Long'
      BY <2>7, <3>2, <3>3, <3>4, <3>5, <3>6, Zenon DEF Long, Fine, Short
    <3>8. QED
      BY <1>1, <2>2, <3>2, <3>7, Zenon DEF Kept
  <2>9. CASE t.sock # "resolving"
    <3>1. Transmit(t)
      BY <2>3, <2>9, Zenon
    <3>2. QED
      BY <1>1, <2>2, <2>4, <2>7, <3>1, TransmitLong, Zenon
  <2>10. QED
    BY <2>8, <2>9, Zenon
<1>3. CASE Resolves
  <2>1. PICK sock \in {"open", "closed"} : tftp' = [tftp EXCEPT !.sock = sock]
    BY <1>3, Zenon DEF Resolves
  <2>2. /\ Kept(tftp, tftp') /\ tftp'.status = tftp.status /\ tftp'.mc = tftp.mc
        /\ tftp'.sock # "resolving" /\ srv' = srv
    BY <1>1, <1>3, <2>1, Zenon DEF Requests, Kept, Resolves
  <2>3. Plain(tftp)' /\ (Placed(tftp) /\ Filled(tftp) => Short')
    BY <1>1, <2>2, KeptShort, Zenon DEF Plain, Kept
  <2>4. Damaged(tftp) => Damaged(tftp)'
    BY <1>1, <2>2, Zenon DEF Damaged, RepeatedIn, PlainBlk, Kept
  <2>5. InOrder(tftp) => InOrder(tftp)'
    BY <2>2, Zenon DEF InOrder, Kept
  <2>6. Long'
    BY <1>1, <2>3, <2>4, <2>5, Zenon DEF Long, Fine, Short
  <2>7. QED
    BY <1>1, <2>2, <2>6, Zenon DEF Kept
<1>4. CASE ReceivesUnicast
  <2>1. PICK p \in UnicastPackets, ok \in BOOLEAN : Transmit(tftp_socket_deliver_iob(tftp, p, ok))
    BY <1>4, Zenon DEF ReceivesUnicast
  <2>2. Expected(tftp, p) /\ Fresh(tftp, p) /\ tftp.sock = "open"
    BY <1>1, <1>4, <2>1, Packets, FreshPackets, Zenon DEF Expected, ReceivesUnicast
  <2> DEFINE k == [tftp EXCEPT !.flags = @ \cup {"SEND_ACK"}]
             u == tftp_rx(k, p, ok)
  <2>3. /\ Listening(tftp, k) /\ Sized(k) /\ Runs(k) /\ Settled(k) /\ k.tx = "none" /\ Expected(k, p)
        /\ k.peer = tftp.peer
    BY <1>1, <2>2, Delivered, SendAckSet, Zenon
  <2>4. Transmit(u)
    BY <2>1, Zenon DEF tftp_socket_deliver_iob
  <2> HIDE DEF k
  <2>5. /\ k.image = tftp.image /\ k.sock = "open" /\ Plain(k) /\ Fresh(k, p)
    BY <2>2, <2>3, Zenon DEF Listening, Plain, Fresh
  <2>6. Fine(k)
    <3>1. Damaged(tftp) => Damaged(k)
      BY <2>3, DamageStays, Zenon DEF Listening
    <3>2. Placed(tftp) /\ Filled(tftp) => Placed(k) /\ Filled(k)
      BY <1>1, <2>3, Zenon DEF Listening, Placed, Filled
    <3>3. InOrder(tftp) => InOrder(k)
      BY <2>3, Zenon DEF Listening, InOrder
    <3>4. QED
      BY <1>1, <3>1, <3>2, <3>3, Zenon DEF Fine
  <2>7. k.image \subseteq u.image /\ (u.status = "run" => Plain(u)) /\ Fine(u)
    BY <1>1, <2>1, <2>3, <2>5, <2>6, ReceivedPlain, Zenon
  <2>8. u \in Requests
    BY <1>1, <2>1, <2>3, Received, Zenon DEF Ready, Good, Sized
  <2> HIDE DEF u
  <2>9. QED
    BY <1>1, <2>4, <2>5, <2>7, <2>8, TransmitLong, Zenon
<1>5. CASE ReceivesMulticast
  BY <1>5, Zenon DEF ReceivesMulticast, Plain
<1>6. CASE tftp_xfer_close
  <2>1. Kept(tftp, tftp') /\ tftp'.status = "failed"
    BY <1>1, <1>6, Done, Zenon DEF tftp_xfer_close, Runs
  <2>2. Damaged(tftp) => Damaged(tftp)'
    BY <1>1, <2>1, Zenon DEF Damaged, RepeatedIn, PlainBlk, Kept
  <2>3. Placed(tftp) => Short'
    BY <1>1, <2>1, Zenon DEF Short, Placed, Filled, Kept, Block
  <2>4. Long'
    BY <2>1, <2>2, <2>3, Zenon DEF Long, Fine, Short
  <2>5. QED
    BY <1>1, <2>1, <2>4, Zenon DEF Kept
<1>7. QED
  BY <1>2, <1>3, <1>4, <1>5, <1>6, Zenon DEF Next

LEMMA NextLong ==
  ASSUME Timely, IInv, Long, Next
  PROVE  Long' /\ tftp.image \subseteq tftp'.image /\ size' = size /\ tftp.status = "run"
<1>1. tftp.status = "run"
  BY Zenon DEF Next, Expires, Resolves, ReceivesUnicast, ReceivesMulticast, tftp_xfer_close
<1>2. CASE ShortFile /\ Short
  <2>1. Short' /\ tftp.image \subseteq tftp'.image /\ size' = size
    BY <1>2, NextShort, Zenon
  <2>2. ShortFile'
    BY <1>2, <2>1, Zenon DEF ShortFile, num_blocks
  <2>3. QED
    BY <1>1, <2>1, <2>2, Zenon DEF Long
<1>3. CASE Plain(tftp) /\ Fine(tftp)
  BY <1>3, NextPlain, Zenon
<1>4. QED
  BY <1>1, <1>2, <1>3, Zenon DEF Long

LEMMA InvariantLong ==
  ASSUME Timely
  PROVE  Spec => []Long
<1>1. Init => Long
  <2> SUFFICES ASSUME Init PROVE Long
    BY Zenon
  <2>1. PICK scheme \in Schemes : Numbered(scheme) /\ tftp = tftp_core_open(scheme)
    BY Zenon DEF Init
  <2>2. /\ tftp.status = "run" /\ tftp.bitmap = EmptyBitmap /\ tftp.tsize = 0
        /\ tftp.filesize = 0 /\ tftp.image = {} /\ tftp.peer = "none"
        /\ tftp.flags = flags_of(scheme) /\ ("MTFTP_RECOVERY" \notin tftp.flags => ~tftp.mc)
    BY <2>1, Opened, Zenon
  <2>3. size \in Nat
    BY TftpAssumption, Zenon DEF Init
  <2>4. Short
    BY <2>2, <2>3 DEF Short, Placed, Filled, EmptyBitmap
  <2>5. CASE scheme \in {"tftp", "tftpsize"}
    <3>1. Plain(tftp)
      BY <2>2, <2>5 DEF Plain, flags_of
    <3>2. InOrder(tftp)
      <4>1. tftp.bitmap.bits = {} /\ tftp.bitmap.first_gap = 0
        BY <2>2 DEF EmptyBitmap
      <4>2. \A s \in Tids : srv[s] <= 1
        BY DEF Init, NoAnswer, Sources
      <4>3. 0 .. 0 - 1 = {}
        OBVIOUS
      <4>4. QED
        BY <2>2, <4>1, <4>2, <4>3, Zenon DEF InOrder
    <3>3. QED
      BY <2>4, <3>1, <3>2, Zenon DEF Long, Fine, Short
  <2>6. CASE size \div DefaultBlk + 1 < Modulus /\ size \div ServerBlk + 1 < Modulus
    BY <2>4, <2>6, Zenon DEF Long, ShortFile, num_blocks
  <2>7. QED
    BY <2>1, <2>5, <2>6, Zenon DEF Numbered
<1>2. IInv /\ Long /\ [Next]_vars => Long'
  <2>1. Long /\ UNCHANGED vars => Long'
    <3> SUFFICES ASSUME Long, UNCHANGED vars PROVE Long'
      BY Zenon
    <3>1. tftp' = tftp /\ size' = size /\ opts' = opts /\ srv' = srv
      BY Zenon DEF vars
    <3>2. /\ ShortFile => ShortFile'
          /\ (Plain(tftp) => Plain(tftp)') /\ (InOrder(tftp) => InOrder(tftp)')
      BY <3>1, Zenon DEF ShortFile, Plain, InOrder
    <3>3. (Placed(tftp) => Placed(tftp)') /\ (Filled(tftp) => Filled(tftp)')
      BY <3>1, Zenon DEF Placed, Filled, Block
    <3>4. Damaged(tftp) => Damaged(tftp)'
      BY <3>1, Zenon DEF Damaged, RepeatedIn, PlainBlk
    <3>5. QED
      BY <3>1, <3>2, <3>3, <3>4, Zenon DEF Long, Fine, Short
  <2>2. QED
    BY <2>1, NextLong, Zenon
<1>3. QED
  BY <1>1, <1>2, Invariant, PTL DEF Spec

\* A transfer that is damaged shows it.
LEMMA DamageSeen == Damaged(tftp) => \E e \in tftp.image : Repeated(e)
  BY Zenon DEF Damaged, RepeatedIn, Repeated

\* Every block is put where it belongs in the file, for files of any length, until
\* a block is repeated at the end of a period of block numbers: tftp_rx_data takes
\* a packet for the block that the server sent, whatever is lost, repeated or
\* overtaken by less than a period, and after a return from MTFTP to TFTP too.
THEOREM DataSafe ==
  ASSUME Timely
  PROVE  Spec => []DataInPlace
<1>1. Long => DataInPlace
  BY DamageSeen, Zenon DEF Long, Fine, Short, Placed, DataInPlace
<1>2. QED
  BY <1>1, InvariantLong, PTL

\* A bitmap that is full stands for the whole file: the last of its blocks is
\* short, hence the last of the file.
Full == tftp.bitmap.length > 0 /\ tftp.bitmap.first_gap = tftp.bitmap.length

LEMMA Whole == IInv /\ Short /\ Full => Held = 0 .. size - 1
<1> SUFFICES ASSUME IInv, Short, Full PROVE Held = 0 .. size - 1
  BY Zenon
<1> DEFINE B == tftp.blksize
           k == tftp.filesize \div B
           last == size \div B
<1>1. /\ B \in Nat \ {0} /\ tftp.filesize \in Nat /\ size \in Nat
      /\ tftp.bitmap.length \in Nat
  BY TftpAssumption, Zenon DEF IInv, Good, Sized, Requests, Bitmaps, Server
<1>2. /\ 0 .. tftp.bitmap.length - 1 \subseteq tftp.bitmap.bits
      /\ tftp.bitmap.length = k + 1
  <2>1. Shape(tftp.bitmap) /\ tftp.bitmap.length = num_blocks(tftp.filesize, B)
    <3>1. Sized(tftp) /\ tftp.bitmap.length # 0
      BY <1>1 DEF IInv, Good, Full
    <3>2. QED
      BY <3>1, Zenon DEF Sized
  <2>2. QED
    BY <2>1, Zenon DEF Shape, Full, num_blocks
<1>3. \A b \in tftp.bitmap.bits : /\ Block(b, B) \in tftp.image
                                  /\ b * B + Block(b, B).len <= tftp.filesize
  BY Zenon DEF Short, Placed
<1>4. /\ k \in Nat /\ k * B <= tftp.filesize /\ tftp.filesize < k * B + B
      /\ last \in Nat /\ last * B <= size
  BY <1>1, DivFacts, Zenon
<1>5. k = last
  <2>1. SUFFICES ASSUME k # last PROVE FALSE
    BY Zenon
  <2>2. Block(k, B).len = B
    BY <2>1, Zenon DEF Block
  <2>3. k \in tftp.bitmap.bits
    BY <1>2, <1>4
  <2>4. k * B + B <= tftp.filesize
    BY <1>3, <2>2, <2>3, Zenon
  <2>5. QED
    BY <1>1, <1>4, <2>4
<1> HIDE DEF k
<1>6. ASSUME NEW u \in 0 .. size - 1
      PROVE  \E e \in tftp.image : e.at = e.from /\ e.at <= u /\ u < e.at + e.len
  <2> DEFINE b == u \div B
  <2>1. u \in Nat /\ b \in Nat /\ b * B <= u /\ u < b * B + B
    BY <1>1, DivFacts
  <2>2. b <= last
    BY <1>1, <2>1, DivMono
  <2> HIDE DEF b
  <2>3. Block(b, B) \in tftp.image
    BY <1>2, <1>3, <1>4, <1>5, <2>1, <2>2
  <2>4. b * B \in Nat
    BY <1>1, <2>1
  <2>5. Block(b, B).at = b * B /\ Block(b, B).from = b * B /\ u < b * B + Block(b, B).len
    <3>1. /\ Block(b, B).at = b * B /\ Block(b, B).from = b * B
          /\ Block(b, B).len \in {size - b * B, B}
      BY Zenon DEF Block
    <3> HIDE DEF B
    <3>2. QED
      BY <1>1, <2>1, <2>4, <3>1
  <2>6. QED
    BY <2>1, <2>3, <2>5, Zenon
<1>7. QED
  BY <1>6, Zenon DEF Held

\* The client implements Download, for files of any length: what the recipient
\* holds only grows, nothing happens after the end, and a file is reported complete
\* only when all of it is there, so tftp_rx_data never takes a bitmap that is full
\* for the part it knows as one that is full for the file.
THEOREM Implements ==
  ASSUME Timely
  PROVE  Spec => D!Init /\ [][D!Next]_(D!vars)
<1>1. Init => D!Init
  <2> SUFFICES ASSUME Init PROVE D!Init
    BY Zenon
  <2>1. PICK scheme \in Schemes : tftp = tftp_core_open(scheme)
    BY Zenon DEF Init
  <2>2. tftp.status = "run" /\ tftp.image = {}
    BY <2>1, Opened, Zenon
  <2>3. Held = {} /\ Outcome = "none"
    BY <2>2, Zenon DEF Held, Outcome
  <2>4. QED
    BY <2>3, Zenon DEF D!Init
<1>2. IInv /\ IInv' /\ Long /\ Long' /\ [Next]_vars => [D!Next]_(D!vars)
  <2> SUFFICES ASSUME IInv, IInv', Long, Long', [Next]_vars PROVE [D!Next]_(D!vars)
    BY Zenon
  <2>1. CASE UNCHANGED vars
    BY <2>1, Zenon DEF vars, D!vars, Held, Outcome, Repeated
  <2>2. CASE Next
    <3>1. size' = size /\ tftp.status = "run" /\ tftp.image \subseteq tftp'.image
      BY <2>2, NextLong, Zenon
    <3>2. Outcome = "none" /\ Outcome' \in {"none", "ended", "complete"}
      BY <3>1, Zenon DEF Outcome
    <3>3. Held \subseteq Held' /\ Held' \subseteq 0 .. size - 1
      BY <3>1, Zenon DEF Held
    <3>4. Outcome' = "complete" => Held' = 0 .. size - 1
      <4>1. SUFFICES ASSUME Outcome' = "complete" PROVE Held' = 0 .. size - 1
        BY Zenon
      <4>2. /\ tftp'.status = "ok" /\ "SIZEONLY" \notin tftp'.flags /\ tftp'.bitmap.length > 0
            /\ ~(\E e \in tftp.image : Repeated(e))'
        BY <4>1, Zenon DEF Outcome
      <4>3. ~Damaged(tftp)'
        BY <4>2, DamageSeen, PTL
      <4>4. Short'
        BY <4>3, Zenon DEF Long, Fine, Short
      <4>5. Full'
        BY <4>2, <4>4, Zenon DEF Short, Filled, Full
      <4>6. (Held = 0 .. size - 1)'
        BY <4>4, <4>5, Whole, PTL
      <4>7. QED
        BY <3>1, <4>6, Zenon
    <3>5. \E new \in SUBSET (0 .. size - 1) : Held' = Held \cup new
      BY <3>3, Zenon
    <3>6. D!Next
      BY <3>1, <3>2, <3>4, <3>5, Zenon DEF D!Next
    <3>7. QED
      BY <3>6, Zenon
  <2>3. QED
    BY <2>1, <2>2, Zenon
<1>3. QED
  BY <1>1, <1>2, Invariant, InvariantLong, PTL DEF Spec
=============================================================================

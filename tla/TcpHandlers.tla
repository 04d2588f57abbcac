------------------------------ MODULE TcpHandlers ------------------------------
(***************************************************************************)
(* What the handlers of tcp.c do to a connection: the states of one        *)
(* connection that are live, with w units written by the application and n *)
(* units sent by the peer, and that each handler leads from one to another *)
(* or deletes it.                                                          *)
(***************************************************************************)
EXTENDS TcpConnection, TLAPS

Seqs == 0 .. SeqMod - 1
Windows == {win \in Nat : win + MaxIn + 2 < SeqMod}

\* Where the connection is in its own sequence space and in the peer's.
Snd(t) == Minus(t.snd_seq, Isn)
Rcv(t) == Minus(t.rcv_ack, Iss)

IsConnection(t) ==
  t = [sent |-> t.sent, acked |-> t.acked, rcvd |-> t.rcvd, listed |-> t.listed,
       xfer_closed |-> t.xfer_closed, snd_seq |-> t.snd_seq, snd_sent |-> t.snd_sent,
       snd_win |-> t.snd_win, rcv_ack |-> t.rcv_ack, rcv_win |-> t.rcv_win,
       queue |-> t.queue, timer |-> t.timer, tx |-> t.tx]

Typed(t) ==
  /\ IsConnection(t)
  /\ t.snd_seq \in Seqs /\ t.rcv_ack \in Seqs
  /\ t.snd_sent \in Nat /\ t.snd_win \in Nat /\ t.rcv_win \in Windows
  /\ t.timer \in Timers

\* The eight states of a connection, and SYN acknowledged but not received, which
\* tcp_rx passes through.
FlagsOK(t) ==
  /\ t.sent \subseteq {"SYN", "ACK", "FIN"} /\ "SYN" \in t.sent
  /\ t.acked \subseteq t.sent \ {"ACK"} /\ t.rcvd \subseteq {"SYN", "FIN"}
  /\ "ACK" \in t.sent <=> "SYN" \in t.rcvd
  /\ "FIN" \in t.sent => "SYN" \in t.acked
  /\ "FIN" \in t.rcvd => "SYN" \in t.rcvd /\ "SYN" \in t.acked

\* The queue holds what was written and is not acknowledged; the SYN is alone at
\* the beginning of the sequence space and the FIN at its end.
Sending(t, w) ==
  /\ t.queue = Units(IF "SYN" \in t.acked THEN Snd(t) - 1 ELSE 0, w)
  /\ "SYN" \notin t.acked =>
       Snd(t) = 0 /\ t.snd_sent <= 1 /\ ("SYN" \in t.rcvd => t.snd_sent = 1)
  /\ "SYN" \in t.acked /\ "FIN" \notin t.sent =>
       Snd(t) \in 1 .. w + 1 /\ t.snd_sent <= w + 1 - Snd(t)
  /\ "FIN" \in t.sent \ t.acked => Snd(t) = w + 1 /\ t.snd_sent <= 1
  /\ "FIN" \in t.acked => Snd(t) = w + 2 /\ t.snd_sent = 0

Good(t, w) ==
  /\ Typed(t) /\ t.listed /\ FlagsOK(t) /\ Sending(t, w)
  /\ "FIN" \in t.sent => t.xfer_closed
  /\ t.timer.running /\ "FIN" \in t.acked => "FIN" \in t.rcvd

\* The FIN is held back while data are queued, and not longer.
Closes(t) ==
  t.xfer_closed /\ "FIN" \notin t.sent => "SYN" \in t.acked /\ t.queue # << >>

Established(t) == "SYN" \in t.acked => "SYN" \in t.rcvd

\* What has been received, of the n units of a peer that has sent its FIN or not.
Receiving(t, n, ended) ==
  "SYN" \in t.rcvd =>
    IF "FIN" \in t.rcvd THEN Rcv(t) = n + 2 /\ ended /\ t.xfer_closed
                        ELSE Rcv(t) \in 1 .. n + 1

Live(t, w, n, ended) ==
  Good(t, w) /\ Closes(t) /\ Established(t) /\ Receiving(t, n, ended)

Deleted(t) ==
  /\ Typed(t) /\ ~t.listed /\ t.xfer_closed
  /\ t.sent = {"RST"} /\ t.acked = {} /\ t.rcvd = {} /\ t.queue = << >> /\ ~t.timer.running

\* Something is to be sent, and what NoSilentStall says of it.
Unsent(t) == t.queue # << >> \/ TCP_FLAGS_SENDING(t) \cap {"SYN", "FIN"} # {}
Driven(t) == Unsent(t) /\ ~t.timer.running => t.queue # << >> /\ t.snd_win = 0

\* A segment the client may have transmitted: its place in the sequence space fits
\* what it carries.
Proper(p, t, w) ==
  \/ "RST" \in p.flags
  \/ /\ p.seq \in Seqs
     /\ \/ "SYN" \in p.flags /\ "FIN" \notin p.flags /\ p.seq = Isn /\ p.data = << >>
        \/ /\ "FIN" \in p.flags /\ "SYN" \notin p.flags /\ p.data = << >>
           /\ Minus(p.seq, Isn) = w + 1 /\ t.xfer_closed
        \/ /\ p.flags \cap {"SYN", "FIN"} = {} /\ Minus(p.seq, Isn) \in 1 .. w + 2
           /\ \/ p.data = << >>
              \/ \E e \in Minus(p.seq, Isn) .. w + 1 : p.data = Units(Minus(p.seq, Isn) - 1, e - 1)
     /\ "ACK" \in p.flags => "SYN" \in t.rcvd

Transmits(t, w) == t.tx = << >> \/ (t.tx = <<t.tx[1]>> /\ Proper(t.tx[1], t, w))

-----------------------------------------------------------------------------
(* Sequence numbers, units and the timer *)

\* Sequences of units: equality, concatenation and subsequences.
LEMMA SeqExt ==
  ASSUME NEW s \in Seq(Nat), NEW t \in Seq(Nat), Len(s) = Len(t),
         \A k \in 1 .. Len(s) : s[k] = t[k]
  PROVE  s = t
OBVIOUS

LEMMA Joined ==
  ASSUME NEW s \in Seq(Nat), NEW t \in Seq(Nat)
  PROVE  /\ s \o t \in Seq(Nat) /\ Len(s \o t) = Len(s) + Len(t)
         /\ \A k \in 1 .. Len(s) + Len(t) :
              (s \o t)[k] = IF k <= Len(s) THEN s[k] ELSE t[k - Len(s)]
OBVIOUS

LEMMA JoinedNone ==
  ASSUME NEW s \in Seq(Nat)
  PROVE  s \o << >> = s
OBVIOUS

LEMMA Part ==
  ASSUME NEW s, NEW m \in Int, NEW k \in Int, \A j \in m .. k : s[j] \in Nat
  PROVE  /\ SubSeq(s, m, k) \in Seq(Nat)
         /\ Len(SubSeq(s, m, k)) = IF m <= k THEN k - m + 1 ELSE 0
         /\ \A j \in 1 .. k - m + 1 : SubSeq(s, m, k)[j] = s[m + j - 1]
OBVIOUS

LEMMA PartNone ==
  ASSUME NEW s, NEW m \in Int, NEW k \in Int, k < m
  PROVE  SubSeq(s, m, k) = << >>
OBVIOUS

LEMMA ModFacts ==
  /\ \A x \in 0 .. SeqMod - 1 : x % SeqMod = x
  /\ \A x \in SeqMod .. 2 * SeqMod - 1 : x % SeqMod = x - SeqMod
<1>1. ASSUME NEW x \in 0 .. SeqMod - 1 PROVE x % SeqMod = x
  BY TcpAssumption
<1>2. ASSUME NEW x \in SeqMod .. 2 * SeqMod - 1 PROVE x % SeqMod = x - SeqMod
  BY TcpAssumption
<1> QED
  BY <1>1, <1>2, Zenon

LEMMA PlusMinus ==
  ASSUME NEW x \in Seqs, NEW y \in Seqs
  PROVE  /\ Plus(x, y) = IF x + y < SeqMod THEN x + y ELSE x + y - SeqMod
         /\ Minus(x, y) = IF x < y THEN x - y + SeqMod ELSE x - y
         /\ Plus(x, y) \in Seqs /\ Minus(x, y) \in Seqs
<1> USE TcpAssumption DEF Seqs
<1>1. Plus(x, y) = IF x + y < SeqMod THEN x + y ELSE x + y - SeqMod
  BY ModFacts DEF Plus
<1>2. Minus(x, y) = IF x < y THEN x - y + SeqMod ELSE x - y
  BY ModFacts DEF Minus
<1> QED
  BY <1>1, <1>2

\* Equal sequence numbers.
LEMMA MinusSelf == \A x \in Seqs : Minus(x, x) = 0
<1> SUFFICES ASSUME NEW x \in Seqs PROVE Minus(x, x) = 0
  BY Zenon
<1>1. Minus(x, x) = IF x < x THEN x - x + SeqMod ELSE x - x
  BY PlusMinus, Zenon
<1> QED
  BY <1>1, TcpAssumption DEF Seqs

LEMMA PlusFacts ==
  ASSUME NEW b \in Seqs, NEW m \in Seqs
  PROVE  /\ Plus(b, m) \in Seqs /\ Minus(m, b) \in Seqs
         /\ Minus(Plus(b, m), b) = m /\ Plus(b, Minus(m, b)) = m
<1>1. Plus(b, m) \in Seqs /\ Minus(m, b) \in Seqs
  BY PlusMinus, Zenon
<1>2. Plus(b, m) = IF b + m < SeqMod THEN b + m ELSE b + m - SeqMod
  BY PlusMinus, Zenon
<1>3. Minus(Plus(b, m), b) = IF Plus(b, m) < b THEN Plus(b, m) - b + SeqMod ELSE Plus(b, m) - b
  BY <1>1, PlusMinus, Zenon
<1>4. Minus(m, b) = IF m < b THEN m - b + SeqMod ELSE m - b
  BY PlusMinus, Zenon
<1>5. Plus(b, Minus(m, b)) = IF b + Minus(m, b) < SeqMod THEN b + Minus(m, b)
                             ELSE b + Minus(m, b) - SeqMod
  BY <1>1, PlusMinus, Zenon
<1> QED
  BY <1>1, <1>2, <1>3, <1>4, <1>5, TcpAssumption DEF Seqs

\* The distance between two sequence numbers, by where they are.
LEMMA Distance ==
  ASSUME NEW b \in Seqs, NEW m \in Seqs, NEW n \in Seqs
  PROVE  /\ Minus(Plus(b, m), Plus(b, n)) = IF m >= n THEN m - n ELSE m - n + SeqMod
         /\ m + n < SeqMod => Plus(Plus(b, m), n) = Plus(b, m + n)
<1>1. Plus(b, m) \in Seqs /\ Plus(b, n) \in Seqs
  BY PlusMinus, Zenon
<1>2. /\ Plus(b, m) = IF b + m < SeqMod THEN b + m ELSE b + m - SeqMod
      /\ Plus(b, n) = IF b + n < SeqMod THEN b + n ELSE b + n - SeqMod
  BY PlusMinus, Zenon
<1>3. Minus(Plus(b, m), Plus(b, n)) = IF Plus(b, m) < Plus(b, n)
                                      THEN Plus(b, m) - Plus(b, n) + SeqMod
                                      ELSE Plus(b, m) - Plus(b, n)
  BY <1>1, PlusMinus, Zenon
<1>4. Plus(Plus(b, m), n) = IF Plus(b, m) + n < SeqMod THEN Plus(b, m) + n
                            ELSE Plus(b, m) + n - SeqMod
  BY <1>1, PlusMinus, Zenon
<1>5. m + n < SeqMod => m + n \in Seqs
  BY TcpAssumption DEF Seqs
<1>6. m + n < SeqMod => Plus(b, m + n) = IF b + (m + n) < SeqMod THEN b + (m + n)
                                         ELSE b + (m + n) - SeqMod
  BY <1>5, PlusMinus
<1> QED
  BY <1>1, <1>2, <1>3, <1>4, <1>6, TcpAssumption DEF Seqs

LEMMA UnitsFacts ==
  ASSUME NEW from \in Nat, NEW to \in Nat
  PROVE  /\ Units(from, to) \in Seq(Nat)
         /\ Len(Units(from, to)) = IF from <= to THEN to - from ELSE 0
         /\ \A i \in 1 .. Len(Units(from, to)) : Units(from, to)[i] = from + i
         /\ Units(from, to) = << >> <=> to <= from
<1> DEFINE n == IF from <= to THEN to - from ELSE 0
<1>1. n \in Nat /\ 1 .. to - from = 1 .. n
  OBVIOUS
<1>2. Units(from, to) = [i \in 1 .. n |-> from + i]
  BY <1>1, Zenon DEF Units
<1>3. \A i \in 1 .. n : from + i \in Nat
  OBVIOUS
<1> HIDE DEF n
<1>4. Units(from, to) \in Seq(Nat) /\ Len(Units(from, to)) = n
  BY <1>1, <1>2, <1>3
<1> QED
  BY <1>2, <1>4 DEF n

LEMMA UnitsJoin ==
  ASSUME NEW a \in Nat, NEW b \in Nat, NEW c \in Nat, a <= b, b <= c
  PROVE  Units(a, b) \o Units(b, c) = Units(a, c)
<1> DEFINE s == Units(a, b)
           t == Units(b, c)
           u == Units(a, c)
<1>1. /\ s \in Seq(Nat) /\ Len(s) = IF a <= b THEN b - a ELSE 0
      /\ \A i \in 1 .. Len(s) : s[i] = a + i
  BY UnitsFacts, Zenon
<1>2. /\ t \in Seq(Nat) /\ Len(t) = IF b <= c THEN c - b ELSE 0
      /\ \A i \in 1 .. Len(t) : t[i] = b + i
  BY UnitsFacts, Zenon
<1>3. /\ u \in Seq(Nat) /\ Len(u) = IF a <= c THEN c - a ELSE 0
      /\ \A i \in 1 .. Len(u) : u[i] = a + i
  BY UnitsFacts, Zenon
<1> HIDE DEF s, t, u
<1>4. /\ s \o t \in Seq(Nat) /\ Len(s \o t) = Len(s) + Len(t)
      /\ \A i \in 1 .. Len(s) + Len(t) : (s \o t)[i] = IF i <= Len(s) THEN s[i]
                                                     ELSE t[i - Len(s)]
  BY <1>1, <1>2, Joined, Zenon
<1>5. Len(s) = b - a /\ Len(t) = c - b /\ Len(s \o t) = Len(u)
  BY <1>1, <1>2, <1>3, <1>4
<1>6. ASSUME NEW i \in 1 .. Len(s \o t)
      PROVE  (s \o t)[i] = u[i]
  <2>1. u[i] = a + i
    BY <1>3, <1>5, Zenon
  <2>2. CASE i <= Len(s)
    BY <1>1, <1>4, <2>1, <2>2
  <2>3. CASE i > Len(s)
    <3>1. i - Len(s) \in 1 .. Len(t) /\ (s \o t)[i] = t[i - Len(s)]
      BY <1>4, <1>5, <2>3, SMTT(30)
    <3>2. t[i - Len(s)] = b + (i - Len(s))
      BY <1>2, <3>1, Zenon
    <3> QED
      BY <1>5, <2>1, <3>1, <3>2
  <2> QED
    BY <1>5, <2>2, <2>3
<1>7. s \o t = u
  BY <1>3, <1>4, <1>5, <1>6, SeqExt, Zenon
<1> QED
  BY <1>7, Zenon DEF s, t, u

\* What is left of the units from a to c after the first n, and the first n.
LEMMA UnitsRest ==
  ASSUME NEW a \in Nat, NEW c \in Nat, NEW n \in Nat
  PROVE  LET s == Units(a, c) IN SubSeq(s, n + 1, Len(s)) = Units(a + n, c)
<1> DEFINE s == Units(a, c)
           u == Units(a + n, c)
           v == SubSeq(s, n + 1, Len(s))
<1>1. /\ s \in Seq(Nat) /\ Len(s) = IF a <= c THEN c - a ELSE 0
      /\ \A i \in 1 .. Len(s) : s[i] = a + i
  BY UnitsFacts, Zenon
<1>2. a + n \in Nat
  OBVIOUS
<1>3. /\ u \in Seq(Nat) /\ Len(u) = IF a + n <= c THEN c - (a + n) ELSE 0
      /\ \A i \in 1 .. Len(u) : u[i] = (a + n) + i
  BY <1>2, UnitsFacts, Zenon
<1> HIDE DEF s, u
<1>4. Len(s) \in Nat /\ \A i \in n + 1 .. Len(s) : s[i] \in Nat
  BY <1>1
<1>5. /\ v \in Seq(Nat) /\ Len(v) = IF n + 1 <= Len(s) THEN Len(s) - (n + 1) + 1 ELSE 0
      /\ \A i \in 1 .. Len(s) - (n + 1) + 1 : v[i] = s[(n + 1) + i - 1]
  <2> DEFINE m == n + 1
             k == Len(s)
  <2>1. m \in Int /\ k \in Int /\ \A i \in m .. k : s[i] \in Nat
    BY <1>4
  <2> HIDE DEF m, k
  <2>2. /\ SubSeq(s, m, k) \in Seq(Nat) /\ Len(SubSeq(s, m, k)) = IF m <= k THEN k - m + 1 ELSE 0
        /\ \A i \in 1 .. k - m + 1 : SubSeq(s, m, k)[i] = s[m + i - 1]
    BY <2>1, Part, Zenon
  <2> QED
    BY <2>2, Zenon DEF m, k
<1> HIDE DEF v
<1>6. Len(v) = Len(u)
  BY <1>1, <1>3, <1>5
<1>7. \A i \in 1 .. Len(v) : v[i] = u[i]
  BY <1>1, <1>3, <1>5, <1>6
<1>8. v = u
  BY <1>3, <1>5, <1>6, <1>7, SeqExt, Zenon
<1> QED
  BY <1>8, Zenon DEF s, u, v

LEMMA UnitsFirst ==
  ASSUME NEW a \in Nat, NEW c \in Nat, NEW n \in Nat, n <= Len(Units(a, c))
  PROVE  SubSeq(Units(a, c), 1, n) = Units(a, a + n)
<1> DEFINE s == Units(a, c)
           u == Units(a, a + n)
           v == SubSeq(s, 1, n)
<1>1. /\ s \in Seq(Nat) /\ n <= Len(s) /\ \A i \in 1 .. Len(s) : s[i] = a + i
  BY UnitsFacts, Zenon
<1>2. u \in Seq(Nat) /\ Len(u) = n /\ \A i \in 1 .. Len(u) : u[i] = a + i
  <2> DEFINE e == a + n
  <2>1. e \in Nat /\ e - a = n /\ a <= e
    OBVIOUS
  <2> HIDE DEF e
  <2>2. /\ Units(a, e) \in Seq(Nat) /\ Len(Units(a, e)) = IF a <= e THEN e - a ELSE 0
        /\ \A i \in 1 .. Len(Units(a, e)) : Units(a, e)[i] = a + i
    BY <2>1, UnitsFacts, Zenon
  <2>3. Len(Units(a, e)) = n
    BY <2>1, <2>2, Zenon
  <2> QED
    BY <2>2, <2>3, Zenon DEF e
<1> HIDE DEF s, u
<1>3. \A i \in 1 .. n : s[i] \in Nat
  BY <1>1
<1>4. /\ v \in Seq(Nat) /\ Len(v) = IF 1 <= n THEN n - 1 + 1 ELSE 0
      /\ \A i \in 1 .. n - 1 + 1 : v[i] = s[1 + i - 1]
  BY <1>3, Part
<1> HIDE DEF v
<1>5. Len(v) = Len(u)
  BY <1>2, <1>4
<1>6. ASSUME NEW i \in 1 .. Len(v) PROVE v[i] = u[i]
  <2>1. i \in 1 .. n /\ i \in 1 .. Len(s) /\ i \in 1 .. Len(u)
    BY <1>1, <1>2, <1>5
  <2>2. v[i] = s[i]
    BY <1>4, <2>1
  <2> QED
    BY <1>1, <1>2, <2>1, <2>2, Zenon
<1>7. v = u
  BY <1>2, <1>4, <1>5, <1>6, SeqExt, Zenon
<1> QED
  BY <1>7, Zenon DEF s, u, v

\* The bounds on the streams keep them within the sequence space.
LEMMA Bounds ==
  /\ Isn \in Seqs /\ Iss \in Seqs /\ SeqMod \in Nat
  /\ \A w \in 0 .. MaxOut : w \in Nat /\ w + 2 \in Seqs /\ 2 * w + 4 < SeqMod
  /\ \A n \in 0 .. MaxIn : n \in Nat /\ n + 2 \in Seqs /\ 2 * n + 4 < SeqMod
BY TcpAssumption DEF Seqs

\* A place in a stream of n units, and the k units from there to the unit to.
LEMMA Places ==
  ASSUME NEW n \in Nat, n + 2 \in Seqs
  PROVE  /\ n + 1 \in Seqs /\ (\A r \in 1 .. n + 1 : r - 1 \in Nat) /\ 0 .. n \subseteq Nat
         /\ \A r \in 1 .. n + 1, to \in 0 .. n, k \in Int :
              r - 1 < to /\ k = to - (r - 1) =>
                k \in Nat /\ r + k \in Seqs /\ r + k \in 1 .. n + 1
BY TcpAssumption DEF Seqs

\* A segment from beyond the place r reaches, seen from there, round the sequence space.
LEMMA Beyond ==
  ASSUME NEW n \in Nat, 2 * n + 4 < SeqMod, SeqMod \in Nat, NEW from \in 0 .. n,
         NEW to \in 0 .. n, NEW r \in 1 .. n + 2
  PROVE  to <= from + (r - (1 + from) + SeqMod)
OBVIOUS

\* One more unit is written.
LEMMA OneMore ==
  ASSUME NEW w \in Nat, NEW s, s \in 1 .. w + 1, NEW k \in Nat, k <= w + 1 - s
  PROVE  s \in 1 .. (w + 1) + 1 /\ k <= (w + 1) + 1 - s
OBVIOUS

\* Sums, as they occur at the edge of a window.
LEMMA SumsOrdered ==
  ASSUME NEW a \in Nat, NEW b \in Nat, NEW c \in Nat, NEW d \in Nat, NEW e \in Nat,
         NEW f \in Nat, a + b >= c + d, c + d >= e + f
  PROVE  a + b >= e + f
OBVIOUS

LEMMA SumsKept ==
  ASSUME NEW a \in Nat, NEW x \in Nat
  PROVE  a + x >= a + x /\ a = a + 0
OBVIOUS

LEMMA SumsCompared ==
  ASSUME NEW a \in Nat, NEW x \in Nat, NEW y \in Nat, a + x >= a + y
  PROVE  x >= y
OBVIOUS

LEMMA SumsMoved ==
  ASSUME NEW a \in Nat, NEW k \in Nat, NEW x \in Nat, NEW y \in Nat, x + k >= y
  PROVE  (a + k) + x >= a + y
OBVIOUS

LEMMA SumsAtEnd ==
  ASSUME NEW a \in Nat, NEW x \in Nat, NEW y \in Nat, x + 1 >= y
  PROVE  (a + 2) + x >= (a + 1) + y
OBVIOUS

LEMMA NotMore ==
  ASSUME NEW x \in Nat, NEW y \in Nat, ~(x > y)
  PROVE  x <= y
OBVIOUS

LEMMA SumsJoined ==
  ASSUME NEW x \in Nat, NEW k \in Nat, NEW y \in Nat, NEW z \in Nat, x + k >= y, y >= z
  PROVE  x + k >= z
OBVIOUS

LEMMA TimerFacts ==
  ASSUME NEW timer \in Timers
  PROVE  /\ start_timer(timer) \in Timers /\ start_timer(timer).running
         /\ stop_timer(timer, 0) \in Timers /\ ~stop_timer(timer, 0).running
         /\ timer_expired(timer) \in Timers /\ ~timer_expired(timer).running
<1> USE TimeoutAssumption DEF Timers
<1>1. start_timer(timer) \in Timers /\ start_timer(timer).running
  BY Zenon DEF start_timer
<1>2. stop_timer(timer, 0) \in Timers /\ ~stop_timer(timer, 0).running
  <2> DEFINE rest == timer.timeout - timer.timeout \div 8 + 0 \div 2
  <2>1. rest \in Nat /\ (timer.count > 0 => timer.count - 1 \in Nat)
    OBVIOUS
  <2>2. \/ stop_timer(timer, 0) = timer /\ ~timer.running
        \/ stop_timer(timer, 0) = [timer EXCEPT !.running = FALSE, !.count = timer.count - 1]
             /\ timer.count > 0
        \/ stop_timer(timer, 0) = [timer EXCEPT !.running = FALSE, !.timeout = rest]
    BY Zenon DEF stop_timer
  <2> HIDE DEF rest
  <2> QED
    BY <2>1, <2>2, Zenon
<1>3. timer_expired(timer) \in Timers /\ ~timer_expired(timer).running
  BY DEF timer_expired
<1> QED
  BY <1>1, <1>2, <1>3, Zenon

-----------------------------------------------------------------------------
(* Transmitting *)

SameSnd(t, u) ==
  /\ u.sent = t.sent /\ u.acked = t.acked /\ u.xfer_closed = t.xfer_closed
  /\ u.snd_seq = t.snd_seq /\ u.snd_win = t.snd_win /\ u.queue = t.queue
SameRcv(t, u) == u.rcvd = t.rcvd /\ u.rcv_ack = t.rcv_ack

\* How much tcp_xmit takes from the queue: nothing along with a SYN or a FIN.
LEMMA XmitLength ==
  ASSUME NEW w \in 0 .. MaxOut, NEW t, Good(t, w),
         NEW len, len = Lesser(Len(t.queue), tcp_xmit_win(t))
  PROVE  /\ len \in Nat /\ len <= Len(t.queue) /\ t.queue \in Seq(Nat)
         /\ TCP_FLAGS_SENDING(t) \cap {"SYN", "FIN"} # {} => len = 0
         /\ TCP_FLAGS_SENDING(t) \cap {"SYN", "FIN"} = {} => "SYN" \in t.acked
         /\ len > 0 => "SYN" \in t.acked /\ "FIN" \notin t.sent
         /\ "SYN" \in t.acked /\ "FIN" \notin t.sent =>
              Len(t.queue) = w + 1 - Snd(t) /\ Snd(t) \in 1 .. w + 1
         /\ "SYN" \in t.acked /\ "FIN" \in t.sent => t.queue = << >>
         /\ /\ len = 0 /\ TCP_FLAGS_SENDING(t) \cap {"SYN", "FIN"} = {} /\ t.queue # << >>
            => t.snd_win = 0
<1>1. w \in Nat
  BY TcpAssumption
<1>2. ("SYN" \in t.acked => Snd(t) - 1 \in Nat) /\ t.snd_win \in Nat /\ PathMtu \in Nat \ {0}
  BY <1>1, TcpAssumption DEF Good, Sending, FlagsOK, Typed
<1>3. t.queue \in Seq(Nat)
  <2> DEFINE b == IF "SYN" \in t.acked THEN Snd(t) - 1 ELSE 0
  <2>1. b \in Nat /\ t.queue = Units(b, w)
    BY <1>1, <1>2, Zenon DEF Good, Sending
  <2> HIDE DEF b
  <2> QED
    BY <1>1, <2>1, UnitsFacts, ZenonT(30)
<1>4. "SYN" \in t.acked /\ "FIN" \notin t.sent =>
        Len(t.queue) = w + 1 - Snd(t) /\ Snd(t) \in 1 .. w + 1
  <2> SUFFICES ASSUME "SYN" \in t.acked, "FIN" \notin t.sent
               PROVE  Len(t.queue) = w + 1 - Snd(t) /\ Snd(t) \in 1 .. w + 1
    BY Zenon
  <2> DEFINE b == Snd(t) - 1
  <2>1. t.queue = Units(b, w) /\ b \in Nat /\ b <= w /\ Snd(t) \in 1 .. w + 1
    BY <1>1, <1>2 DEF Good, Sending
  <2>2. Len(Units(b, w)) = IF b <= w THEN w - b ELSE 0
    BY <1>1, <2>1, UnitsFacts, Zenon
  <2> QED
    BY <1>1, <2>1, <2>2
<1>5. "SYN" \in t.acked /\ "FIN" \in t.sent => t.queue = << >>
  <2> SUFFICES ASSUME "SYN" \in t.acked, "FIN" \in t.sent PROVE t.queue = << >>
    BY Zenon
  <2> DEFINE b == Snd(t) - 1
  <2>1. t.queue = Units(b, w) /\ b \in Nat /\ w <= b
    BY <1>1, <1>2 DEF Good, Sending
  <2>2. Units(b, w) = << >> <=> w <= b
    BY <1>1, <2>1, UnitsFacts, ZenonT(30)
  <2> QED
    BY <2>1, <2>2, Zenon
<1>6. /\ TCP_FLAGS_SENDING(t) \cap {"SYN", "FIN"} # {} => ~TCP_CAN_SEND_DATA(t)
      /\ TCP_FLAGS_SENDING(t) \cap {"SYN", "FIN"} = {} => "SYN" \in t.acked
  BY Zenon DEF Good, FlagsOK, TCP_FLAGS_SENDING, TCP_CAN_SEND_DATA
<1>7. tcp_xmit_win(t) \in Nat /\ (~TCP_CAN_SEND_DATA(t) => tcp_xmit_win(t) = 0)
      /\ (TCP_CAN_SEND_DATA(t) /\ tcp_xmit_win(t) = 0 => t.snd_win = 0)
  BY <1>2, Zenon DEF tcp_xmit_win, Lesser
<1>8. Len(t.queue) \in Nat /\ (t.queue # << >> => Len(t.queue) > 0)
  BY <1>3
<1>9. len \in Nat /\ len <= Len(t.queue) /\ len <= tcp_xmit_win(t)
      /\ (len = Len(t.queue) \/ len = tcp_xmit_win(t))
  BY <1>7, <1>8 DEF Lesser
<1> HIDE DEF TCP_FLAGS_SENDING, tcp_xmit_win
<1> QED
  BY <1>3, <1>4, <1>5, <1>6, <1>7, <1>8, <1>9 DEF TCP_CAN_SEND_DATA

\* tcp_xmit keeps the connection, leaves it with its timer running if anything was
\* sent, and its segment is a proper one.
LEMMA Xmit ==
  ASSUME NEW w \in 0 .. MaxOut, NEW t, Good(t, w), NEW force, NEW win \in Windows,
         NEW u, u = tcp_xmit(t, force, win)
  PROVE  /\ Good(u, w) /\ SameSnd(t, u) /\ SameRcv(t, u) /\ u.rcv_win >= t.rcv_win
         /\ Driven(u) /\ (Transmits(t, w) => Transmits(u, w))
<1> DEFINE len == Lesser(Len(t.queue), tcp_xmit_win(t))
           flags == TCP_FLAGS_SENDING(t)
           seq_len == len + (IF flags \cap {"SYN", "FIN"} # {} THEN 1 ELSE 0)
           timer == IF seq_len > 0 THEN start_timer(t.timer) ELSE t.timer
           rcv_win == IF t.rcv_win < win THEN win ELSE t.rcv_win
           p == [flags |-> flags, seq |-> t.snd_seq, ack |-> t.rcv_ack,
                 data |-> SubSeq(t.queue, 1, len)]
<1>1. \/ u = t /\ t.timer.running
      \/ ~t.timer.running /\ seq_len = 0 /\ u = [t EXCEPT !.snd_sent = 0]
      \/ /\ ~t.timer.running
         /\ u = [t EXCEPT !.snd_sent = seq_len, !.rcv_win = rcv_win, !.timer = timer, !.tx = <<p>>]
  BY Zenon DEF tcp_xmit, Expanded, NeedsTimer
<1>2. /\ len \in Nat /\ len <= Len(t.queue) /\ t.queue \in Seq(Nat)
      /\ flags \cap {"SYN", "FIN"} # {} => len = 0
      /\ flags \cap {"SYN", "FIN"} = {} => "SYN" \in t.acked
      /\ len > 0 => "SYN" \in t.acked /\ "FIN" \notin t.sent
      /\ "SYN" \in t.acked /\ "FIN" \notin t.sent =>
           Len(t.queue) = w + 1 - Snd(t) /\ Snd(t) \in 1 .. w + 1
      /\ "SYN" \in t.acked /\ "FIN" \in t.sent => t.queue = << >>
      /\ len = 0 /\ flags \cap {"SYN", "FIN"} = {} /\ t.queue # << >> => t.snd_win = 0
  BY XmitLength, Zenon
<1>3. timer \in Timers /\ (seq_len > 0 => timer.running) /\ (seq_len = 0 => timer = t.timer)
  BY TimerFacts DEF Good, Typed
<1>4. rcv_win \in Windows /\ rcv_win >= t.rcv_win
  BY DEF Good, Typed, Windows
<1>5. w \in Nat
  BY TcpAssumption
<1> HIDE DEF len, timer, rcv_win
<1>6. seq_len \in Nat /\ (flags \cap {"SYN", "FIN"} # {} => seq_len = 1)
      /\ (flags \cap {"SYN", "FIN"} = {} => seq_len = len)
  BY <1>2
<1> HIDE DEF seq_len
<1>7. IsConnection(t)
  BY Zenon DEF Good, Typed
<1>8. /\ u.sent = t.sent /\ u.acked = t.acked /\ u.xfer_closed = t.xfer_closed
      /\ u.snd_seq = t.snd_seq /\ u.snd_win = t.snd_win /\ u.queue = t.queue
      /\ u.rcvd = t.rcvd /\ u.rcv_ack = t.rcv_ack /\ u.listed = t.listed
      /\ IsConnection(u)
  BY <1>1, <1>7, ZenonT(30) DEF IsConnection
<1>9. \/ u = t /\ t.timer.running
      \/ /\ ~t.timer.running /\ u.snd_sent = seq_len
         /\ u.timer = timer \/ (seq_len = 0 /\ u.timer = t.timer)
         /\ u.rcv_win \in {rcv_win, t.rcv_win}
  BY <1>1, <1>7, Zenon DEF IsConnection
<1>10. Typed(u) /\ u.rcv_win >= t.rcv_win
  BY <1>3, <1>4, <1>6, <1>8, <1>9 DEF Good, Typed, Windows
<1>11. Sending(u, w)
  <2>1. CASE u = t
    BY <2>1, Zenon DEF Good
  <2>2. CASE u.snd_sent = seq_len
    <3>1. "SYN" \notin t.acked => seq_len = 1
      BY <1>6, Zenon DEF Good, FlagsOK, TCP_FLAGS_SENDING
    <3>2. "SYN" \in t.acked /\ "FIN" \notin t.sent => seq_len = len /\ len <= w + 1 - Snd(t)
      BY <1>2, <1>6, Zenon DEF Good, FlagsOK, TCP_FLAGS_SENDING
    <3>3. "FIN" \in t.sent \ t.acked => seq_len <= 1
      BY <1>6 DEF Good, FlagsOK, TCP_FLAGS_SENDING
    <3>4. "FIN" \in t.acked => seq_len = 0
      BY <1>2, <1>6 DEF Good, FlagsOK, TCP_FLAGS_SENDING
    <3> QED
      BY <1>5, <1>8, <2>2, <3>1, <3>2, <3>3, <3>4 DEF Good, Sending, Snd
  <2> QED
    BY <1>9, <2>1, <2>2, Zenon
<1>12. u.timer.running /\ "FIN" \in t.acked => "FIN" \in t.rcvd
  <2>1. "FIN" \in t.acked => seq_len = 0
    BY <1>2, <1>6 DEF Good, FlagsOK, TCP_FLAGS_SENDING
  <2> QED
    BY <1>3, <1>9, <2>1, Zenon DEF Good
<1>13. Good(u, w)
  BY <1>8, <1>10, <1>11, <1>12, Zenon DEF Good, FlagsOK
<1>14. Driven(u)
  <2>1. Unsent(u) /\ ~u.timer.running => seq_len = 0
    BY <1>3, <1>6, <1>9
  <2>2. Unsent(u) <=> (t.queue # << >> \/ flags \cap {"SYN", "FIN"} # {})
    BY <1>8, Zenon DEF Unsent, TCP_FLAGS_SENDING
  <2> QED
    BY <1>2, <1>6, <1>8, <2>1, <2>2 DEF Driven
<1>15. ASSUME u.tx = <<p>> PROVE Transmits(u, w)
  <2>1. p.seq \in Seqs /\ p.flags = flags /\ p.seq = t.snd_seq /\ p.data = SubSeq(t.queue, 1, len)
    BY Zenon DEF Good, Typed
  <2>2. len = 0 => p.data = << >>
    BY <1>2, <2>1
  <2> HIDE DEF p
  <2> SUFFICES Proper(p, u, w)
    BY <1>15 DEF Transmits
  <2>3. "ACK" \in flags => "SYN" \in u.rcvd
    BY <1>8, Zenon DEF Good, FlagsOK, TCP_FLAGS_SENDING
  <2>4. CASE "SYN" \in flags
    <3>1. "FIN" \notin flags /\ t.snd_seq = Isn
      <4>1. "SYN" \notin t.acked /\ "FIN" \notin t.sent /\ Snd(t) = 0 /\ t.snd_seq \in Seqs
        BY <2>4, Zenon DEF Good, Sending, FlagsOK, TCP_FLAGS_SENDING, Typed
      <4>2. Isn \in Seqs
        BY TcpAssumption, Zenon DEF Seqs
      <4>3. Minus(t.snd_seq, Isn) = IF t.snd_seq < Isn THEN t.snd_seq - Isn + SeqMod
                                    ELSE t.snd_seq - Isn
        BY <4>1, <4>2, PlusMinus, Zenon
      <4> QED
        BY <4>1, <4>2, <4>3, TcpAssumption DEF Snd, Seqs, TCP_FLAGS_SENDING
    <3> QED
      BY <1>2, <2>1, <2>2, <2>3, <2>4, <3>1, Zenon DEF Proper
  <2>5. CASE "FIN" \in flags
    <3>1. Snd(t) = w + 1 /\ "SYN" \notin flags /\ t.xfer_closed
      BY <2>5, Zenon DEF Good, Sending, FlagsOK, TCP_FLAGS_SENDING
    <3> QED
      BY <1>2, <1>8, <2>1, <2>2, <2>3, <2>5, <3>1, Zenon DEF Proper, Snd
  <2>6. CASE flags \cap {"SYN", "FIN"} = {}
    <3>1. Snd(t) \in 1 .. w + 2
      BY <1>2, <1>5, <2>6 DEF Good, Sending, TCP_FLAGS_SENDING
    <3>2. ASSUME len > 0
          PROVE  \E e \in Snd(t) .. w + 1 : p.data = Units(Snd(t) - 1, e - 1)
      <4> DEFINE b == Snd(t) - 1
      <4>1. b \in Nat /\ t.queue = Units(b, w) /\ len <= Len(Units(b, w)) /\ b + len <= w
        BY <1>2, <1>5, <3>2, SMTT(30) DEF Good, Sending
      <4>2. len \in Nat
        BY <1>2, Zenon
      <4>3. b + len + 1 \in Snd(t) .. w + 1 /\ (b + len + 1) - 1 = b + len
        BY <1>5, <3>1, <4>1, <4>2, SMTT(30)
      <4> HIDE DEF b
      <4>4. SubSeq(Units(b, w), 1, len) = Units(b, b + len)
        BY <1>5, <4>1, <4>2, UnitsFirst, Zenon
      <4> QED
        BY <2>1, <4>1, <4>3, <4>4, Zenon DEF b
    <3> QED
      BY <1>2, <2>1, <2>2, <2>3, <2>6, <3>1, <3>2 DEF Proper, Snd
  <2> QED
    BY <2>4, <2>5, <2>6, Zenon
<1>16. u.tx = <<p>> \/ u.tx = t.tx
  BY <1>1, <1>7, Zenon DEF IsConnection
<1>17. u.tx = t.tx /\ Transmits(t, w) => Transmits(u, w)
  BY <1>8, Zenon DEF Transmits, Proper
<1> QED
  BY <1>8, <1>10, <1>13, <1>14, <1>15, <1>16, <1>17, Zenon DEF SameSnd, SameRcv

-----------------------------------------------------------------------------
(* Acknowledgements and closing *)

\* An acknowledgement that tcp_rx_ack accepts is of a place not yet acknowledged.
LEMMA AckPlace ==
  ASSUME NEW w \in 0 .. MaxOut, NEW t, Good(t, w), NEW a \in 1 .. w + 2,
         NEW n, n = ack_len(t, Plus(Isn, a))
  PROVE  /\ n \in Nat /\ Snd(t) \in Nat
         /\ n <= t.snd_sent /\ n # 0 => a = Snd(t) + n
         /\ Snd(t) = 0 => n = a
<1> DEFINE s == Snd(t)
<1>1. w \in Nat /\ w + 2 \in Seqs /\ 2 * w + 4 < SeqMod /\ Isn \in Seqs /\ a \in Seqs
      /\ SeqMod \in Nat
  BY Bounds DEF Seqs
<1>2. t.snd_seq \in Seqs /\ s \in Seqs /\ t.snd_seq = Plus(Isn, s)
  BY <1>1, PlusFacts, Zenon DEF Good, Typed, Snd
<1>3. t.snd_sent \in Nat /\ t.snd_sent <= w + 1
  BY <1>1, <1>2 DEF Good, Typed, Sending, FlagsOK, Seqs
<1>4. s <= w + 2
  BY <1>1, <1>2 DEF Good, Sending, FlagsOK
<1> HIDE DEF s
<1>5. Minus(Plus(Isn, a), Plus(Isn, s)) = IF a >= s THEN a - s ELSE a - s + SeqMod
  BY <1>1, <1>2, Distance
<1>6. n = IF a >= s THEN a - s ELSE a - s + SeqMod
  BY <1>2, <1>5, Zenon DEF ack_len
<1> QED
  BY <1>1, <1>2, <1>3, <1>4, <1>6 DEF Seqs, s

\* What an acknowledgement of the place a does.
Acknowledges(t, u, w, a) ==
  /\ Good(u, w) /\ SameRcv(t, u) /\ u.rcv_win = t.rcv_win /\ u.tx = t.tx
  /\ u.xfer_closed = t.xfer_closed /\ t.acked \subseteq u.acked
  /\ u = t \/ ("SYN" \in u.acked /\ Closes(u))
  /\ "SYN" \notin t.acked /\ a <= t.snd_sent => "SYN" \in u.acked

LEMMA RxAck ==
  ASSUME NEW w \in 0 .. MaxOut, NEW t, Good(t, w), NEW a \in 1 .. w + 2, NEW win \in Nat,
         NEW u, u = tcp_rx_ack(t, Plus(Isn, a), win)
  PROVE  Acknowledges(t, u, w, a)
<1> DEFINE ack == Plus(Isn, a)
           n == ack_len(t, ack)
           acked_flags == TCP_FLAGS_SENDING(t) \cap {"SYN", "FIN"}
           len == n - (IF acked_flags # {} THEN 1 ELSE 0)
           queue == SubSeq(t.queue, len + 1, Len(t.queue))
           timer == stop_timer(t.timer, 0)
           sent == IF queue = << >> /\ t.xfer_closed THEN t.sent \cup {"FIN"} ELSE t.sent
<1>1. IsConnection(t)
  BY Zenon DEF Good, Typed
<1>2. \/ u = t /\ (n > t.snd_sent \/ n = 0)
      \/ /\ ~(n > t.snd_sent \/ n = 0)
         /\ u = [t EXCEPT !.timer = timer, !.snd_seq = ack, !.snd_sent = 0, !.snd_win = win,
                          !.acked = t.acked \cup acked_flags, !.queue = queue, !.sent = sent]
  BY <1>1, Zenon DEF tcp_rx_ack, tcp_process_queue, IsConnection
<1>3. /\ n \in Nat /\ Snd(t) \in Nat
      /\ n <= t.snd_sent /\ n # 0 => a = Snd(t) + n
      /\ Snd(t) = 0 => n = a
  BY AckPlace, Zenon
<1>4. t.snd_sent \in Nat /\ w \in Nat /\ a \in Nat /\ Isn \in Seqs /\ a \in Seqs
  BY Bounds DEF Good, Typed, Seqs
<1>5. ack \in Seqs /\ Minus(ack, Isn) = a
  BY <1>4, PlusFacts, Zenon
<1>6. timer \in Timers /\ ~timer.running
  BY TimerFacts, Zenon DEF Good, Typed
<1>7. CASE u = t /\ (n > t.snd_sent \/ n = 0)
  BY <1>3, <1>4, <1>7 DEF Acknowledges, Good, Sending, SameRcv
<1>8. CASE /\ ~(n > t.snd_sent \/ n = 0)
           /\ u = [t EXCEPT !.timer = timer, !.snd_seq = ack, !.snd_sent = 0, !.snd_win = win,
                            !.acked = t.acked \cup acked_flags, !.queue = queue, !.sent = sent]
  <2>1. n \in Nat /\ Snd(t) \in Nat /\ n >= 1 /\ n <= t.snd_sent /\ a = Snd(t) + n
    BY <1>3, <1>4, <1>8
  <2> HIDE DEF n, ack, timer
  <2>2. /\ u.timer = timer /\ u.snd_seq = ack /\ u.snd_sent = 0 /\ u.snd_win = win
        /\ u.acked = t.acked \cup acked_flags /\ u.queue = queue /\ u.sent = sent
        /\ u.rcvd = t.rcvd /\ u.rcv_ack = t.rcv_ack /\ u.rcv_win = t.rcv_win /\ u.tx = t.tx
        /\ u.xfer_closed = t.xfer_closed /\ u.listed = t.listed /\ IsConnection(u)
    BY <1>1, <1>8, Zenon DEF IsConnection
  <2>3. Typed(u) /\ Snd(u) = a
    BY <1>5, <1>6, <2>2 DEF Good, Typed, Snd
  <2>4. /\ a - 1 \in Nat /\ a <= w + 2 /\ (a = w + 2 <=> "FIN" \in acked_flags)
        /\ "FIN" \in t.sent => "FIN" \in acked_flags
        /\ "SYN" \in t.acked \cup acked_flags /\ "FIN" \notin t.acked
        /\ queue = Units(a - 1, w)
    <3>1. CASE "SYN" \notin t.acked
      <4>1. /\ acked_flags = {"SYN"} /\ Snd(t) = 0 /\ t.snd_sent <= 1 /\ t.queue = Units(0, w)
            /\ "FIN" \notin t.sent /\ "FIN" \notin t.acked
        BY <3>1, Zenon DEF Good, FlagsOK, Sending, TCP_FLAGS_SENDING
      <4>2. len = n - 1
        BY <4>1, Zenon
      <4> HIDE DEF acked_flags, len
      <4>3. a = 1 /\ n = 1 /\ len = 0
        BY <1>4, <2>1, <4>1, <4>2
      <4>4. SubSeq(Units(0, w), 0 + 1, Len(Units(0, w))) = Units(0 + 0, w)
        BY <1>4, UnitsRest, Zenon
      <4>5. queue = Units(a - 1, w)
        BY <4>1, <4>3, <4>4
      <4> HIDE DEF queue
      <4> QED
        BY <1>4, <4>1, <4>3, <4>5
    <3>2. CASE "SYN" \in t.acked /\ "FIN" \notin t.sent
      <4>1. /\ acked_flags = {} /\ Snd(t) \in 1 .. w + 1 /\ t.snd_sent <= w + 1 - Snd(t)
            /\ t.queue = Units(Snd(t) - 1, w) /\ "FIN" \notin t.acked
        BY <3>2, Zenon DEF Good, FlagsOK, Sending, TCP_FLAGS_SENDING
      <4>2. len = n
        BY <2>1, <4>1
      <4> HIDE DEF acked_flags, len
      <4>3. Snd(t) - 1 \in Nat /\ Snd(t) - 1 + n = a - 1 /\ a - 1 \in Nat /\ a <= w + 1
        BY <1>4, <2>1, <4>1
      <4> DEFINE b == Snd(t) - 1
      <4>4. b \in Nat /\ n \in Nat
        BY <2>1, <4>3, Zenon
      <4> HIDE DEF b
      <4>5. SubSeq(Units(b, w), n + 1, Len(Units(b, w))) = Units(b + n, w)
        BY <1>4, <4>4, UnitsRest, Zenon
      <4>6. queue = Units(a - 1, w)
        BY <4>1, <4>2, <4>3, <4>5, Zenon DEF b
      <4> HIDE DEF queue
      <4> QED
        BY <1>4, <3>2, <4>1, <4>3, <4>6
    <3>3. CASE "SYN" \in t.acked /\ "FIN" \in t.sent
      <4>1. "FIN" \notin t.acked
        BY <2>1, <3>3 DEF Good, Sending
      <4>2. /\ acked_flags = {"FIN"} /\ Snd(t) = w + 1 /\ t.snd_sent <= 1
            /\ t.queue = Units(Snd(t) - 1, w)
        BY <3>3, <4>1, Zenon DEF Good, FlagsOK, Sending, TCP_FLAGS_SENDING
      <4>3. len = n - 1
        BY <4>2, Zenon
      <4> HIDE DEF acked_flags, len
      <4>4. a = w + 2 /\ n = 1 /\ len = 0 /\ Snd(t) - 1 = w /\ a - 1 = w + 1
        BY <1>4, <2>1, <4>2, <4>3
      <4> DEFINE b == w + 1
      <4>5. b \in Nat /\ w <= b /\ w <= w
        BY <1>4
      <4>6. Units(w, w) = << >> <=> w <= w
        BY <1>4, UnitsFacts, Zenon
      <4>7. Units(b, w) = << >> <=> w <= b
        BY <1>4, <4>5, UnitsFacts, Zenon
      <4>8. t.queue = << >> /\ Units(a - 1, w) = << >>
        BY <4>2, <4>4, <4>5, <4>6, <4>7, Zenon
      <4>9. queue = << >>
        BY <4>4, <4>8
      <4> HIDE DEF queue
      <4> QED
        BY <1>4, <3>3, <4>1, <4>2, <4>4, <4>8, <4>9
    <3> QED
      BY <3>1, <3>2, <3>3, Zenon
  <2>5. queue = << >> <=> w <= a - 1
    <3> DEFINE b == a - 1
    <3>1. b \in Nat
      BY <2>4, Zenon
    <3>2. Units(b, w) = << >> <=> w <= b
      BY <1>4, <3>1, UnitsFacts, Zenon
    <3> HIDE DEF queue
    <3> QED
      BY <2>4, <3>2, Zenon
  <2>6. acked_flags \subseteq {"SYN", "FIN"} /\ acked_flags \subseteq t.sent
    BY Zenon DEF TCP_FLAGS_SENDING
  <2> HIDE DEF queue, acked_flags
  <2>7. /\ u.sent = t.sent \/ (u.sent = t.sent \cup {"FIN"} /\ queue = << >> /\ t.xfer_closed)
        /\ "FIN" \in u.sent /\ "FIN" \notin t.sent => queue = << >> /\ t.xfer_closed
    BY <2>2, Zenon
  <2>8. FlagsOK(u)
    BY <2>2, <2>4, <2>6, <2>7, Zenon DEF Good, FlagsOK
  <2>9. Sending(u, w)
    <3>1. ("FIN" \in u.acked <=> "FIN" \in acked_flags) /\ "SYN" \in u.acked
      BY <2>2, <2>4, Zenon
    <3>2. "FIN" \in u.sent => a >= w + 1
      BY <1>4, <2>4, <2>5, <2>7
    <3>3. "FIN" \in acked_flags => "FIN" \in u.sent
      BY <2>6, <2>7, Zenon
    <3>4. u.queue = Units(Snd(u) - 1, w)
      BY <2>2, <2>3, <2>4, Zenon
    <3>5. a \in 1 .. w + 1 \/ a = w + 2
      BY <1>4, <2>4
    <3> HIDE DEF sent
    <3> QED
      BY <1>4, <2>2, <2>3, <2>4, <3>1, <3>2, <3>3, <3>4, <3>5 DEF Sending
  <2>10. Good(u, w)
    BY <1>6, <2>2, <2>3, <2>7, <2>8, <2>9, ZenonT(30) DEF Good
  <2>11. Closes(u) /\ "SYN" \in u.acked
    BY <2>2, <2>4, Zenon DEF Closes
  <2> QED
    BY <2>2, <2>10, <2>11, Zenon DEF Acknowledges, SameRcv
<1> QED
  BY <1>2, <1>7, <1>8, Zenon

\* The FIN is added where everything written is acknowledged.
LEMMA AddFin ==
  ASSUME NEW w \in 0 .. MaxOut, NEW t, Good(t, w), "SYN" \in t.acked, t.queue = << >>,
         t.xfer_closed, NEW u, u = [t EXCEPT !.sent = t.sent \cup {"FIN"}]
  PROVE  /\ Good(u, w) /\ Closes(u)
         /\ u.acked = t.acked /\ u.xfer_closed = t.xfer_closed /\ SameRcv(t, u)
         /\ u.rcv_win = t.rcv_win /\ u.tx = t.tx
<1>1. IsConnection(t) /\ w \in Nat
  BY Bounds, Zenon DEF Good, Typed
<1>2. /\ u.sent = t.sent \cup {"FIN"} /\ u.acked = t.acked /\ u.xfer_closed = t.xfer_closed
      /\ u.snd_seq = t.snd_seq /\ u.snd_win = t.snd_win /\ u.queue = t.queue
      /\ u.rcvd = t.rcvd /\ u.rcv_ack = t.rcv_ack /\ u.listed = t.listed
      /\ u.snd_sent = t.snd_sent /\ u.rcv_win = t.rcv_win /\ u.timer = t.timer /\ u.tx = t.tx
      /\ IsConnection(u)
  BY <1>1, Zenon DEF IsConnection
<1>3. Typed(u) /\ FlagsOK(u)
  BY <1>2, Zenon DEF Good, Typed, FlagsOK
<1>4. "FIN" \notin t.sent => Snd(t) = w + 1 /\ t.snd_sent <= 1
  <2> SUFFICES ASSUME "FIN" \notin t.sent PROVE Snd(t) = w + 1 /\ t.snd_sent <= 1
    BY Zenon
  <2> DEFINE b == Snd(t) - 1
  <2>1. Snd(t) \in 1 .. w + 1 /\ t.snd_sent <= w + 1 - Snd(t) /\ t.queue = Units(b, w)
        /\ t.snd_sent \in Nat
    BY Zenon DEF Good, Sending, Typed
  <2>2. b \in Nat
    BY <1>1, <2>1
  <2>3. Units(b, w) = << >> <=> w <= b
    BY <1>1, <2>2, UnitsFacts, Zenon
  <2>4. w <= b
    BY <2>1, <2>3, Zenon
  <2> QED
    BY <1>1, <2>1, <2>4
<1>5. Sending(u, w)
  BY <1>1, <1>2, <1>4, Zenon DEF Good, Sending, Snd, FlagsOK
<1> QED
  BY <1>2, <1>3, <1>5, Zenon DEF Good, Closes, SameRcv

LEMMA Close ==
  ASSUME NEW w \in 0 .. MaxOut, NEW t0, Good(t0, w), "SYN" \in t0.rcvd,
         NEW u, u = tcp_close(t0)
  PROVE  /\ Good(u, w) /\ Closes(u) /\ "SYN" \in u.acked /\ u.xfer_closed
         /\ SameRcv(t0, u) /\ u.rcv_win = t0.rcv_win /\ u.tx = t0.tx
<1> DEFINE t == [t0 EXCEPT !.xfer_closed = TRUE]
           v == PretendAcked(t)
<1>1. IsConnection(t0) /\ t = [t0 EXCEPT !.xfer_closed = TRUE]
  BY Zenon DEF Good, Typed
<1>2. t.rcvd = t0.rcvd
  BY <1>1, Zenon DEF IsConnection
<1>3. u = IF v.queue = << >> THEN [v EXCEPT !.sent = v.sent \cup {"FIN"}] ELSE v
  BY <1>2, Zenon DEF tcp_close
<1> HIDE DEF t
<1>4. /\ t.sent = t0.sent /\ t.acked = t0.acked /\ t.xfer_closed
      /\ t.snd_seq = t0.snd_seq /\ t.snd_win = t0.snd_win /\ t.queue = t0.queue
      /\ t.rcvd = t0.rcvd /\ t.rcv_ack = t0.rcv_ack /\ t.listed = t0.listed
      /\ t.snd_sent = t0.snd_sent /\ t.rcv_win = t0.rcv_win /\ t.timer = t0.timer
      /\ t.tx = t0.tx /\ IsConnection(t)
  BY <1>1, Zenon DEF IsConnection
<1>5. Good(t, w)
  BY <1>4, Zenon DEF Good, Typed, FlagsOK, Sending, Snd
<1>6. /\ Good(v, w) /\ "SYN" \in v.acked /\ v.xfer_closed /\ SameRcv(t, v)
      /\ v.rcv_win = t.rcv_win /\ v.tx = t.tx
  <2>1. CASE "SYN" \in t.acked
    BY <1>4, <1>5, <2>1, Zenon DEF PretendAcked, SameRcv
  <2>2. CASE "SYN" \notin t.acked
    <3>1. Snd(t) = 0 /\ t.snd_sent = 1 /\ t.snd_seq \in Seqs
      BY <1>4, <1>5, <2>2, Zenon DEF Good, Sending, Typed
    <3>2. t.snd_seq = Isn
      <4>1. Isn \in Seqs /\ SeqMod \in Nat
        BY Bounds, Zenon
      <4>2. Minus(t.snd_seq, Isn) = IF t.snd_seq < Isn THEN t.snd_seq - Isn + SeqMod
                                    ELSE t.snd_seq - Isn
        BY <3>1, <4>1, PlusMinus, Zenon
      <4> QED
        BY <3>1, <4>1, <4>2 DEF Snd, Seqs
    <3>3. v = tcp_rx_ack(t, Plus(Isn, 1), 0) /\ 1 \in 1 .. w + 2 /\ 0 \in Nat
      BY <2>2, <3>2, Bounds DEF PretendAcked
    <3> HIDE DEF v
    <3>4. /\ Good(v, w) /\ SameRcv(t, v) /\ v.rcv_win = t.rcv_win /\ v.tx = t.tx
          /\ v.xfer_closed = t.xfer_closed
          /\ "SYN" \notin t.acked /\ 1 <= t.snd_sent => "SYN" \in v.acked
      BY <1>5, <3>3, RxAck DEF Acknowledges
    <3> QED
      BY <1>4, <2>2, <3>1, <3>4
  <2> QED
    BY <2>1, <2>2, Zenon
<1> HIDE DEF v
<1>7. CASE v.queue = << >>
  <2>1. u = [v EXCEPT !.sent = v.sent \cup {"FIN"}]
    BY <1>3, <1>7, Zenon
  <2>2. /\ Good(u, w) /\ Closes(u)
        /\ u.acked = v.acked /\ u.xfer_closed = v.xfer_closed /\ SameRcv(v, u)
        /\ u.rcv_win = v.rcv_win /\ u.tx = v.tx
    BY <1>6, <1>7, <2>1, AddFin, Zenon
  <2> QED
    BY <1>4, <1>6, <2>2, Zenon DEF SameRcv
<1>8. CASE v.queue # << >>
  BY <1>4, <1>3, <1>6, <1>8, Zenon DEF SameRcv, Closes
<1> QED
  BY <1>7, <1>8, Zenon

LEMMA CloseDeletes ==
  ASSUME NEW t0, Typed(t0), "SYN" \notin t0.rcvd, NEW u, u = tcp_close(t0)
  PROVE  Deleted(u) /\ u.tx = t0.tx
<1> DEFINE timer == stop_timer(t0.timer, 0)
<1>1. IsConnection(t0) /\ timer \in Timers /\ ~timer.running
  BY TimerFacts, Zenon DEF Typed
<1> HIDE DEF timer
<1>2. u = [t0 EXCEPT !.xfer_closed = TRUE, !.sent = {"RST"}, !.acked = {}, !.rcvd = {},
                     !.queue = << >>, !.timer = timer, !.listed = FALSE]
  BY <1>1, Zenon DEF tcp_close, tcp_closed, IsConnection, timer
<1>3. /\ u.sent = {"RST"} /\ u.acked = {} /\ u.rcvd = {} /\ u.queue = << >> /\ u.timer = timer
      /\ ~u.listed /\ u.xfer_closed /\ u.tx = t0.tx /\ IsConnection(u)
      /\ u.snd_seq = t0.snd_seq /\ u.snd_win = t0.snd_win /\ u.rcv_ack = t0.rcv_ack
      /\ u.snd_sent = t0.snd_sent /\ u.rcv_win = t0.rcv_win
  BY <1>1, <1>2, Zenon DEF IsConnection
<1> QED
  BY <1>1, <1>3, Zenon DEF Deleted, Typed

\* tcp_expired and tcp_rx close a connection that is already marked as closed.
LEMMA CloseClosed ==
  ASSUME NEW t, Typed(t), NEW u, u = tcp_close(tcp_closed(t))
  PROVE  Deleted(u) /\ u.tx = t.tx
<1> DEFINE v == tcp_closed(t)
<1>1. IsConnection(t) /\ v = [t EXCEPT !.sent = {"RST"}, !.acked = {}, !.rcvd = {}]
  BY Zenon DEF Typed, tcp_closed
<1>2. u = tcp_close(v)
  BY Zenon
<1> HIDE DEF v
<1>3. /\ v.rcvd = {} /\ v.tx = t.tx /\ IsConnection(v)
      /\ v.snd_seq = t.snd_seq /\ v.snd_win = t.snd_win /\ v.rcv_ack = t.rcv_ack
      /\ v.snd_sent = t.snd_sent /\ v.rcv_win = t.rcv_win /\ v.timer = t.timer
  BY <1>1, Zenon DEF IsConnection
<1>4. Typed(v) /\ "SYN" \notin v.rcvd
  BY <1>3, Zenon DEF Typed
<1> QED
  BY <1>3, <1>4, <1>2, CloseDeletes, Zenon

-----------------------------------------------------------------------------
(* The application's calls and the timer *)

\* What a handler leaves of the connection t: one that is live, has its timer, and
\* whose receive window ends no earlier than before.
Moved(t, u, w, n, ended) ==
  /\ Live(u, w, n, ended) /\ Driven(u) /\ Transmits(u, w)
  /\ t.xfer_closed => u.xfer_closed
  /\ "SYN" \in t.rcvd => "SYN" \in u.rcvd /\ Rcv(u) + u.rcv_win >= Rcv(t) + t.rcv_win

LEMMA RcvType ==
  ASSUME NEW t, Typed(t)
  PROVE  /\ Rcv(t) \in Seqs /\ Rcv(t) \in Nat /\ t.rcv_win \in Nat
         /\ t.rcv_ack = Plus(Iss, Rcv(t))
<1>1. t.rcv_ack \in Seqs /\ t.rcv_win \in Nat /\ Iss \in Seqs
  BY Bounds, Zenon DEF Typed, Windows
<1>2. Minus(t.rcv_ack, Iss) \in Seqs /\ Plus(Iss, Minus(t.rcv_ack, Iss)) = t.rcv_ack
  BY <1>1, PlusFacts, Zenon
<1> QED
  BY <1>1, <1>2 DEF Rcv, Seqs

\* Neither tcp_xmit nor anything else that leaves the flags and the numbers alone
\* changes whether a connection is live.
LEMMA SameLive ==
  ASSUME NEW w, NEW n, NEW ended, NEW t, NEW u, Live(t, w, n, ended), Good(u, w),
         SameSnd(t, u), SameRcv(t, u)
  PROVE  Live(u, w, n, ended)
BY ZenonT(30) DEF Live, Closes, Established, Receiving, Rcv, SameSnd, SameRcv

LEMMA XmitLive ==
  ASSUME NEW w \in 0 .. MaxOut, NEW n, NEW ended, NEW t, Live(t, w, n, ended),
         Transmits(t, w), NEW force, NEW win \in Windows, NEW u, u = tcp_xmit(t, force, win)
  PROVE  Moved(t, u, w, n, ended) /\ SameSnd(t, u) /\ SameRcv(t, u)
<1>1. Good(t, w)
  BY Zenon DEF Live
<1>2. /\ Good(u, w) /\ SameSnd(t, u) /\ SameRcv(t, u) /\ u.rcv_win >= t.rcv_win
      /\ Driven(u) /\ Transmits(u, w)
  BY <1>1, Xmit, Zenon
<1>3. Live(u, w, n, ended)
  BY <1>2, SameLive, Zenon
<1>4. Rcv(t) \in Nat /\ t.rcv_win \in Nat /\ u.rcv_win \in Nat /\ Rcv(u) = Rcv(t)
  <2>1. Typed(t) /\ Typed(u)
    BY <1>1, <1>2, Zenon DEF Good
  <2> QED
    BY <1>2, <2>1, RcvType, ZenonT(30) DEF SameRcv, Rcv
<1>5. Rcv(u) + u.rcv_win >= Rcv(t) + t.rcv_win
  BY <1>2, <1>4
<1> QED
  BY <1>2, <1>3, <1>5, Zenon DEF Moved, SameSnd, SameRcv

LEMMA XmitDeleted ==
  ASSUME NEW t, Deleted(t), NEW win, NEW u, u = tcp_xmit(t, FALSE, win)
  PROVE  Deleted(u) /\ u.tx = t.tx
<1>1. u = [t EXCEPT !.snd_sent = 0]
  <2>1. Lesser(Len(t.queue), tcp_xmit_win(t)) = 0
    BY Zenon DEF Deleted, tcp_xmit_win, Lesser, TCP_CAN_SEND_DATA
  <2>2. TCP_FLAGS_SENDING(t) \cap {"SYN", "FIN"} = {} /\ ~t.timer.running
    BY Zenon DEF Deleted, TCP_FLAGS_SENDING
  <2> QED
    BY <2>1, <2>2 DEF tcp_xmit
<1>2. IsConnection(t) /\ Typed(t)
  BY Zenon DEF Deleted, Typed
<1>3. /\ u.sent = t.sent /\ u.acked = t.acked /\ u.xfer_closed = t.xfer_closed
      /\ u.snd_seq = t.snd_seq /\ u.snd_win = t.snd_win /\ u.queue = t.queue
      /\ u.rcvd = t.rcvd /\ u.rcv_ack = t.rcv_ack /\ u.listed = t.listed
      /\ u.snd_sent = 0 /\ u.rcv_win = t.rcv_win /\ u.timer = t.timer /\ u.tx = t.tx
      /\ IsConnection(u)
  BY <1>1, <1>2, Zenon DEF IsConnection
<1>4. Typed(u)
  <2>1. 0 \in Nat
    BY Zenon
  <2> QED
    BY <1>2, <1>3, <2>1, Zenon DEF Typed
<1> QED
  BY <1>3, <1>4, Zenon DEF Deleted

\* Closing a connection that has received a SYN, and one that has not.
LEMMA XferClose ==
  ASSUME NEW w \in 0 .. MaxOut, NEW n, NEW ended, NEW t, Live(t, w, n, ended), t.tx = << >>,
         NEW win \in Windows, NEW u, u = tcp_xfer_close(t, win)
  PROVE  IF "SYN" \in t.rcvd
         THEN /\ Moved(t, u, w, n, ended) /\ SameRcv(t, u) /\ u.xfer_closed
              /\ "SYN" \in u.acked
         ELSE Deleted(u) /\ u.tx = << >>
<1> DEFINE v == tcp_close(t)
<1>1. u = tcp_xmit(v, FALSE, win) /\ v = tcp_close(t) /\ Good(t, w) /\ Typed(t)
  BY Zenon DEF tcp_xfer_close, Live, Good
<1> HIDE DEF v
<1>2. CASE "SYN" \notin t.rcvd
  <2>1. Deleted(v) /\ v.tx = << >>
    BY <1>1, <1>2, CloseDeletes, Zenon
  <2>2. u = tcp_xmit(v, FALSE, win)
    BY <1>1, Zenon
  <2>3. Deleted(u) /\ u.tx = v.tx
    BY <2>1, <2>2, XmitDeleted, Zenon
  <2> QED
    BY <1>2, <2>1, <2>3, ZenonT(30)
<1>3. CASE "SYN" \in t.rcvd
  <2>1. /\ Good(v, w) /\ Closes(v) /\ "SYN" \in v.acked /\ v.xfer_closed
        /\ SameRcv(t, v) /\ v.rcv_win = t.rcv_win /\ v.tx = t.tx
    BY <1>1, <1>3, Close, ZenonT(30)
  <2>2. Live(v, w, n, ended) /\ Transmits(v, w)
    BY <1>3, <2>1, Zenon DEF Live, Established, Receiving, SameRcv, Rcv, Transmits
  <2>3. Moved(v, u, w, n, ended) /\ SameSnd(v, u) /\ SameRcv(v, u)
    BY <1>1, <2>2, XmitLive, Zenon
  <2> QED
    BY <1>3, <2>1, <2>3, ZenonT(30) DEF Moved, SameSnd, SameRcv, Rcv
<1> QED
  BY <1>2, <1>3, ZenonT(30)

\* Writing one unit.
LEMMA XferDeliver ==
  ASSUME NEW w \in 0 .. MaxOut, w < MaxOut, NEW n, NEW ended, NEW t, Live(t, w, n, ended),
         ~t.xfer_closed, t.tx = << >>, NEW win \in Windows,
         NEW u, u = tcp_xfer_deliver_iob(t, <<w + 1>>, win)
  PROVE  /\ Moved(t, u, w + 1, n, ended) /\ SameRcv(t, u)
         /\ u.acked = t.acked /\ u.xfer_closed = t.xfer_closed
<1> DEFINE v == [t EXCEPT !.queue = t.queue \o <<w + 1>>]
<1>1. u = tcp_xmit(v, FALSE, win) /\ v = [t EXCEPT !.queue = t.queue \o <<w + 1>>]
  BY ZenonT(30) DEF tcp_xfer_deliver_iob
<1> HIDE DEF v
<1>2. IsConnection(t) /\ w \in Nat /\ w + 1 \in 0 .. MaxOut
  BY Bounds, TcpAssumption DEF Live, Good, Typed
<1>3. /\ v.sent = t.sent /\ v.acked = t.acked /\ v.xfer_closed = t.xfer_closed
      /\ v.snd_seq = t.snd_seq /\ v.snd_win = t.snd_win /\ v.queue = t.queue \o <<w + 1>>
      /\ v.rcvd = t.rcvd /\ v.rcv_ack = t.rcv_ack /\ v.listed = t.listed
      /\ v.snd_sent = t.snd_sent /\ v.rcv_win = t.rcv_win /\ v.timer = t.timer /\ v.tx = t.tx
      /\ IsConnection(v)
  BY <1>1, <1>2, Zenon DEF IsConnection
<1>4. "FIN" \notin t.sent /\ "FIN" \notin t.acked
  BY Zenon DEF Live, Good, FlagsOK
<1>5. v.queue = Units(IF "SYN" \in v.acked THEN Snd(v) - 1 ELSE 0, w + 1)
  <2> DEFINE b == IF "SYN" \in t.acked THEN Snd(t) - 1 ELSE 0
             c == w + 1
  <2>1. t.queue = Units(b, w) /\ b \in Nat /\ b <= w /\ c \in Nat /\ w <= c
    BY <1>2, <1>4 DEF Live, Good, Sending
  <2>2. Units(w, c) = <<w + 1>>
    <3>1. Units(w, c) = [i \in 1 .. 1 |-> w + i]
      BY <1>2 DEF Units
    <3> QED
      BY <1>2, <3>1
  <2> HIDE DEF b, c
  <2>3. Units(b, w) \o Units(w, c) = Units(b, c)
    BY <1>2, <2>1, UnitsJoin, Zenon
  <2> QED
    BY <1>3, <2>1, <2>2, <2>3, Zenon DEF b, c, Snd
<1>6. Sending(v, w + 1)
  <2>1. "SYN" \in t.acked => Snd(t) \in 1 .. w + 1 /\ t.snd_sent <= w + 1 - Snd(t)
    BY <1>4, ZenonT(30) DEF Live, Good, Sending
  <2>2. "SYN" \in t.acked => Snd(t) \in 1 .. (w + 1) + 1 /\ t.snd_sent <= (w + 1) + 1 - Snd(t)
    <3>1. t.snd_sent \in Nat
      BY ZenonT(30) DEF Live, Good, Typed
    <3> QED
      BY <1>2, <2>1, <3>1, OneMore, ZenonT(30)
  <2> QED
    BY <1>3, <1>4, <1>5, <2>2, Zenon DEF Live, Good, Sending, Snd
<1>7. Good(v, w + 1)
  BY <1>3, <1>4, <1>6, ZenonT(30) DEF Live, Good, Typed, FlagsOK
<1>8. Live(v, w + 1, n, ended) /\ Transmits(v, w + 1)
  BY <1>3, <1>7, Zenon DEF Live, Closes, Established, Receiving, Rcv, Transmits
<1>9. Moved(v, u, w + 1, n, ended) /\ SameSnd(v, u) /\ SameRcv(v, u)
  BY <1>1, <1>2, <1>8, XmitLive, Zenon
<1> QED
  BY <1>3, <1>9, Zenon DEF Moved, SameSnd, SameRcv, Rcv

\* The timer expires: the segment is sent again, or the connection is freed.
LEMMA Expiry ==
  ASSUME NEW w \in 0 .. MaxOut, NEW n, NEW ended, NEW t, Live(t, w, n, ended),
         t.tx = << >>, NEW win \in Windows, NEW u, u = tcp_expired(t, win)
  PROVE  \/ Moved(t, u, w, n, ended) /\ SameSnd(t, u) /\ SameRcv(t, u)
         \/ Deleted(u) /\ u.tx = << >>
<1> DEFINE v == [t EXCEPT !.timer = timer_expired(t.timer)]
<1>1. /\ v = [t EXCEPT !.timer = timer_expired(t.timer)]
      /\ u = tcp_close(tcp_closed(v)) \/ u = tcp_xmit(v, FALSE, win)
  BY Zenon DEF tcp_expired
<1> HIDE DEF v
<1>2. /\ IsConnection(t) /\ t.timer \in Timers
      /\ timer_expired(t.timer) \in Timers /\ ~timer_expired(t.timer).running
  BY TimerFacts, Zenon DEF Live, Good, Typed
<1>3. /\ v.sent = t.sent /\ v.acked = t.acked /\ v.xfer_closed = t.xfer_closed
      /\ v.snd_seq = t.snd_seq /\ v.snd_win = t.snd_win /\ v.queue = t.queue
      /\ v.rcvd = t.rcvd /\ v.rcv_ack = t.rcv_ack /\ v.listed = t.listed
      /\ v.snd_sent = t.snd_sent /\ v.rcv_win = t.rcv_win /\ v.tx = t.tx
      /\ v.timer = timer_expired(t.timer) /\ IsConnection(v)
  BY <1>1, <1>2, ZenonT(30) DEF IsConnection
<1>4. Good(v, w) /\ SameSnd(t, v) /\ SameRcv(t, v)
  BY <1>2, <1>3, SMTT(30) DEF Live, Good, Typed, FlagsOK, Sending, Snd, SameSnd, SameRcv
<1>5. Live(v, w, n, ended) /\ Transmits(v, w) /\ Typed(v)
  BY <1>3, <1>4, SameLive, ZenonT(30) DEF Transmits, Good
<1>6. CASE u = tcp_close(tcp_closed(v))
  BY <1>3, <1>5, <1>6, CloseClosed, Zenon
<1>7. CASE u = tcp_xmit(v, FALSE, win)
  <2>1. Moved(v, u, w, n, ended) /\ SameSnd(v, u) /\ SameRcv(v, u)
    BY <1>5, <1>7, XmitLive, Zenon
  <2> QED
    BY <1>3, <2>1, Zenon DEF Moved, SameSnd, SameRcv, Rcv
<1> QED
  BY <1>1, <1>6, <1>7, Zenon

-----------------------------------------------------------------------------
(* Receiving *)

\* k numbers of the peer's space are taken; whatever flags say so are put in before.
TakesSeq(t, u, w, k) ==
  /\ Good(u, w) /\ SameSnd(t, u) /\ u.rcvd = t.rcvd /\ u.tx = t.tx
  /\ Rcv(u) = Rcv(t) + k /\ u.rcv_win + k >= t.rcv_win
  /\ Transmits(t, w) => Transmits(u, w)

LEMMA RxSeq ==
  ASSUME NEW w, NEW t, Good(t, w), NEW k \in Nat, Rcv(t) + k \in Seqs,
         NEW u, u = tcp_rx_seq(t, k)
  PROVE  TakesSeq(t, u, w, k)
<1> DEFINE win == IF t.rcv_win > k THEN t.rcv_win - k ELSE 0
           ack == Plus(t.rcv_ack, k)
<1>1. IsConnection(t) /\ Typed(t) /\ t.rcv_win \in Windows
  BY Zenon DEF Good, Typed
<1>2. win \in Windows /\ win + k >= t.rcv_win
  BY <1>1, TcpAssumption DEF Windows
<1>3. ack \in Seqs /\ Minus(ack, Iss) = Rcv(t) + k
  <2>1. Rcv(t) \in Seqs /\ Rcv(t) \in Nat /\ t.rcv_ack = Plus(Iss, Rcv(t)) /\ Iss \in Seqs
    BY <1>1, RcvType, Bounds, Zenon
  <2>2. k \in Seqs /\ Rcv(t) + k < SeqMod
    BY <2>1, TcpAssumption DEF Seqs
  <2>3. Plus(Plus(Iss, Rcv(t)), k) = Plus(Iss, Rcv(t) + k)
    BY <2>1, <2>2, Distance, Zenon
  <2> DEFINE m == Rcv(t) + k
  <2> HIDE DEF m
  <2>4. m \in Seqs
    BY Zenon DEF m
  <2>5. Plus(Iss, m) \in Seqs /\ Minus(Plus(Iss, m), Iss) = m
    BY <2>1, <2>4, PlusFacts, Zenon
  <2> QED
    BY <2>1, <2>3, <2>5, Zenon DEF m
<1>4. u = [t EXCEPT !.rcv_ack = ack, !.rcv_win = win]
  BY <1>1, Zenon DEF tcp_rx_seq, IsConnection
<1> HIDE DEF win, ack
<1>5. /\ u.sent = t.sent /\ u.acked = t.acked /\ u.xfer_closed = t.xfer_closed
      /\ u.snd_seq = t.snd_seq /\ u.snd_win = t.snd_win /\ u.queue = t.queue
      /\ u.rcvd = t.rcvd /\ u.rcv_ack = ack /\ u.listed = t.listed
      /\ u.snd_sent = t.snd_sent /\ u.rcv_win = win /\ u.tx = t.tx
      /\ u.timer = t.timer /\ IsConnection(u)
  BY <1>1, <1>4, Zenon DEF IsConnection
<1>6. Good(u, w)
  BY <1>2, <1>3, <1>5, ZenonT(30) DEF Good, Typed, FlagsOK, Sending, Snd
<1> QED
  BY <1>2, <1>3, <1>5, <1>6, ZenonT(30) DEF TakesSeq, SameSnd, Rcv, Transmits, Proper

\* A SYN is taken once.
TakesSyn(t, u, w) ==
  \/ u = t /\ "SYN" \in t.rcvd
  \/ /\ "SYN" \notin t.rcvd /\ Good(u, w) /\ u.rcvd = {"SYN"} /\ Rcv(u) = 1
     /\ u.sent = t.sent \cup {"ACK"} /\ u.acked = t.acked /\ u.queue = t.queue
     /\ u.xfer_closed = t.xfer_closed /\ u.tx = t.tx

LEMMA RxSyn ==
  ASSUME NEW w \in 0 .. MaxOut, NEW n \in 0 .. MaxIn, NEW ended, NEW t, Good(t, w),
         Receiving(t, n, ended), "SYN" \in t.acked \/ t.snd_sent = 1,
         NEW u, u = tcp_rx_syn(t, Iss)
  PROVE  TakesSyn(t, u, w)
<1>1. n \in Nat /\ n + 2 \in Seqs /\ Iss \in Seqs /\ Typed(t) /\ IsConnection(t) /\ 0 \in Seqs
      /\ 1 \in Seqs /\ SeqMod \in Nat
  BY Bounds DEF Good, Typed, Seqs
<1>2. CASE "SYN" \in t.rcvd
  <2>1. Rcv(t) # 0
    BY <1>1, <1>2 DEF Receiving
  <2>2. t.rcv_ack # Iss
    BY <1>1, <2>1, MinusSelf, ZenonT(30) DEF Rcv
  <2> QED
    BY <1>2, <2>2, Zenon DEF tcp_rx_syn, TakesSyn
<1>3. CASE "SYN" \notin t.rcvd
  <2> DEFINE v == [t EXCEPT !.rcv_ack = Iss, !.sent = t.sent \cup {"ACK"},
                            !.rcvd = t.rcvd \cup {"SYN"}]
  <2>1. u = tcp_rx_seq(v, 1) /\ v = [t EXCEPT !.rcv_ack = Iss, !.sent = t.sent \cup {"ACK"},
                                              !.rcvd = t.rcvd \cup {"SYN"}]
    BY <1>1, <1>3, Zenon DEF tcp_rx_syn, IsConnection
  <2> HIDE DEF v
  <2>2. /\ v.sent = t.sent \cup {"ACK"} /\ v.acked = t.acked /\ v.xfer_closed = t.xfer_closed
        /\ v.snd_seq = t.snd_seq /\ v.snd_win = t.snd_win /\ v.queue = t.queue
        /\ v.rcvd = t.rcvd \cup {"SYN"} /\ v.rcv_ack = Iss /\ v.listed = t.listed
        /\ v.snd_sent = t.snd_sent /\ v.rcv_win = t.rcv_win /\ v.tx = t.tx
        /\ v.timer = t.timer /\ IsConnection(v)
    BY <1>1, <2>1, Zenon DEF IsConnection
  <2>3. v.rcvd = {"SYN"}
    BY <1>3, <2>2, ZenonT(30) DEF Good, FlagsOK
  <2>4. Good(v, w)
    <3>1. Typed(v) /\ v.listed
      BY <1>1, <2>2, ZenonT(30) DEF Typed, Good
    <3>2. FlagsOK(v)
      BY <1>3, <2>2, ZenonT(30) DEF Good, FlagsOK
    <3>3. Sending(v, w)
      BY <2>2, ZenonT(30) DEF Good, Sending, Snd
    <3> QED
      BY <2>2, <3>1, <3>2, <3>3, ZenonT(30) DEF Good
  <2>5. Rcv(v) = 0
    <3>1. Minus(Iss, Iss) = IF Iss < Iss THEN Iss - Iss + SeqMod ELSE Iss - Iss
      BY <1>1, PlusMinus, Zenon
    <3> QED
      BY <1>1, <2>2, <3>1, SMTT(30) DEF Rcv, Seqs
  <2> DEFINE k == 1
  <2>6. k \in Nat /\ Rcv(v) + k \in Seqs /\ Rcv(v) + k = 1 /\ u = tcp_rx_seq(v, k)
    BY <1>1, <2>1, <2>5, SMTT(30)
  <2> HIDE DEF k
  <2>7. /\ Good(u, w) /\ SameSnd(v, u) /\ u.rcvd = v.rcvd /\ u.tx = v.tx
        /\ Rcv(u) = Rcv(v) + k
    <3>1. TakesSeq(v, u, w, k)
      BY <2>4, <2>6, RxSeq, ZenonT(30)
    <3> QED
      BY <3>1, ZenonT(30) DEF TakesSeq
  <2> QED
    BY <1>3, <2>2, <2>3, <2>6, <2>7, Zenon DEF SameSnd, TakesSyn
<1> QED
  BY <1>2, <1>3, Zenon

\* The new part of a segment of the units from from to to: none, or all that follow
\* those received.
LEMMA NewData ==
  ASSUME NEW n \in 0 .. MaxIn, NEW t, Typed(t), Rcv(t) \in 1 .. n + 2,
         NEW from \in 0 .. n, NEW to \in 0 .. n,
         NEW new, new = new_data(t, Plus(Iss, 1 + from), Units(from, to))
  PROVE  new = << >> \/ (new = Units(Rcv(t) - 1, to) /\ Rcv(t) - 1 < to)
<1> DEFINE r == Rcv(t)
           s == 1 + from
           k == Minus(t.rcv_ack, Plus(Iss, s))
<1>1. /\ n \in Nat /\ n + 2 \in Seqs /\ 2 * n + 4 < SeqMod /\ Iss \in Seqs /\ SeqMod \in Nat
      /\ from \in Nat /\ to \in Nat /\ s \in Seqs
  BY Bounds DEF Seqs
<1>2. r \in Seqs /\ t.rcv_ack = Plus(Iss, r) /\ r \in 1 .. n + 2
  BY RcvType, Zenon
<1> HIDE DEF r, s
<1>3. k = IF r >= s THEN r - s ELSE r - s + SeqMod
  BY <1>1, <1>2, Distance
<1>4. k \in Nat
  BY <1>1, <1>2, <1>3 DEF Seqs
<1>5. new = SubSeq(Units(from, to), k + 1, Len(Units(from, to)))
  BY Zenon DEF new_data, s
<1> HIDE DEF k
<1>6. SubSeq(Units(from, to), k + 1, Len(Units(from, to))) = Units(from + k, to)
  BY <1>1, <1>4, UnitsRest, Zenon
<1> DEFINE b == from + k
<1>7. b \in Nat
  BY <1>1, <1>4
<1>8. Units(b, to) = << >> <=> to <= b
  BY <1>1, <1>7, UnitsFacts, Zenon
<1>9. CASE r >= s
  <2>1. b = r - 1 /\ (to <= b \/ b < to)
    BY <1>1, <1>2, <1>3, <1>7, <1>9 DEF s, Seqs
  <2>2. new = Units(b, to)
    BY <1>5, <1>6, Zenon
  <2> HIDE DEF b
  <2> QED
    BY <1>8, <2>1, <2>2, Zenon DEF r
<1>10. CASE ~(r >= s)
  <2>1. to <= b
    BY <1>1, <1>2, <1>3, <1>10, Beyond, ZenonT(30) DEF s
  <2> QED
    BY <1>5, <1>6, <1>8, <2>1, Zenon
<1> QED
  BY <1>9, <1>10, Zenon

\* The data of a segment are given to the application, which may close or answer
\* before they are counted as received.
LEMMA RxData ==
  ASSUME NEW n \in 0 .. MaxIn, NEW ended, NEW t, written \in 0 .. MaxOut,
         Live(t, written, n, ended), t.tx = << >>, "SYN" \in t.rcvd, "SYN" \in t.acked,
         NEW seq, NEW data, NEW to \in 0 .. n,
         \/ new_data(t, seq, data) = << >>
         \/ new_data(t, seq, data) = Units(Rcv(t) - 1, to) /\ Rcv(t) - 1 < to,
         NEW reaction \in {"take", "refuse", "close", "answer"},
         reaction # "take" => new_data(t, seq, data) # << >>,
         reaction = "answer" => written < MaxOut /\ ~t.xfer_closed,
         NEW win \in Windows, NEW u, u = tcp_rx_data(t, seq, data, reaction, win),
         NEW w, w = IF reaction = "answer" THEN written + 1 ELSE written
  PROVE  /\ Live(u, w, n, ended) /\ Transmits(u, w) /\ u.rcvd = t.rcvd /\ "SYN" \in u.acked
         /\ Rcv(u) + u.rcv_win >= Rcv(t) + t.rcv_win
         /\ Rcv(u) = Rcv(t) + (IF reaction = "refuse" THEN 0 ELSE Len(new_data(t, seq, data)))
         /\ t.xfer_closed => u.xfer_closed
         /\ reaction = "close" => u.xfer_closed
         /\ reaction # "close" => u.xfer_closed = t.xfer_closed
<1> DEFINE new == new_data(t, seq, data)
           k == Len(new)
           called == CASE reaction = "close"  -> tcp_xfer_close(t, win)
                       [] reaction = "answer" -> tcp_xfer_deliver_iob(t, <<written + 1>>, win)
                       [] OTHER -> t
<1>1. u = IF new = << >> \/ reaction = "refuse" THEN t ELSE tcp_rx_seq(called, k)
  BY ZenonT(30) DEF tcp_rx_data
<1>2. /\ n \in Nat /\ n + 2 \in Seqs /\ Typed(t) /\ Rcv(t) \in Nat /\ t.rcv_win \in Nat
      /\ SeqMod \in Nat /\ Rcv(t) \in Seqs
  BY Bounds, RcvType, ZenonT(30) DEF Live, Good
<1>3. CASE new = << >> \/ reaction = "refuse"
  <2>1. u = t /\ w = written /\ reaction # "close" /\ (reaction # "refuse" => k = 0)
    BY <1>1, <1>3, ZenonT(30)
  <2> HIDE DEF new, k
  <2> QED
    <3>1. Rcv(t) + t.rcv_win >= Rcv(t) + t.rcv_win /\ Rcv(t) = Rcv(t) + 0
      BY <1>2, SumsKept, ZenonT(30)
    <3> QED
      BY <2>1, <3>1, ZenonT(30) DEF Transmits, k, new
<1>4. CASE new # << >> /\ reaction # "refuse"
  <2>1. u = tcp_rx_seq(called, k) /\ new = Units(Rcv(t) - 1, to) /\ Rcv(t) - 1 < to
    BY <1>1, <1>4, Zenon
  <2>2. Rcv(t) \in 1 .. n + 1 /\ "FIN" \notin t.rcvd
    BY <1>2, <2>1 DEF Live, Receiving
  <2>3. k = to - (Rcv(t) - 1)
    <3> DEFINE b == Rcv(t) - 1
    <3>1. b \in Nat /\ to \in Nat /\ b < to
      BY <1>2, <2>1, <2>2, Places, ZenonT(30)
    <3>2. Len(Units(b, to)) = IF b <= to THEN to - b ELSE 0
      BY <3>1, UnitsFacts, Zenon
    <3> QED
      BY <2>1, <3>1, <3>2
  <2> HIDE DEF new
  <2>4. k \in Nat /\ Rcv(t) + k \in Seqs /\ Rcv(t) + k \in 1 .. n + 1
    <3>1. k \in Int
      BY <1>2, <2>3
    <3> QED
      BY <1>2, <2>1, <2>2, <2>3, <3>1, Places, ZenonT(30)
  <2>5. /\ Moved(t, called, w, n, ended) \/ (called = t /\ w = written)
        /\ SameRcv(t, called) /\ "SYN" \in called.acked
        /\ reaction = "close" => called.xfer_closed
        /\ reaction # "close" => called.xfer_closed = t.xfer_closed
    <3>1. CASE reaction = "close"
      <4> DEFINE v == tcp_xfer_close(t, win)
      <4>1. called = v /\ w = written /\ v = tcp_xfer_close(t, win)
        BY <3>1, Zenon
      <4> HIDE DEF v, called
      <4>2. Moved(t, v, written, n, ended) /\ SameRcv(t, v) /\ v.xfer_closed /\ "SYN" \in v.acked
        BY <4>1, XferClose, Zenon
      <4> QED
        BY <3>1, <4>1, <4>2, Zenon
    <3>2. CASE reaction = "answer"
      <4> DEFINE v == tcp_xfer_deliver_iob(t, <<written + 1>>, win)
      <4>1. called = v /\ w = written + 1 /\ v = tcp_xfer_deliver_iob(t, <<written + 1>>, win)
            /\ written < MaxOut /\ ~t.xfer_closed
        BY <3>2, ZenonT(30)
      <4> HIDE DEF v, called
      <4>2. /\ Moved(t, v, written + 1, n, ended) /\ SameRcv(t, v)
            /\ v.acked = t.acked /\ v.xfer_closed = t.xfer_closed
        BY <4>1, XferDeliver
      <4> QED
        BY <3>2, <4>1, <4>2, Zenon
    <3>3. CASE reaction \notin {"close", "answer"}
      BY <3>3, ZenonT(30) DEF SameRcv
    <3> QED
      BY <3>1, <3>2, <3>3, Zenon
  <2> HIDE DEF called, k
  <2>6. /\ Live(called, w, n, ended) /\ Transmits(called, w) /\ Rcv(called) = Rcv(t)
        /\ Rcv(called) + called.rcv_win >= Rcv(t) + t.rcv_win
        /\ t.xfer_closed => called.xfer_closed
    <3>1. CASE Moved(t, called, w, n, ended)
      BY <2>5, <3>1, ZenonT(30) DEF Moved, SameRcv, Rcv
    <3>2. CASE called = t /\ w = written
      <4>1. Rcv(t) + t.rcv_win >= Rcv(t) + t.rcv_win
        BY <1>2, SumsKept, ZenonT(30)
      <4> QED
        BY <3>2, <4>1, ZenonT(30) DEF Transmits
    <3> QED
      BY <2>5, <3>1, <3>2, ZenonT(30)
  <2>7. Good(called, w) /\ Rcv(called) + k \in Seqs
    BY <2>4, <2>6, ZenonT(30) DEF Live
  <2>8. /\ Good(u, w) /\ SameSnd(called, u) /\ u.rcvd = called.rcvd
        /\ Rcv(u) = Rcv(called) + k /\ u.rcv_win + k >= called.rcv_win
        /\ Transmits(called, w) => Transmits(u, w)
    <3>1. TakesSeq(called, u, w, k)
      BY <2>1, <2>4, <2>7, RxSeq, ZenonT(30)
    <3> QED
      BY <3>1, ZenonT(30) DEF TakesSeq
  <2>9. u.rcvd = t.rcvd /\ Rcv(u) = Rcv(t) + k
    BY <2>5, <2>6, <2>8, Zenon DEF SameRcv
  <2>10. Live(u, w, n, ended)
    <3>1. Closes(u) /\ Established(u)
      BY <2>6, <2>8, Zenon DEF Live, Closes, Established, SameSnd
    <3>2. Receiving(u, n, ended)
      BY <2>2, <2>4, <2>9, ZenonT(30) DEF Receiving
    <3> QED
      BY <2>8, <3>1, <3>2, Zenon DEF Live
  <2>11. Rcv(u) + u.rcv_win >= Rcv(t) + t.rcv_win
    <3>1. Typed(called) /\ Typed(u)
      BY <2>7, <2>8, Zenon DEF Good
    <3>2. called.rcv_win \in Nat /\ u.rcv_win \in Nat
      BY <3>1, RcvType, ZenonT(30)
    <3>3. called.rcv_win >= t.rcv_win
      BY <1>2, <2>6, <3>2, SumsCompared, ZenonT(30)
    <3>4. u.rcv_win + k >= t.rcv_win
      BY <1>2, <2>4, <2>8, <3>2, <3>3, SumsJoined, ZenonT(30)
    <3> QED
      BY <1>2, <2>4, <2>9, <3>2, <3>4, SumsMoved, ZenonT(30)
  <2>12. Rcv(u) = Rcv(t) + (IF reaction = "refuse" THEN 0 ELSE Len(new_data(t, seq, data)))
    BY <1>4, <2>9, Zenon DEF k, new
  <2> QED
    BY <2>5, <2>6, <2>8, <2>9, <2>10, <2>11, <2>12, Zenon DEF SameSnd
<1> QED
  BY <1>3, <1>4, Zenon

LEMMA SameTransmits ==
  ASSUME NEW w, NEW t, NEW u, Transmits(t, w), u.tx = t.tx, t.xfer_closed => u.xfer_closed,
         t.rcvd \subseteq u.rcvd
  PROVE  Transmits(u, w)
BY Zenon DEF Transmits, Proper

TakesFin(t, u, w, n, ended) ==
  /\ ended => Live(u, w, n, ended)
  /\ Transmits(u, w) /\ u.xfer_closed
  /\ "SYN" \in u.rcvd /\ "FIN" \in u.rcvd /\ "FIN" \notin t.rcvd /\ Rcv(t) = n + 1
  /\ Rcv(u) + u.rcv_win >= Rcv(t) + t.rcv_win

\* A FIN is taken once, after all the peer's data.
LEMMA RxFin ==
  ASSUME NEW w \in 0 .. MaxOut, NEW n \in 0 .. MaxIn, NEW ended, NEW t,
         Live(t, w, n, ended), Transmits(t, w), "SYN" \in t.rcvd, "SYN" \in t.acked,
         NEW u, u = tcp_rx_fin(t, Plus(Iss, n + 1))
  PROVE  u = t \/ TakesFin(t, u, w, n, ended)
<1>1. CASE t.rcv_ack # Plus(Iss, n + 1)
  BY <1>1, ZenonT(30) DEF tcp_rx_fin
<1>2. CASE t.rcv_ack = Plus(Iss, n + 1)
  <2> DEFINE v == [t EXCEPT !.rcvd = t.rcvd \cup {"FIN"}]
             k == 1
             x == tcp_rx_seq(v, k)
  <2>1. x = tcp_rx_seq(v, k)
    BY Zenon
  <2>2. u = tcp_close(x) /\ v = [t EXCEPT !.rcvd = t.rcvd \cup {"FIN"}] /\ k = 1
    BY <1>2, Zenon DEF tcp_rx_fin
  <2> HIDE DEF v, k, x
  <2>3. IsConnection(t) /\ Good(t, w) /\ Typed(t) /\ n \in Nat /\ n + 2 \in Seqs
        /\ Iss \in Seqs /\ n + 1 \in Seqs
    BY Bounds, Places, ZenonT(30) DEF Live, Good, Typed
  <2>4. Rcv(t) = n + 1
    <3> DEFINE m == n + 1
    <3>1. m \in Seqs
      BY <2>3, ZenonT(30)
    <3> HIDE DEF m
    <3>2. Minus(Plus(Iss, m), Iss) = m
      BY <2>3, <3>1, PlusFacts, Zenon
    <3> QED
      BY <1>2, <3>2, Zenon DEF Rcv, m
  <2>5. "FIN" \notin t.rcvd
    BY <2>3, <2>4 DEF Live, Receiving
  <2>6. /\ v.sent = t.sent /\ v.acked = t.acked /\ v.xfer_closed = t.xfer_closed
        /\ v.snd_seq = t.snd_seq /\ v.snd_win = t.snd_win /\ v.queue = t.queue
        /\ v.rcvd = t.rcvd \cup {"FIN"} /\ v.rcv_ack = t.rcv_ack /\ v.listed = t.listed
        /\ v.snd_sent = t.snd_sent /\ v.rcv_win = t.rcv_win /\ v.tx = t.tx
        /\ v.timer = t.timer /\ IsConnection(v)
    BY <2>2, <2>3, Zenon DEF IsConnection
  <2>7. Good(v, w)
    <3>1. Typed(v) /\ v.listed
      BY <2>3, <2>6, Zenon DEF Typed, Good
    <3>2. FlagsOK(v)
      BY <2>3, <2>6, ZenonT(30) DEF Good, FlagsOK
    <3>3. Sending(v, w)
      BY <2>3, <2>6, ZenonT(30) DEF Good, Sending, Snd
    <3> QED
      BY <2>3, <2>6, <3>1, <3>2, <3>3, ZenonT(30) DEF Good
  <2>8. k \in Nat /\ Rcv(v) = Rcv(t) /\ Rcv(v) + k \in Seqs /\ Rcv(v) + k = n + 2
    BY <2>2, <2>3, <2>4, <2>6, SMTT(30) DEF Rcv
  <2>9. /\ Good(x, w) /\ SameSnd(v, x) /\ x.rcvd = v.rcvd /\ x.tx = v.tx
        /\ Rcv(x) = Rcv(v) + k /\ x.rcv_win + k >= v.rcv_win
    <3>1. TakesSeq(v, x, w, k)
      BY <2>1, <2>7, <2>8, RxSeq, ZenonT(30)
    <3> QED
      BY <3>1, ZenonT(30) DEF TakesSeq
  <2>10. "SYN" \in x.rcvd
    BY <2>6, <2>9, Zenon
  <2>11. /\ Good(u, w) /\ Closes(u) /\ "SYN" \in u.acked /\ u.xfer_closed
         /\ SameRcv(x, u) /\ u.rcv_win = x.rcv_win /\ u.tx = x.tx
    BY <2>2, <2>9, <2>10, Close, SMTT(30)
  <2>12. u.rcvd = t.rcvd \cup {"FIN"} /\ Rcv(u) = n + 2 /\ u.tx = t.tx
    BY <2>6, <2>8, <2>9, <2>11, Zenon DEF SameRcv, Rcv
  <2>13. ended => Live(u, w, n, ended)
    BY <2>11, <2>12, Zenon DEF Live, Established, Receiving
  <2>14. Transmits(u, w)
    BY <2>11, <2>12, SameTransmits, Zenon
  <2>15. Rcv(u) + u.rcv_win >= Rcv(t) + t.rcv_win
    <3>1. Typed(u) /\ Typed(t)
      BY <2>3, <2>11, ZenonT(30) DEF Good
    <3>2. u.rcv_win \in Nat /\ t.rcv_win \in Nat
      BY <3>1, RcvType, Zenon
    <3>3. u.rcv_win + 1 >= t.rcv_win
      BY <2>2, <2>6, <2>9, <2>11, Zenon
    <3> QED
      BY <2>3, <2>4, <2>12, <3>2, <3>3, SumsAtEnd, ZenonT(30)
  <2> QED
    BY <2>4, <2>5, <2>11, <2>12, <2>13, <2>14, <2>15, Zenon DEF TakesFin
<1> QED
  BY <1>1, <1>2, Zenon

\* The end of tcp_rx: the answer, and the timer of a connection that both sides
\* have closed.
LEMMA Finish ==
  ASSUME NEW w \in 0 .. MaxOut, NEW n, NEW ended, NEW t, Live(t, w, n, ended),
         Transmits(t, w), NEW force, NEW win \in Windows,
         NEW u, u = Linger(tcp_xmit(t, force, win))
  PROVE  Moved(t, u, w, n, ended) /\ SameRcv(t, u) /\ u.xfer_closed = t.xfer_closed
<1> DEFINE v == tcp_xmit(t, force, win)
           timer == start_timer([v.timer EXCEPT !.timeout = TwoMsl])
<1>1. /\ v = tcp_xmit(t, force, win)
      /\ \/ u = v
         \/ "FIN" \in v.acked /\ "FIN" \in v.rcvd /\ u = [v EXCEPT !.timer = timer]
  BY Zenon DEF Linger, TCP_CLOSED_GRACEFULLY
<1> HIDE DEF v
<1>2. Moved(t, v, w, n, ended) /\ SameSnd(t, v) /\ SameRcv(t, v)
  BY <1>1, XmitLive, ZenonT(30)
<1>3. IsConnection(v) /\ v.timer \in Timers /\ TwoMsl \in Nat
  BY <1>2, TcpAssumption, ZenonT(30) DEF Moved, Live, Good, Typed
<1>4. timer \in Timers /\ timer.running
  <2>1. [v.timer EXCEPT !.timeout = TwoMsl] \in Timers
    BY <1>3, Zenon DEF Timers
  <2> QED
    BY <2>1, TimerFacts, Zenon
<1> HIDE DEF timer
<1>5. CASE u = v
  BY <1>2, <1>5, ZenonT(30) DEF SameSnd
<1>6. CASE "FIN" \in v.acked /\ "FIN" \in v.rcvd /\ u = [v EXCEPT !.timer = timer]
  <2>1. /\ u.sent = v.sent /\ u.acked = v.acked /\ u.xfer_closed = v.xfer_closed
        /\ u.snd_seq = v.snd_seq /\ u.snd_win = v.snd_win /\ u.queue = v.queue
        /\ u.rcvd = v.rcvd /\ u.rcv_ack = v.rcv_ack /\ u.listed = v.listed
        /\ u.snd_sent = v.snd_sent /\ u.rcv_win = v.rcv_win /\ u.tx = v.tx
        /\ u.timer = timer /\ IsConnection(u)
    BY <1>3, <1>6, Zenon DEF IsConnection
  <2>2. Good(u, w)
    BY <1>2, <1>4, <1>6, <2>1, Zenon DEF Moved, Live, Good, Typed, FlagsOK, Sending, Snd
  <2>3. SameSnd(v, u) /\ SameRcv(v, u)
    BY <2>1, ZenonT(30) DEF SameSnd, SameRcv
  <2>4. Live(u, w, n, ended)
    BY <1>2, <2>2, <2>3, SameLive, ZenonT(30) DEF Moved
  <2>5. Driven(u)
    BY <1>4, <2>1, ZenonT(30) DEF Driven
  <2>6. Transmits(u, w)
    BY <1>2, <2>1, SameTransmits, Zenon DEF Moved
  <2> QED
    BY <1>2, <2>1, <2>3, <2>4, <2>5, <2>6, ZenonT(30) DEF Moved, SameSnd, SameRcv, Rcv
<1> QED
  BY <1>1, <1>5, <1>6, Zenon

\* An acknowledgement, of a live connection.
TakesAck(t, u, w, n, ended) ==
  /\ Good(u, w) /\ Closes(u) /\ Receiving(u, n, ended) /\ SameRcv(t, u)
  /\ u.rcv_win = t.rcv_win /\ u.tx = t.tx /\ u.xfer_closed = t.xfer_closed
  /\ "SYN" \in u.acked

LEMMA AckLive ==
  ASSUME NEW w \in 0 .. MaxOut, NEW n, NEW ended, NEW t, Live(t, w, n, ended),
         NEW a \in 1 .. w + 2, ~tcp_ack_refused(t, Plus(Isn, a)), NEW win \in Nat,
         NEW u, u = tcp_rx_ack(t, Plus(Isn, a), win)
  PROVE  TakesAck(t, u, w, n, ended)
<1> DEFINE k == ack_len(t, Plus(Isn, a))
<1>1. Good(t, w) /\ t.snd_sent \in Nat /\ a \in Nat
  <2>1. Good(t, w) /\ t.snd_sent \in Nat
    BY ZenonT(30) DEF Live, Good, Typed
  <2>2. w \in Nat
    BY Bounds, ZenonT(30)
  <2> QED
    BY <2>1, <2>2
<1>2. k \in Nat /\ (Snd(t) = 0 => k = a)
  BY <1>1, AckPlace, Zenon
<1>3. "SYN" \notin t.acked => Snd(t) = 0
  BY <1>1, ZenonT(30) DEF Good, Sending
<1>4. "SYN" \notin t.acked => ~(k > t.snd_sent)
  BY ZenonT(30) DEF tcp_ack_refused, TCP_HAS_BEEN_ESTABLISHED
<1> HIDE DEF k
<1>5. "SYN" \notin t.acked => a <= t.snd_sent
  BY <1>1, <1>2, <1>3, <1>4, NotMore, ZenonT(30)
<1>6. Acknowledges(t, u, w, a)
  BY <1>1, RxAck, ZenonT(30)
<1>7. Closes(u) /\ "SYN" \in u.acked
  BY <1>5, <1>6, ZenonT(30) DEF Acknowledges, Live
<1>8. Receiving(u, n, ended)
  BY <1>6, Zenon DEF Acknowledges, Live, Receiving, SameRcv, Rcv
<1> QED
  BY <1>6, <1>7, <1>8, ZenonT(30) DEF Acknowledges, TakesAck

\* The two segments with a SYN.
LEMMA HeadSyn ==
  ASSUME NEW w \in 0 .. MaxOut, NEW n \in 0 .. MaxIn, NEW ended, NEW t, Live(t, w, n, ended),
         NEW p, p.seq = Iss, p.win \in Nat,
         \/ p.flags = {"SYN"} /\ ("SYN" \in t.acked \/ t.snd_sent = 1)
         \/ p.flags = {"SYN", "ACK"} /\ p.ack = Plus(Isn, 1) /\ ~tcp_ack_refused(t, p.ack),
         NEW u, u = tcp_rx_head(t, p)
  PROVE  /\ Live(u, w, n, ended) /\ u.tx = t.tx /\ u.xfer_closed = t.xfer_closed
         /\ "SYN" \in u.rcvd
         /\ IF "SYN" \in t.rcvd
            THEN Rcv(u) = Rcv(t) /\ u.rcv_win = t.rcv_win /\ u.rcvd = t.rcvd
            ELSE Rcv(u) = 1 /\ "FIN" \notin u.rcvd
<1> DEFINE v == IF "ACK" \in p.flags THEN tcp_rx_ack(t, p.ack, p.win) ELSE t
<1>1. u = tcp_rx_syn(v, Iss)
  BY Zenon DEF tcp_rx_head
<1>2. /\ Good(v, w) /\ Closes(v) /\ Receiving(v, n, ended) /\ SameRcv(t, v)
      /\ v.rcv_win = t.rcv_win /\ v.tx = t.tx /\ v.xfer_closed = t.xfer_closed
      /\ "SYN" \in v.acked \/ v.snd_sent = 1
  <2>1. CASE p.flags = {"SYN"} /\ ("SYN" \in t.acked \/ t.snd_sent = 1)
    BY <2>1, ZenonT(30) DEF Live, SameRcv
  <2>2. CASE p.flags = {"SYN", "ACK"} /\ p.ack = Plus(Isn, 1) /\ ~tcp_ack_refused(t, p.ack)
    <3> DEFINE a == 1
               ack == p.ack
               win == p.win
    <3>1. v = tcp_rx_ack(t, p.ack, p.win)
      BY <2>2, ZenonT(30)
    <3>2. a \in 1 .. w + 2 /\ ack = Plus(Isn, a) /\ ~tcp_ack_refused(t, ack) /\ win \in Nat
      BY <2>2, Bounds, SMTT(30)
    <3> HIDE DEF a, ack, win, v
    <3>3. v = tcp_rx_ack(t, Plus(Isn, a), win) /\ ~tcp_ack_refused(t, Plus(Isn, a))
      BY <3>1, <3>2, ZenonT(30) DEF ack, win
    <3>4. TakesAck(t, v, w, n, ended)
      BY <3>2, <3>3, AckLive, ZenonT(30)
    <3> QED
      BY <3>4, ZenonT(30) DEF TakesAck
  <2> QED
    BY <2>1, <2>2, Zenon
<1> HIDE DEF v
<1>3. \/ u = v /\ "SYN" \in v.rcvd
      \/ /\ "SYN" \notin v.rcvd /\ Good(u, w) /\ u.rcvd = {"SYN"} /\ Rcv(u) = 1
         /\ u.sent = v.sent \cup {"ACK"} /\ u.acked = v.acked /\ u.queue = v.queue
         /\ u.xfer_closed = v.xfer_closed /\ u.tx = v.tx
  <2>1. TakesSyn(v, u, w)
    BY <1>1, <1>2, RxSyn, ZenonT(30)
  <2> QED
    BY <2>1, ZenonT(30) DEF TakesSyn
<1>4. CASE u = v /\ "SYN" \in v.rcvd
  BY <1>2, <1>4, Zenon DEF Live, Established, SameRcv, Rcv
<1>5. CASE /\ "SYN" \notin v.rcvd /\ Good(u, w) /\ u.rcvd = {"SYN"} /\ Rcv(u) = 1
           /\ u.sent = v.sent \cup {"ACK"} /\ u.acked = v.acked /\ u.queue = v.queue
           /\ u.xfer_closed = v.xfer_closed /\ u.tx = v.tx
  <2>1. Closes(u) /\ Established(u)
    BY <1>2, <1>5, Zenon DEF Closes, Established
  <2>2. Receiving(u, n, ended)
    BY <1>5, Bounds DEF Receiving
  <2> QED
    BY <1>2, <1>5, <2>1, <2>2, Zenon DEF Live, SameRcv
<1> QED
  BY <1>3, <1>4, <1>5, Zenon
================================================================================

------------------------------- MODULE TcpProofs -------------------------------
(***************************************************************************)
(* Proofs about a TCP connection: the assertions of tcp.c, the timer, the  *)
(* receive window, and that the connection implements two byte streams.    *)
(***************************************************************************)
EXTENDS Tcp, TcpHandlers

Connection ==
  /\ tcp.tx = << >>
  /\ Live(tcp, written, peer.sent, peer.finSent) \/ Deleted(tcp)
  /\ NoSilentStall

Application ==
  /\ written \in 0 .. MaxOut /\ app \in {"open", "self", "eof", "reset", "timeout"}
  /\ read = Units(0, Len(read)) /\ Len(read) \in 0 .. peer.sent
  /\ app = "open" => /\ ~tcp.xfer_closed
                     /\ Len(read) = IF "SYN" \in tcp.rcvd THEN Rcv(tcp) - 1 ELSE 0
  /\ app = "eof" => peer.finSent /\ Len(read) = peer.sent

\* The peer q, of a connection t and an application that has written w units.
PeerOf(q, t, w) ==
  /\ q = [rcv |-> q.rcv, got |-> q.got, fin |-> q.fin, up |-> q.up,
          sent |-> q.sent, finSent |-> q.finSent, aborted |-> q.aborted, reset |-> q.reset]
  /\ q.sent \in 0 .. MaxIn
  /\ q.got = Units(0, Len(q.got)) /\ Len(q.got) \in 0 .. w
  /\ IF q.rcv = 0 THEN q.got = << >> /\ ~q.fin
     ELSE q.rcv = Len(q.got) + (IF q.fin THEN 2 ELSE 1)
  /\ q.fin => t.xfer_closed /\ Len(q.got) = w
  /\ q.up /\ t.listed => "SYN" \in t.rcvd
  /\ q.finSent => q.up

Peer == PeerOf(peer, tcp, written)

IInv == Connection /\ Application /\ Peer

-----------------------------------------------------------------------------
(* The peer *)

\* A peer stays what it is for a connection that has moved on.
LEMMA PeerKept ==
  ASSUME Peer, written \in 0 .. MaxOut, NEW u, NEW w \in 0 .. MaxOut,
         w = written \/ (w = written + 1 /\ ~tcp.xfer_closed),
         tcp.xfer_closed => u.xfer_closed,
         u.listed => tcp.listed /\ ("SYN" \in tcp.rcvd => "SYN" \in u.rcvd)
  PROVE  PeerOf(peer, u, w)
<1>1. peer.fin => w = written /\ u.xfer_closed
  BY Zenon DEF Peer, PeerOf
<1>2. Len(peer.got) \in 0 .. w
  <2>1. Len(peer.got) \in 0 .. written
    BY Zenon DEF Peer, PeerOf
  <2> QED
    BY <2>1, Bounds
<1>3. peer.up /\ u.listed => "SYN" \in u.rcvd
  BY Zenon DEF Peer, PeerOf
<1> QED
  BY <1>1, <1>2, <1>3, Zenon DEF Peer, PeerOf

\* What of q is settled in r: data are only appended, and nothing after the FIN.
PeerGrows(q, r) ==
  /\ Len(q.got) <= Len(r.got) /\ (q.fin => r.fin /\ r.got = q.got)
  /\ q.sent <= r.sent /\ (q.finSent => r.finSent /\ r.sent = q.sent)

\* The peer takes a proper segment in its place in the stream.
LEMMA PeerTakesProper ==
  ASSUME NEW u, NEW w \in 0 .. MaxOut, PeerOf(peer, u, w), NEW p, Proper(p, u, w),
         NEW q, q = PeerTakes(p)
  PROVE  /\ PeerOf(q, u, w) /\ PeerGrows(peer, q)
         /\ q.sent = peer.sent /\ q.finSent = peer.finSent
<1> DEFINE start == Minus(p.seq, Isn)
           len == Len(p.data) + (IF p.flags \cap {"SYN", "FIN"} # {} THEN 1 ELSE 0)
           skip == peer.rcv - start
           inOrder == start <= peer.rcv /\ peer.rcv < start + len
           IsPeer(x) == x = [rcv |-> x.rcv, got |-> x.got, fin |-> x.fin, up |-> x.up,
                             sent |-> x.sent, finSent |-> x.finSent, aborted |-> x.aborted,
                             reset |-> x.reset]
           g == Len(peer.got)
<1>1. /\ w \in Nat /\ g \in 0 .. w /\ IsPeer(peer) /\ peer.sent \in 0 .. MaxIn
      /\ peer.got = Units(0, g)
      /\ IF peer.rcv = 0 THEN peer.got = << >> /\ ~peer.fin
         ELSE peer.rcv = g + (IF peer.fin THEN 2 ELSE 1)
      /\ peer.fin => u.xfer_closed /\ g = w
  BY Bounds, Zenon DEF PeerOf
<1>2. peer.rcv \in Nat /\ g \in Nat /\ peer.sent \in Nat /\ g <= w
  <2> HIDE DEF g, IsPeer
  <2>1. g \in Nat /\ g <= w
    BY <1>1
  <2>2. peer.sent \in Nat
    BY <1>1, TcpAssumption
  <2>3. peer.rcv = 0 \/ peer.rcv = g + 1 \/ peer.rcv = g + 2
    BY <1>1, Zenon
  <2> QED
    BY <2>1, <2>2, <2>3
<1>3. peer.got \in Seq(Nat)
  <2> HIDE DEF g
  <2>1. 0 \in Nat /\ g \in Nat
    BY <1>2, Zenon
  <2> QED
    BY <1>1, <2>1, UnitsFacts, SMTT(30)
<1> HIDE DEF g
<1>4. CASE "RST" \in p.flags
  <2>1. q = [peer EXCEPT !.reset = TRUE]
    BY <1>4, Zenon DEF PeerTakes
  <2>2. IsPeer(q) /\ q.rcv = peer.rcv /\ q.got = peer.got /\ q.fin = peer.fin /\ q.up = peer.up
        /\ q.sent = peer.sent /\ q.finSent = peer.finSent
    BY <1>1, <2>1, Zenon
  <2> QED
    BY <1>1, <1>2, <2>2 DEF PeerOf, PeerGrows, g
<1>5. CASE "RST" \notin p.flags
  <2> DEFINE rest == SubSeq(p.data, skip + 1, Len(p.data))
  <2>1. q = [peer EXCEPT !.rcv = IF inOrder THEN start + len ELSE peer.rcv,
                         !.got = IF inOrder THEN peer.got \o rest ELSE peer.got,
                         !.fin = peer.fin \/ (inOrder /\ "FIN" \in p.flags),
                         !.up = peer.up \/ "ACK" \in p.flags]
    BY <1>5, Zenon DEF PeerTakes
  <2> HIDE DEF rest, inOrder, len, start
  <2>2. /\ IsPeer(q) /\ q.sent = peer.sent /\ q.finSent = peer.finSent
        /\ q.up = (peer.up \/ "ACK" \in p.flags)
        /\ inOrder => /\ q.rcv = start + len /\ q.got = peer.got \o rest
                      /\ q.fin = (peer.fin \/ "FIN" \in p.flags)
        /\ ~inOrder => q.rcv = peer.rcv /\ q.got = peer.got /\ q.fin = (peer.fin \/ FALSE)
    BY <1>1, <2>1, Zenon
  <2>3. /\ q.up /\ u.listed => "SYN" \in u.rcvd
        /\ q.finSent => q.up
    BY <1>5, <2>2, Zenon DEF PeerOf, Proper
  <2> SUFFICES /\ q.got = Units(0, Len(q.got)) /\ Len(q.got) \in 0 .. w
               /\ IF q.rcv = 0 THEN q.got = << >> /\ ~q.fin
                  ELSE q.rcv = Len(q.got) + (IF q.fin THEN 2 ELSE 1)
               /\ q.fin => u.xfer_closed /\ Len(q.got) = w
               /\ g <= Len(q.got) /\ (peer.fin => q.fin /\ q.got = peer.got)
    BY <1>1, <1>2, <2>2, <2>3 DEF PeerOf, PeerGrows, g
  <2> HIDE DEF IsPeer
  <2>4. CASE ~inOrder
    <3>1. q.rcv = peer.rcv /\ q.got = peer.got /\ (q.fin <=> peer.fin) /\ Len(q.got) = g
      BY <2>2, <2>4, Zenon DEF g
    <3> QED
      BY <1>1, <1>2, <3>1, SMTT(30)
  <2>5. ASSUME inOrder, p.data = << >>, start \in Nat
        PROVE  q.got = peer.got
    <3> DEFINE m == skip + 1
               k == Len(p.data)
    <3>1. m \in Int /\ k \in Int /\ k < m
      BY <1>2, <2>5 DEF inOrder
    <3>2. rest = SubSeq(p.data, m, k)
      BY Zenon DEF rest
    <3> HIDE DEF m, k, rest
    <3>3. rest = << >>
      BY <3>1, <3>2, PartNone, Zenon
    <3> QED
      BY <1>3, <2>2, <2>5, <3>3, JoinedNone, Zenon
  <2>6. CASE /\ inOrder
             /\ "SYN" \in p.flags /\ "FIN" \notin p.flags /\ p.seq = Isn /\ p.data = << >>
    <3>1. start = 0
      <4>1. Isn \in Seqs /\ SeqMod \in Nat
        BY Bounds, Zenon
      <4>2. Minus(Isn, Isn) = IF Isn < Isn THEN Isn - Isn + SeqMod ELSE Isn - Isn
        BY <4>1, PlusMinus, Zenon
      <4> QED
        BY <2>6, <4>1, <4>2 DEF start, Seqs
    <3>2. len = 1
      BY <2>6 DEF len
    <3>3. peer.rcv = 0
      BY <1>2, <2>6, <3>1, <3>2, SMTT(30) DEF inOrder
    <3>4. q.rcv = start + len /\ (q.fin <=> peer.fin)
      BY <2>2, <2>6, Zenon
    <3>5. q.got = peer.got
      BY <2>5, <2>6, <3>1, Zenon
    <3>6. Len(q.got) = 0 /\ g = 0 /\ q.got = << >>
      BY <1>1, <3>3, <3>5 DEF g
    <3> QED
      BY <1>1, <1>2, <3>1, <3>2, <3>3, <3>4, <3>5, <3>6
  <2>7. CASE /\ inOrder
             /\ "FIN" \in p.flags /\ "SYN" \notin p.flags /\ p.data = << >>
             /\ start = w + 1 /\ u.xfer_closed
    <3>1. len = 1
      BY <2>7 DEF len
    <3>2. peer.rcv = w + 1 /\ start \in Nat
      BY <1>1, <1>2, <2>7, <3>1, SMTT(30) DEF inOrder
    <3>3. q.rcv = start + len /\ q.fin
      BY <2>2, <2>7, Zenon
    <3>4. q.got = peer.got
      BY <2>5, <2>7, <3>2, Zenon
    <3>5. g = w /\ q.rcv = w + 2
      BY <1>1, <1>2, <2>7, <3>1, <3>2, <3>3
    <3>6. Len(q.got) = g
      BY <3>4, Zenon DEF g
    <3> QED
      BY <1>1, <1>2, <2>7, <3>3, <3>4, <3>5, <3>6, SMTT(30)
  <2>8. CASE inOrder /\ p.flags \cap {"SYN", "FIN"} = {} /\ p.data = << >> /\ start \in 1 .. w + 2
    BY <1>1, <1>2, <2>8 DEF inOrder, len
  <2>9. ASSUME inOrder, p.flags \cap {"SYN", "FIN"} = {}, start \in 1 .. w + 2,
               NEW e \in start .. w + 1, p.data = Units(start - 1, e - 1)
        PROVE  /\ q.got = Units(0, e - 1) /\ q.rcv = e /\ e - 1 >= g /\ ~peer.fin /\ ~q.fin
               /\ Len(q.got) = e - 1 /\ e \in 1 .. w + 1
    <3> DEFINE a == start - 1
               c == e - 1
               r == peer.rcv - 1
    <3>1. a \in Nat /\ c \in Nat /\ a <= c /\ c <= w
      BY <1>1, <2>9
    <3>2. Len(Units(a, c)) = IF a <= c THEN c - a ELSE 0
      BY <3>1, UnitsFacts, ZenonT(30)
    <3>3. len = c - a
      BY <2>9, <3>1, <3>2 DEF len
    <3>4. start <= peer.rcv /\ peer.rcv < e
      BY <1>1, <2>9, <3>1, <3>3 DEF inOrder
    <3>5. ~peer.fin /\ r = g /\ r \in Nat /\ skip \in Nat /\ a + skip = r /\ r <= c
      BY <1>1, <1>2, <2>9, <3>1, <3>4, SMTT(30)
    <3>6. SubSeq(Units(a, c), skip + 1, Len(Units(a, c))) = Units(a + skip, c)
      <4> DEFINE k == skip
      <4>1. k \in Nat
        BY <3>5, Zenon
      <4> HIDE DEF k, a, c
      <4>2. SubSeq(Units(a, c), k + 1, Len(Units(a, c))) = Units(a + k, c)
        BY <3>1, <4>1, UnitsRest, Zenon
      <4> QED
        BY <4>2, Zenon DEF k
    <3>7. rest = Units(g, c)
      BY <2>9, <3>5, <3>6, Zenon DEF rest
    <3> DEFINE z == 0
    <3>8. z \in Nat /\ z <= g /\ g <= c /\ g \in Nat
      BY <1>2, <3>5
    <3> HIDE DEF z, c, a
    <3>9. Units(z, g) \o Units(g, c) = Units(z, c)
      BY <3>1, <3>8, UnitsJoin, Zenon
    <3>10. q.got = Units(0, c)
      BY <1>1, <2>2, <2>9, <3>7, <3>9, Zenon DEF z
    <3>11. Len(Units(z, c)) = IF z <= c THEN c - z ELSE 0
      BY <3>1, <3>8, UnitsFacts, Zenon
    <3>12. Len(q.got) = c
      BY <3>1, <3>10, <3>11 DEF z
    <3>13. q.rcv = start + len /\ ~q.fin
      BY <2>2, <2>9, <3>5, Zenon
    <3> QED
      BY <1>1, <2>9, <3>1, <3>3, <3>5, <3>10, <3>12, <3>13 DEF a, c
  <2>10. ASSUME inOrder, p.flags \cap {"SYN", "FIN"} = {}, start \in 1 .. w + 2,
                NEW e \in start .. w + 1, p.data = Units(start - 1, e - 1)
         PROVE  /\ q.got = Units(0, Len(q.got)) /\ Len(q.got) \in 0 .. w
                /\ IF q.rcv = 0 THEN q.got = << >> /\ ~q.fin
                   ELSE q.rcv = Len(q.got) + (IF q.fin THEN 2 ELSE 1)
                /\ q.fin => u.xfer_closed /\ Len(q.got) = w
                /\ g <= Len(q.got) /\ (peer.fin => q.fin /\ q.got = peer.got)
    <3>1. /\ q.got = Units(0, e - 1) /\ q.rcv = e /\ e - 1 >= g /\ ~peer.fin /\ ~q.fin
          /\ Len(q.got) = e - 1 /\ e \in 1 .. w + 1
      BY <2>9, <2>10, Zenon
    <3> QED
      BY <1>1, <1>2, <3>1
  <2>11. \/ "SYN" \in p.flags /\ "FIN" \notin p.flags /\ p.seq = Isn /\ p.data = << >>
         \/ /\ "FIN" \in p.flags /\ "SYN" \notin p.flags /\ p.data = << >>
            /\ start = w + 1 /\ u.xfer_closed
         \/ /\ p.flags \cap {"SYN", "FIN"} = {} /\ start \in 1 .. w + 2
            /\ \/ p.data = << >>
               \/ \E e \in start .. w + 1 : p.data = Units(start - 1, e - 1)
    BY <1>5, Zenon DEF Proper, start
  <2> QED
    BY <2>4, <2>6, <2>7, <2>8, <2>10, <2>11, Zenon
<1> QED
  BY <1>4, <1>5, Zenon

-----------------------------------------------------------------------------
(* One step *)

\* Only the segment to transmit is changed.
LEMMA Cleared ==
  ASSUME NEW t, Typed(t), NEW tx, NEW u, u = [t EXCEPT !.tx = tx]
  PROVE  /\ u.tx = tx /\ SameSnd(t, u) /\ SameRcv(t, u) /\ u.rcv_win = t.rcv_win
         /\ u.listed = t.listed /\ u.timer = t.timer /\ Typed(u)
         /\ \A w : Good(t, w) => Good(u, w)
         /\ Deleted(t) => Deleted(u)
         /\ Driven(t) => Driven(u)
<1>1. IsConnection(t)
  BY Zenon DEF Typed
<1>2. /\ u.sent = t.sent /\ u.acked = t.acked /\ u.xfer_closed = t.xfer_closed
      /\ u.snd_seq = t.snd_seq /\ u.snd_win = t.snd_win /\ u.queue = t.queue
      /\ u.rcvd = t.rcvd /\ u.rcv_ack = t.rcv_ack /\ u.listed = t.listed
      /\ u.snd_sent = t.snd_sent /\ u.rcv_win = t.rcv_win /\ u.timer = t.timer
      /\ u.tx = tx /\ IsConnection(u)
  BY <1>1, Zenon DEF IsConnection
<1>3. Typed(u)
  BY <1>2, Zenon DEF Typed
<1>4. ASSUME NEW w, Good(t, w) PROVE Good(u, w)
  BY <1>2, <1>3, <1>4 DEF Good, FlagsOK, Sending, Snd
<1>5. Deleted(t) => Deleted(u)
  BY <1>2, <1>3, Zenon DEF Deleted
<1>6. Driven(t) => Driven(u)
  BY <1>2, Zenon DEF Driven, Unsent, TCP_FLAGS_SENDING
<1> QED
  BY <1>2, <1>3, <1>4, <1>5, <1>6, Zenon DEF SameSnd, SameRcv

\* What WindowNeverShrinks says, by places.
Edge ==
  tcp.listed /\ tcp'.listed /\ "SYN" \in tcp.rcvd =>
    "SYN" \in tcp'.rcvd /\ Rcv(tcp') + tcp'.rcv_win >= Rcv(tcp) + tcp.rcv_win

LEMMA StallDriven == NoSilentStall <=> (tcp.listed => Driven(tcp))
BY Zenon DEF NoSilentStall, Driven, Unsent, Pending, Stalled

\* A handler has moved the connection on, and its segment, if any, is transmitted.
LEMMA TransmitMoved ==
  ASSUME Peer, written \in 0 .. MaxOut, tcp.listed, NEW u, Transmit(u),
         written' \in 0 .. MaxOut,
         written' = written \/ (written' = written + 1 /\ ~tcp.xfer_closed),
         Moved(tcp, u, written', peer.sent, peer.finSent)
  PROVE  /\ Connection' /\ Peer' /\ PeerGrows(peer, peer') /\ Edge
         /\ peer'.sent = peer.sent /\ peer'.finSent = peer.finSent
         /\ SameSnd(u, tcp') /\ SameRcv(u, tcp') /\ tcp'.listed
<1>1. /\ Live(u, written', peer.sent, peer.finSent) /\ Driven(u) /\ Transmits(u, written')
      /\ Good(u, written') /\ Typed(u) /\ u.listed
  BY Zenon DEF Moved, Live, Good
<1>2. tcp' = [u EXCEPT !.tx = << >>]
  BY Zenon DEF Transmit
<1>3. /\ tcp'.tx = << >> /\ SameSnd(u, tcp') /\ SameRcv(u, tcp') /\ tcp'.rcv_win = u.rcv_win
      /\ tcp'.listed = u.listed /\ Good(tcp', written') /\ Driven(tcp')
  <2> DEFINE v == tcp'
             w == written'
             tx == << >>
  <2>1. v = [u EXCEPT !.tx = tx] /\ Typed(u) /\ Good(u, w) /\ Driven(u)
    BY <1>1, <1>2, Zenon
  <2> HIDE DEF v, w, tx
  <2>2. /\ v.tx = tx /\ SameSnd(u, v) /\ SameRcv(u, v) /\ v.rcv_win = u.rcv_win
        /\ v.listed = u.listed /\ Good(v, w) /\ Driven(v)
    BY <2>1, Cleared
  <2> QED
    BY <2>2, Zenon DEF v, w, tx
<1>4. Live(tcp', written', peer.sent, peer.finSent)
  BY <1>1, <1>3, SameLive, Zenon
<1>5. PeerOf(peer, u, written')
  BY <1>1, PeerKept, Zenon DEF Moved
<1>6. /\ PeerOf(peer', u, written') /\ PeerGrows(peer, peer')
      /\ peer'.sent = peer.sent /\ peer'.finSent = peer.finSent
  <2>1. CASE peer' = peer
    <3>1. Len(peer.got) \in Nat /\ peer.sent \in Nat
      BY <1>5, Bounds DEF PeerOf
    <3> QED
      BY <1>5, <2>1, <3>1 DEF PeerGrows
  <2>2. CASE u.tx # << >> /\ peer' = PeerTakes(u.tx[1])
    <3> DEFINE p == u.tx[1]
    <3>1. Proper(p, u, written')
      BY <1>1, <2>2, Zenon DEF Transmits
    <3> HIDE DEF p
    <3>2. peer' = PeerTakes(p)
      BY <2>2, Zenon DEF p
    <3> QED
      BY <1>5, <3>1, <3>2, PeerTakesProper, Zenon
  <2> QED
    BY <2>1, <2>2, Zenon DEF Transmit
<1>7. PeerOf(peer', tcp', written')
  BY <1>3, <1>6, Zenon DEF PeerOf, SameSnd, SameRcv
<1>8. Connection'
  <2>1. NoSilentStall'
    BY <1>3, Zenon DEF NoSilentStall, Driven, Unsent, Pending, Stalled
  <2> QED
    BY <1>3, <1>4, <1>6, <2>1, Zenon DEF Connection
<1>9. Edge
  BY <1>3, Zenon DEF Edge, Moved, SameRcv, Rcv
<1> QED
  BY <1>1, <1>3, <1>6, <1>7, <1>8, <1>9, Zenon DEF Peer

LEMMA TransmitDeleted ==
  ASSUME Peer, written \in 0 .. MaxOut, NEW u, Deleted(u), u.tx = << >>, Transmit(u),
         written' = written
  PROVE  /\ Connection' /\ Peer' /\ peer' = peer /\ Edge
         /\ tcp'.xfer_closed /\ ~tcp'.listed /\ tcp'.rcvd = {}
<1>1. peer' = peer /\ tcp' = [u EXCEPT !.tx = << >>] /\ Typed(u) /\ ~u.listed
  BY Zenon DEF Transmit, Deleted
<1>2. tcp'.tx = << >> /\ Deleted(tcp')
  <2> DEFINE v == tcp'
             tx == << >>
  <2>1. v = [u EXCEPT !.tx = tx] /\ Typed(u) /\ Deleted(u)
    BY <1>1, Zenon
  <2> HIDE DEF v, tx
  <2>2. v.tx = tx /\ Deleted(v)
    BY <2>1, Cleared
  <2> QED
    BY <2>2, Zenon DEF v, tx
<1>3. tcp'.xfer_closed /\ ~tcp'.listed /\ tcp'.rcvd = {}
  BY <1>2, Zenon DEF Deleted
<1>4. PeerOf(peer, tcp', written)
  BY <1>3, Zenon DEF Peer, PeerOf
<1>5. NoSilentStall'
  BY <1>3, Zenon DEF NoSilentStall
<1> QED
  BY <1>1, <1>2, <1>3, <1>4, <1>5, Zenon DEF Connection, Peer, Edge

Grows ==
  /\ written <= written' /\ (tcp.xfer_closed => tcp'.xfer_closed) /\ PeerGrows(peer, peer')
  /\ Len(read) <= Len(read') /\ (app = "eof" => app' = "eof" /\ read' = read)

Steps == IInv' /\ Grows /\ Edge

\* A live connection is in the table and a deleted one is not.
LEMMA ListedLive ==
  ASSUME IInv
  PROVE  /\ tcp.listed => Live(tcp, written, peer.sent, peer.finSent) /\ Driven(tcp)
         /\ ~tcp.listed => Deleted(tcp)
         /\ tcp.tx = << >> /\ Peer /\ written \in 0 .. MaxOut /\ written \in Nat
         /\ peer.sent \in 0 .. MaxIn /\ peer.sent \in Nat /\ Len(read) \in Nat
         /\ \A win \in RcvWins : win \in Windows
<1>1. Connection /\ Application /\ Peer
  BY Zenon DEF IInv
<1>2. tcp.listed => Live(tcp, written, peer.sent, peer.finSent) /\ Driven(tcp)
  BY <1>1, StallDriven, Zenon DEF Connection, Deleted
<1>3. ~tcp.listed => Deleted(tcp)
  BY <1>1, Zenon DEF Connection, Live, Good
<1>4. tcp.tx = << >> /\ written \in 0 .. MaxOut /\ peer.sent \in 0 .. MaxIn
  BY <1>1, Zenon DEF Connection, Application, Peer, PeerOf
<1>5. Len(read) \in 0 .. peer.sent
  BY <1>1, Zenon DEF Application
<1>6. \A win \in RcvWins : win \in Windows
  BY TcpAssumption, Zenon DEF Windows
<1> QED
  BY <1>1, <1>2, <1>3, <1>4, <1>5, <1>6, Bounds

LEMMA AppWritesSteps ==
  ASSUME IInv, AppWrites PROVE Steps
<1>1. /\ Live(tcp, written, peer.sent, peer.finSent) /\ tcp.listed /\ tcp.tx = << >> /\ Peer
      /\ written \in 0 .. MaxOut /\ written < MaxOut /\ written' = written + 1
      /\ app = "open" /\ app' = app /\ read' = read /\ Len(read) \in Nat /\ Application
  BY ListedLive, Zenon DEF AppWrites, IInv
<1>2. ~tcp.xfer_closed
  BY <1>1, Zenon DEF Application
<1>3. PICK win \in RcvWins : Transmit(tcp_xfer_deliver_iob(tcp, <<written + 1>>, win))
  BY Zenon DEF AppWrites
<1> DEFINE u == tcp_xfer_deliver_iob(tcp, <<written + 1>>, win)
<1>4. u = tcp_xfer_deliver_iob(tcp, <<written + 1>>, win) /\ win \in Windows /\ Transmit(u)
  BY <1>3, ListedLive, Zenon
<1> HIDE DEF u
<1>5. /\ Moved(tcp, u, written + 1, peer.sent, peer.finSent) /\ SameRcv(tcp, u)
      /\ u.xfer_closed = tcp.xfer_closed
  BY <1>1, <1>2, <1>4, XferDeliver
<1>6. written' \in 0 .. MaxOut /\ written <= written'
  <2>1. written \in 0 .. MaxOut /\ written < MaxOut /\ written' = written + 1
    BY <1>1, Zenon
  <2> QED
    BY <2>1, TcpAssumption
<1>7. Moved(tcp, u, written', peer.sent, peer.finSent)
  BY <1>1, <1>5, Zenon
<1>8. /\ Connection' /\ Peer' /\ PeerGrows(peer, peer') /\ Edge
      /\ peer'.sent = peer.sent /\ peer'.finSent = peer.finSent
      /\ SameSnd(u, tcp') /\ SameRcv(u, tcp') /\ tcp'.listed
  BY <1>1, <1>2, <1>4, <1>6, <1>7, TransmitMoved, Zenon
<1>9. tcp'.xfer_closed = tcp.xfer_closed /\ tcp'.rcvd = tcp.rcvd /\ tcp'.rcv_ack = tcp.rcv_ack
  BY <1>5, <1>8, Zenon DEF SameSnd, SameRcv
<1>10. Application'
  BY <1>1, <1>2, <1>6, <1>8, <1>9, Zenon DEF Application, Rcv
<1> QED
  BY <1>1, <1>6, <1>8, <1>9, <1>10, SMTT(30) DEF Steps, IInv, Grows

LEMMA AppClosesSteps ==
  ASSUME IInv, AppCloses PROVE Steps
<1>1. /\ Live(tcp, written, peer.sent, peer.finSent) /\ tcp.listed /\ tcp.tx = << >> /\ Peer
      /\ written \in 0 .. MaxOut /\ written \in Nat /\ written' = written /\ read' = read
      /\ app = "open" /\ app' = "self" /\ Len(read) \in Nat /\ Application
      /\ peer.sent \in Nat
  BY ListedLive, Zenon DEF AppCloses, IInv
<1>2. ~tcp.xfer_closed
  BY <1>1, Zenon DEF Application
<1>3. PICK win \in RcvWins : Transmit(tcp_xfer_close(tcp, win))
  BY Zenon DEF AppCloses
<1> DEFINE u == tcp_xfer_close(tcp, win)
<1>4. u = tcp_xfer_close(tcp, win) /\ win \in Windows /\ Transmit(u)
  BY <1>3, ListedLive, Zenon
<1> HIDE DEF u
<1>5. IF "SYN" \in tcp.rcvd
      THEN Moved(tcp, u, written, peer.sent, peer.finSent) /\ SameRcv(tcp, u) /\ u.xfer_closed
      ELSE Deleted(u) /\ u.tx = << >>
  BY <1>1, <1>4, XferClose, Zenon
<1>6. /\ Connection' /\ Peer' /\ PeerGrows(peer, peer') /\ Edge
      /\ peer'.sent = peer.sent /\ peer'.finSent = peer.finSent
  <2>1. CASE "SYN" \in tcp.rcvd
    <3>1. Moved(tcp, u, written', peer.sent, peer.finSent) /\ written' \in 0 .. MaxOut
      BY <1>1, <1>5, <2>1, Zenon
    <3> QED
      BY <1>1, <1>4, <3>1, TransmitMoved, Zenon
  <2>2. CASE "SYN" \notin tcp.rcvd
    <3>1. Deleted(u) /\ u.tx = << >>
      BY <1>5, <2>2, Zenon
    <3>2. Connection' /\ Peer' /\ peer' = peer /\ Edge
      BY <1>1, <1>4, <3>1, TransmitDeleted, Zenon
    <3>3. PeerGrows(peer, peer)
      BY <1>1, Bounds, SMTT(30) DEF PeerGrows, Peer, PeerOf
    <3> QED
      BY <3>2, <3>3, Zenon
  <2> QED
    BY <2>1, <2>2, Zenon
<1>7. Application'
  BY <1>1, <1>6, Zenon DEF Application
<1> QED
  BY <1>1, <1>2, <1>6, <1>7, SMTT(30) DEF Steps, IInv, Grows

LEMMA ExpiresSteps ==
  ASSUME IInv, Expires PROVE Steps
<1>1. PICK win \in RcvWins :
        /\ Transmit(tcp_expired(tcp, win))
        /\ app' = IF tcp_expired(tcp, win).listed THEN app ELSE ClosedBy("timeout")
  BY Zenon DEF Expires
<1> DEFINE u == tcp_expired(tcp, win)
<1>2. /\ u = tcp_expired(tcp, win) /\ win \in Windows /\ Transmit(u)
      /\ app' = IF u.listed THEN app ELSE ClosedBy("timeout")
  BY <1>1, ListedLive, Zenon
<1> HIDE DEF u
<1>3. tcp.listed
  BY ListedLive, Zenon DEF Expires, Deleted
<1>4. /\ Live(tcp, written, peer.sent, peer.finSent) /\ tcp.tx = << >> /\ Peer
      /\ written \in 0 .. MaxOut /\ written \in Nat /\ written' = written /\ read' = read
      /\ Len(read) \in Nat /\ Application /\ peer.sent \in Nat
  BY <1>3, ListedLive, Zenon DEF Expires, IInv
<1>5. \/ Moved(tcp, u, written, peer.sent, peer.finSent) /\ SameSnd(tcp, u) /\ SameRcv(tcp, u)
      \/ Deleted(u) /\ u.tx = << >>
  BY <1>2, <1>4, Expiry, SMTT(30)
<1>6. CASE Moved(tcp, u, written, peer.sent, peer.finSent) /\ SameSnd(tcp, u) /\ SameRcv(tcp, u)
  <2>1. Moved(tcp, u, written', peer.sent, peer.finSent) /\ written' \in 0 .. MaxOut /\ u.listed
    BY <1>4, <1>6, Zenon DEF Moved, Live, Good
  <2>2. /\ Connection' /\ Peer' /\ PeerGrows(peer, peer') /\ Edge
        /\ peer'.sent = peer.sent /\ peer'.finSent = peer.finSent
        /\ SameSnd(u, tcp') /\ SameRcv(u, tcp')
    BY <1>2, <1>3, <1>4, <2>1, TransmitMoved, Zenon
  <2>3. /\ app' = app /\ tcp'.xfer_closed = tcp.xfer_closed /\ tcp'.rcvd = tcp.rcvd
        /\ tcp'.rcv_ack = tcp.rcv_ack
    BY <1>2, <1>6, <2>1, <2>2, Zenon DEF SameSnd, SameRcv
  <2>4. Application'
    BY <1>4, <2>2, <2>3, Zenon DEF Application, Rcv
  <2> QED
    BY <1>4, <2>2, <2>3, <2>4, SMTT(30) DEF Steps, IInv, Grows
<1>7. CASE Deleted(u) /\ u.tx = << >>
  <2>1. Connection' /\ Peer' /\ peer' = peer /\ Edge /\ tcp'.xfer_closed
    BY <1>2, <1>4, <1>7, TransmitDeleted, Zenon
  <2>2. app' # "open" /\ (app # "open" => app' = app) /\ (app = "open" => app' = "timeout")
    BY <1>2, <1>7, Zenon DEF Deleted, ClosedBy
  <2>3. PeerGrows(peer, peer)
    BY <1>4, Bounds, SMTT(30) DEF PeerGrows, Peer, PeerOf
  <2>4. Application'
    BY <1>4, <2>1, <2>2, Zenon DEF Application
  <2> QED
    BY <1>4, <2>1, <2>2, <2>3, <2>4, SMTT(30) DEF Steps, IInv, Grows
<1> QED
  BY <1>5, <1>6, <1>7, Zenon

\* The segments of the peer.
Carries(p) ==
  /\ "ACK" \in p.flags /\ "SYN" \notin p.flags /\ "RST" \notin p.flags /\ peer.up
  /\ \E from \in 0 .. peer.sent, to \in 0 .. peer.sent, a \in 1 .. written + 2 :
       /\ p.seq = Plus(Iss, 1 + from) /\ p.ack = Plus(Isn, a) /\ p.data = Units(from, to)
       /\ "FIN" \in p.flags => to = peer.sent /\ from <= to /\ peer.finSent

Opens(p) ==
  /\ p.seq = Iss /\ p.data = << >>
  /\ \/ p.flags = {"SYN"} /\ ~(tcp.snd_seq = Isn /\ tcp.snd_sent = 0)
     \/ p.flags = {"SYN", "ACK"} /\ p.ack = Plus(Isn, 1)

Aborts(p) == p.flags = {"RST"} /\ p.data = << >> /\ p.seq \in Seqs

LEMMA SegmentKinds ==
  ASSUME IInv, NEW p \in PeerSegments
  PROVE  p.win \in Nat /\ (Carries(p) \/ Opens(p) \/ Aborts(p))
<1>1. /\ written \in Nat /\ peer.sent \in Nat /\ peer.sent \in 0 .. MaxIn /\ Peer
      /\ SndWins \subseteq Nat
  BY ListedLive, TcpAssumption, Zenon
<1>2. \A a \in 1 .. peer.rcv : a \in 1 .. written + 2
  <2>1. Len(peer.got) \in 0 .. written
        /\ (peer.rcv = 0 \/ peer.rcv = Len(peer.got) + (IF peer.fin THEN 2 ELSE 1))
    BY <1>1, Zenon DEF Peer, PeerOf
  <2>2. peer.rcv = 0 \/ peer.rcv = Len(peer.got) + 1 \/ peer.rcv = Len(peer.got) + 2
    BY <2>1, Zenon
  <2> QED
    BY <1>1, <2>1, <2>2, SMTT(30)
<1>3. peer.finSent => peer.up
  BY <1>1, Zenon DEF Peer, PeerOf
<1>4. CASE p \in SynSegments
  <2>1. p.seq = Iss /\ p.data = << >> /\ p.win \in SndWins
        /\ \/ p.flags = {"SYN"} /\ ~(tcp.snd_seq = Isn /\ tcp.snd_sent = 0)
           \/ p.flags = {"SYN", "ACK"} /\ p.ack = Plus(Isn, 1)
    BY <1>4 DEF SynSegments, Segment
  <2> QED
    BY <1>1, <2>1, Zenon DEF Opens
<1>5. CASE peer.up /\ p \in DataSegments
  <2>1. PICK from \in 0 .. peer.sent, to \in 0 .. peer.sent, a \in 1 .. peer.rcv, win \in SndWins :
          p = Segment({"ACK"}, Plus(Iss, 1 + from), Plus(Isn, a), Units(from, to), win)
    BY <1>5 DEF DataSegments
  <2>2. /\ p.flags = {"ACK"} /\ p.seq = Plus(Iss, 1 + from) /\ p.ack = Plus(Isn, a)
        /\ p.data = Units(from, to) /\ p.win = win
    BY <2>1, Zenon DEF Segment
  <2>3. "FIN" \notin p.flags
    BY <2>2, Zenon
  <2> QED
    BY <1>1, <1>2, <1>5, <2>2, <2>3, Zenon DEF Carries
<1>6. CASE peer.finSent /\ p \in FinSegments
  <2>1. PICK from \in 0 .. peer.sent, a \in 1 .. peer.rcv, win \in SndWins :
          p = Segment({"ACK", "FIN"}, Plus(Iss, 1 + from), Plus(Isn, a),
                      Units(from, peer.sent), win)
    BY <1>6 DEF FinSegments
  <2>2. /\ p.flags = {"ACK", "FIN"} /\ p.seq = Plus(Iss, 1 + from) /\ p.ack = Plus(Isn, a)
        /\ p.data = Units(from, peer.sent) /\ p.win = win
    BY <2>1, Zenon DEF Segment
  <2>3. peer.sent \in 0 .. peer.sent /\ from <= peer.sent
    BY <1>1
  <2> QED
    BY <1>1, <1>2, <1>3, <1>6, <2>2, <2>3, Zenon DEF Carries
<1>7. CASE p \in {Segment({"RST"}, Plus(Iss, 1 + peer.sent + (IF peer.finSent THEN 1 ELSE 0)),
                          0, << >>, 0)}
  <2> DEFINE m == 1 + peer.sent + (IF peer.finSent THEN 1 ELSE 0)
  <2>1. m \in Seqs /\ Iss \in Seqs
    BY <1>1, Bounds DEF Seqs
  <2>2. p.flags = {"RST"} /\ p.data = << >> /\ p.seq = Plus(Iss, m) /\ p.win = 0
    BY <1>7 DEF Segment
  <2> HIDE DEF m
  <2>3. Plus(Iss, m) \in Seqs
    BY <2>1, PlusFacts, Zenon
  <2> QED
    BY <2>2, <2>3 DEF Aborts
<1> QED
  BY <1>4, <1>5, <1>6, <1>7, Zenon DEF PeerSegments

\* The rest of tcp_rx, for a segment without data.
LEMMA TailPlain ==
  ASSUME NEW w \in 0 .. MaxOut, NEW n, NEW ended, NEW t, Live(t, w, n, ended), t.tx = << >>,
         NEW p, p.data = << >>, "FIN" \notin p.flags, data_seq(p) \in Seqs, NEW win \in Windows,
         NEW u, u = tcp_rx_tail(t, p, "take", win)
  PROVE  /\ Moved(t, u, w, n, ended) /\ SameRcv(t, u) /\ u.xfer_closed = t.xfer_closed
         /\ new_data(t, data_seq(p), p.data) = << >>
<1> DEFINE seq == data_seq(p)
           k == Minus(t.rcv_ack, seq)
<1>1. t.rcv_ack \in Seqs
  BY Zenon DEF Live, Good, Typed
<1>2. k \in Seqs
  BY <1>1, PlusMinus, Zenon
<1>3. new_data(t, seq, p.data) = << >>
  <2> DEFINE m == k + 1
             z == 0
             e == << >>
  <2>1. m \in Int /\ z \in Int /\ z < m /\ Len(e) = z
    BY <1>2, TcpAssumption DEF Seqs
  <2>2. new_data(t, seq, p.data) = SubSeq(e, m, Len(e))
    BY Zenon DEF new_data
  <2> HIDE DEF m, z, e
  <2>3. SubSeq(e, m, z) = << >>
    BY <2>1, PartNone, Zenon
  <2> QED
    BY <2>1, <2>2, <2>3, Zenon
<1>4. tcp_rx_data(t, seq, p.data, "take", win) = t
  BY <1>3, Zenon DEF tcp_rx_data
<1> DEFINE force == end_seq(p) # p.seq \/ Minus(end_seq(p), t.rcv_ack) > t.rcv_win
<1>5. u = Linger(tcp_xmit(t, force, win))
  BY <1>4, Zenon DEF tcp_rx_tail
<1> HIDE DEF force
<1>6. Transmits(t, w)
  BY Zenon DEF Transmits
<1>7. Moved(t, u, w, n, ended) /\ SameRcv(t, u) /\ u.xfer_closed = t.xfer_closed
  BY <1>5, <1>6, Finish, SMTT(30)
<1> QED
  BY <1>3, <1>7, Zenon

\* A segment without data or FIN, for a connection whose head is as it should be.
LEMMA PlainSteps ==
  ASSUME IInv, NEW p, tcp.listed, Processes(p), p.data = << >>, "FIN" \notin p.flags,
         data_seq(p) \in Seqs, NEW head, head = tcp_rx_head(tcp, p),
         Live(head, written, peer.sent, peer.finSent), head.tx = << >>,
         head.xfer_closed = tcp.xfer_closed,
         IF "SYN" \in tcp.rcvd
         THEN Rcv(head) = Rcv(tcp) /\ head.rcv_win = tcp.rcv_win /\ head.rcvd = tcp.rcvd
         ELSE ("SYN" \in head.rcvd => Rcv(head) = 1) /\ "FIN" \notin head.rcvd,
         ~("RST" \in p.flags /\ tcp_rst_accepted(head, data_seq(p)))
  PROVE  Steps
<1> DEFINE new == IF app = "open" THEN new_data(head, data_seq(p), p.data) ELSE << >>
           reactions == {"take"} \cup (IF new = << >> THEN {} ELSE {"refuse", "close"})
                        \cup (IF new = << >> \/ written = MaxOut THEN {} ELSE {"answer"})
<1>1. /\ Peer /\ written \in 0 .. MaxOut /\ written \in Nat /\ Len(read) \in Nat
      /\ Application /\ peer.sent \in Nat
      /\ Live(tcp, written, peer.sent, peer.finSent)
  BY ListedLive, Zenon DEF IInv
<1>2. PICK reaction \in reactions, win \in RcvWins :
        /\ Transmit(tcp_rx_tail(head, p, reaction, win))
        /\ read' = IF reaction = "refuse" THEN read ELSE read \o new
        /\ written' = IF reaction = "answer" THEN written + 1 ELSE written
        /\ app' = IF reaction = "close" THEN "self"
                  ELSE IF "FIN" \in tcp_rx_tail(head, p, reaction, win).rcvd
                       THEN ClosedBy("eof") ELSE app
  BY Zenon DEF Processes
<1>3. win \in Windows
  BY ListedLive, Zenon
<1>4. new = << >>
  <2> DEFINE x == tcp_rx_tail(head, p, "take", win)
  <2>1. x = tcp_rx_tail(head, p, "take", win)
    BY Zenon
  <2> HIDE DEF x
  <2>2. new_data(head, data_seq(p), p.data) = << >>
    BY <1>1, <1>3, <2>1, TailPlain, Zenon
  <2> QED
    BY <2>2, Zenon
<1> DEFINE u == tcp_rx_tail(head, p, "take", win)
<1>5. /\ Transmit(u) /\ u = tcp_rx_tail(head, p, "take", win) /\ written' = written
      /\ read' = read \o << >> /\ app' = IF "FIN" \in u.rcvd THEN ClosedBy("eof") ELSE app
  BY <1>2, <1>4, Zenon
<1> HIDE DEF u, new, reactions
<1>6. read' = read
  <2> DEFINE l == Len(read)
             z == 0
  <2>1. z \in Nat /\ l \in Nat /\ read = Units(z, l)
    BY <1>1, Zenon DEF Application
  <2> HIDE DEF z, l
  <2>2. read \in Seq(Nat)
    BY <2>1, UnitsFacts, Zenon
  <2> QED
    BY <1>5, <2>2, JoinedNone, ZenonT(30)
<1>7. /\ Moved(head, u, written, peer.sent, peer.finSent) /\ SameRcv(head, u)
      /\ u.xfer_closed = head.xfer_closed
  BY <1>1, <1>3, <1>5, TailPlain
<1>8. Moved(tcp, u, written', peer.sent, peer.finSent) /\ written' \in 0 .. MaxOut
  BY <1>1, <1>5, <1>7, Zenon DEF Moved, Live, Good, FlagsOK, SameRcv
<1>9. /\ Connection' /\ Peer' /\ PeerGrows(peer, peer') /\ Edge
      /\ peer'.sent = peer.sent /\ peer'.finSent = peer.finSent
      /\ SameSnd(u, tcp') /\ SameRcv(u, tcp')
  BY <1>1, <1>5, <1>8, TransmitMoved, Zenon
<1>10. tcp'.xfer_closed = tcp.xfer_closed /\ tcp'.rcvd = head.rcvd /\ Rcv(tcp') = Rcv(head)
  BY <1>7, <1>9, Zenon DEF SameSnd, SameRcv, Rcv
<1>11. app' = app
  <2>1. "FIN" \in u.rcvd => "FIN" \in tcp.rcvd /\ "SYN" \in tcp.rcvd
    BY <1>1, <1>7, Zenon DEF SameRcv, Live, Good, FlagsOK
  <2>2. "FIN" \in tcp.rcvd /\ "SYN" \in tcp.rcvd => tcp.xfer_closed
    BY <1>1, Zenon DEF Live, Receiving
  <2>3. tcp.xfer_closed => app # "open"
    BY <1>1, Zenon DEF Application
  <2> QED
    BY <1>5, <2>1, <2>2, <2>3, Zenon DEF ClosedBy
<1>12. Application'
  <2>1. app = "open" => Len(read) = IF "SYN" \in head.rcvd THEN Rcv(head) - 1 ELSE 0
    <3>1. app = "open" => Len(read) = IF "SYN" \in tcp.rcvd THEN Rcv(tcp) - 1 ELSE 0
      BY <1>1, Zenon DEF Application
    <3> QED
      BY <3>1, SMTT(30)
  <2> QED
    BY <1>1, <1>5, <1>6, <1>9, <1>10, <1>11, <2>1, Zenon DEF Application
<1> QED
  BY <1>1, <1>5, <1>6, <1>9, <1>10, <1>11, <1>12, SMTT(30) DEF Steps, IInv, Grows

LEMMA OpensSteps ==
  ASSUME IInv, NEW p, p.win \in Nat, Opens(p), Processes(p) PROVE Steps
<1>1. tcp.listed /\ ~("ACK" \in p.flags /\ tcp_ack_refused(tcp, p.ack))
  BY Zenon DEF Processes
<1>2. /\ Live(tcp, written, peer.sent, peer.finSent) /\ tcp.tx = << >>
      /\ written \in 0 .. MaxOut /\ peer.sent \in 0 .. MaxIn
  BY <1>1, ListedLive, Zenon
<1>3. "FIN" \notin p.flags /\ "RST" \notin p.flags /\ "SYN" \in p.flags /\ p.data = << >>
      /\ p.seq = Iss
  BY Zenon DEF Opens
<1>4. data_seq(p) \in Seqs
  <2> DEFINE k == 1
  <2>1. k \in Seqs /\ Iss \in Seqs /\ data_seq(p) = Plus(Iss, k)
    BY <1>3, Bounds, TcpAssumption DEF data_seq, Seqs
  <2> HIDE DEF k
  <2> QED
    BY <2>1, PlusFacts, Zenon
<1>5. \/ p.flags = {"SYN"} /\ ("SYN" \in tcp.acked \/ tcp.snd_sent = 1)
      \/ p.flags = {"SYN", "ACK"} /\ p.ack = Plus(Isn, 1) /\ ~tcp_ack_refused(tcp, p.ack)
  <2>1. CASE p.flags = {"SYN"} /\ ~(tcp.snd_seq = Isn /\ tcp.snd_sent = 0)
    <3> SUFFICES ASSUME "SYN" \notin tcp.acked PROVE tcp.snd_sent = 1
      BY <2>1, Zenon
    <3>1. Snd(tcp) = 0 /\ tcp.snd_sent <= 1 /\ tcp.snd_sent \in Nat /\ tcp.snd_seq \in Seqs
      BY <1>2, Zenon DEF Live, Good, Sending, Typed
    <3>2. Isn \in Seqs /\ SeqMod \in Nat
      BY Bounds, Zenon
    <3>3. Minus(tcp.snd_seq, Isn) = IF tcp.snd_seq < Isn THEN tcp.snd_seq - Isn + SeqMod
                                    ELSE tcp.snd_seq - Isn
      BY <3>1, <3>2, PlusMinus, Zenon
    <3>4. tcp.snd_seq = Isn
      BY <3>1, <3>2, <3>3 DEF Snd, Seqs
    <3> QED
      BY <2>1, <3>1, <3>4
  <2>2. CASE p.flags = {"SYN", "ACK"} /\ p.ack = Plus(Isn, 1)
    BY <1>1, <2>2, Zenon
  <2> QED
    BY <2>1, <2>2, Zenon DEF Opens
<1> DEFINE head == tcp_rx_head(tcp, p)
<1>6. head = tcp_rx_head(tcp, p)
  BY Zenon
<1> HIDE DEF head
<1>7. /\ Live(head, written, peer.sent, peer.finSent) /\ head.tx = tcp.tx
      /\ head.xfer_closed = tcp.xfer_closed
      /\ IF "SYN" \in tcp.rcvd
         THEN Rcv(head) = Rcv(tcp) /\ head.rcv_win = tcp.rcv_win /\ head.rcvd = tcp.rcvd
         ELSE Rcv(head) = 1 /\ "FIN" \notin head.rcvd
  BY <1>2, <1>3, <1>5, <1>6, HeadSyn, SMTT(30)
<1>8. /\ head.tx = << >>
      /\ IF "SYN" \in tcp.rcvd
         THEN Rcv(head) = Rcv(tcp) /\ head.rcv_win = tcp.rcv_win /\ head.rcvd = tcp.rcvd
         ELSE ("SYN" \in head.rcvd => Rcv(head) = 1) /\ "FIN" \notin head.rcvd
      /\ ~("RST" \in p.flags /\ tcp_rst_accepted(head, data_seq(p)))
  BY <1>2, <1>3, <1>7, Zenon
<1> QED
  BY <1>1, <1>3, <1>4, <1>6, <1>7, <1>8, PlainSteps, Zenon

LEMMA AbortsSteps ==
  ASSUME IInv, NEW p, Aborts(p), Processes(p) PROVE Steps
<1>1. tcp.listed
  BY Zenon DEF Processes
<1>2. /\ Live(tcp, written, peer.sent, peer.finSent) /\ tcp.tx = << >> /\ Typed(tcp) /\ Peer
      /\ written \in 0 .. MaxOut /\ written \in Nat /\ peer.sent \in Nat /\ Application
      /\ Len(read) \in Nat
  BY <1>1, ListedLive, Zenon DEF Live, Good, IInv
<1>3. tcp_rx_head(tcp, p) = tcp /\ data_seq(p) = p.seq /\ p.seq \in Seqs /\ p.data = << >>
      /\ "FIN" \notin p.flags
  BY Zenon DEF Aborts, tcp_rx_head, data_seq
<1>4. CASE "RST" \in p.flags /\ tcp_rst_accepted(tcp, data_seq(p))
  <2> DEFINE u == tcp_close(tcp_closed(tcp))
  <2>1. /\ u = tcp_close(tcp_closed(tcp)) /\ Transmit(u) /\ app' = ClosedBy("reset")
        /\ written' = written /\ read' = read
    BY <1>3, <1>4, Zenon DEF Processes
  <2> HIDE DEF u
  <2>2. Deleted(u) /\ u.tx = << >>
    BY <1>2, <2>1, CloseClosed, Zenon
  <2>3. Connection' /\ Peer' /\ peer' = peer /\ Edge /\ tcp'.xfer_closed
    BY <1>2, <2>1, <2>2, TransmitDeleted, Zenon
  <2>4. app' # "open" /\ (app # "open" => app' = app) /\ (app = "open" => app' = "reset")
    BY <2>1, Zenon DEF ClosedBy
  <2>5. PeerGrows(peer, peer)
    BY <1>2, Bounds, SMTT(30) DEF PeerGrows, Peer, PeerOf
  <2>6. Application'
    BY <1>2, <2>1, <2>3, <2>4, Zenon DEF Application
  <2> QED
    BY <1>2, <2>1, <2>3, <2>4, <2>5, <2>6, SMTT(30) DEF Steps, IInv, Grows
<1>5. CASE ~("RST" \in p.flags /\ tcp_rst_accepted(tcp, data_seq(p)))
  <2>1. "SYN" \notin tcp.rcvd => "FIN" \notin tcp.rcvd
    BY <1>2, Zenon DEF Live, Good, FlagsOK
  <2>2. IF "SYN" \in tcp.rcvd
        THEN Rcv(tcp) = Rcv(tcp) /\ tcp.rcv_win = tcp.rcv_win /\ tcp.rcvd = tcp.rcvd
        ELSE ("SYN" \in tcp.rcvd => Rcv(tcp) = 1) /\ "FIN" \notin tcp.rcvd
    BY <2>1, Zenon
  <2>3. tcp = tcp_rx_head(tcp, p) /\ data_seq(p) \in Seqs
    BY <1>3, Zenon
  <2> QED
    BY <1>1, <1>2, <1>3, <1>5, <2>2, <2>3, PlainSteps, Zenon
<1> QED
  BY <1>4, <1>5, Zenon

\* What u has received after t, and what the application's reaction did to it.
Advanced(t, u, new, to, reaction, n, ended) ==
  /\ new = << >> \/ (new = Units(Rcv(t) - 1, to) /\ Rcv(t) - 1 < to)
  /\ "SYN" \in u.rcvd /\ (reaction = "close" => u.xfer_closed)
  /\ \/ /\ u.rcvd = t.rcvd /\ (reaction # "close" => u.xfer_closed = t.xfer_closed)
        /\ Rcv(u) = Rcv(t) + (IF reaction = "refuse" THEN 0 ELSE Len(new))
     \/ /\ "FIN" \in u.rcvd /\ "FIN" \notin t.rcvd /\ u.xfer_closed /\ ended
        /\ n + 1 = Rcv(t) + (IF reaction = "refuse" THEN 0 ELSE Len(new))

\* Data, a FIN or an acknowledgement, for a connection that has received the SYN.
\* The segment holds the units from from to to, and the application may react.
LEMMA TailCarries ==
  ASSUME NEW n \in 0 .. MaxIn, NEW ended, NEW t, written \in 0 .. MaxOut,
         Live(t, written, n, ended), t.tx = << >>, "SYN" \in t.rcvd, "SYN" \in t.acked,
         NEW p, "SYN" \notin p.flags, NEW from \in 0 .. n, NEW to \in 0 .. n,
         p.seq = Plus(Iss, 1 + from), p.data = Units(from, to),
         "FIN" \in p.flags => to = n /\ from <= to /\ ended,
         NEW new, new = new_data(t, data_seq(p), p.data),
         NEW reaction \in {"take", "refuse", "close", "answer"},
         reaction # "take" => new # << >>,
         reaction = "answer" => written < MaxOut /\ ~t.xfer_closed,
         NEW win \in Windows, NEW u, u = tcp_rx_tail(t, p, reaction, win),
         NEW w, w = IF reaction = "answer" THEN written + 1 ELSE written
  PROVE  Moved(t, u, w, n, ended) /\ Advanced(t, u, new, to, reaction, n, ended)
<1> DEFINE t1 == tcp_rx_data(t, data_seq(p), p.data, reaction, win)
           t2 == IF "FIN" \in p.flags THEN tcp_rx_fin(t1, Plus(data_seq(p), Len(p.data))) ELSE t1
           force == end_seq(p) # p.seq \/ Minus(end_seq(p), t2.rcv_ack) > t2.rcv_win
<1>1. /\ u = Linger(tcp_xmit(t2, force, win))
      /\ t2 = IF "FIN" \in p.flags THEN tcp_rx_fin(t1, Plus(data_seq(p), Len(p.data))) ELSE t1
      /\ t1 = tcp_rx_data(t, data_seq(p), p.data, reaction, win)
  BY Zenon DEF tcp_rx_tail
<1> HIDE DEF t1, t2, force
<1>2. /\ n \in Nat /\ n + 2 \in Seqs /\ Iss \in Seqs /\ SeqMod \in Nat
      /\ data_seq(p) = Plus(Iss, 1 + from) /\ Typed(t)
      /\ from \in Nat /\ to \in Nat
  BY Bounds, SMTT(30) DEF data_seq, Live, Good
<1>3. Rcv(t) \in 1 .. n + 2
  BY <1>2, SMTT(30) DEF Live, Receiving
<1>4. new = new_data(t, Plus(Iss, 1 + from), Units(from, to))
  BY <1>2, Zenon
<1>5. new = << >> \/ (new = Units(Rcv(t) - 1, to) /\ Rcv(t) - 1 < to)
  BY <1>2, <1>3, <1>4, NewData, SMTT(30)
<1> DEFINE seq == data_seq(p)
           data == p.data
<1>6. /\ t1 = tcp_rx_data(t, seq, data, reaction, win) /\ new = new_data(t, seq, data)
      /\ \/ new_data(t, seq, data) = << >>
         \/ new_data(t, seq, data) = Units(Rcv(t) - 1, to) /\ Rcv(t) - 1 < to
      /\ reaction # "take" => new_data(t, seq, data) # << >>
  BY <1>1, <1>5, ZenonT(30)
<1> HIDE DEF seq, data
<1>7. /\ Live(t1, w, n, ended) /\ Transmits(t1, w) /\ t1.rcvd = t.rcvd /\ "SYN" \in t1.acked
      /\ Rcv(t1) + t1.rcv_win >= Rcv(t) + t.rcv_win
      /\ Rcv(t1) = Rcv(t) + (IF reaction = "refuse" THEN 0 ELSE Len(new))
      /\ t.xfer_closed => t1.xfer_closed
      /\ reaction = "close" => t1.xfer_closed
      /\ reaction # "close" => t1.xfer_closed = t.xfer_closed
  BY <1>6, RxData, SMTT(30)
<1>8. w \in 0 .. MaxOut
  BY TcpAssumption, SMTT(30)
<1>9. /\ Live(t2, w, n, ended) /\ Transmits(t2, w) /\ "SYN" \in t2.rcvd
      /\ Rcv(t2) + t2.rcv_win >= Rcv(t) + t.rcv_win
      /\ t.xfer_closed => t2.xfer_closed
      /\ reaction = "close" => t2.xfer_closed
      /\ \/ /\ t2.rcvd = t.rcvd /\ (reaction # "close" => t2.xfer_closed = t.xfer_closed)
            /\ Rcv(t2) = Rcv(t) + (IF reaction = "refuse" THEN 0 ELSE Len(new))
         \/ /\ "FIN" \in t2.rcvd /\ "FIN" \notin t.rcvd /\ t2.xfer_closed /\ ended
            /\ n + 1 = Rcv(t) + (IF reaction = "refuse" THEN 0 ELSE Len(new))
  <2>1. CASE t2 = t1
    BY <1>7, <2>1, Zenon
  <2>2. CASE "FIN" \in p.flags
    <3>1. Plus(data_seq(p), Len(p.data)) = Plus(Iss, n + 1)
      <4> DEFINE s == 1 + from
                 k == Len(Units(from, to))
      <4>1. Len(Units(from, to)) = IF from <= to THEN to - from ELSE 0
        BY <1>2, UnitsFacts, Zenon
      <4>2. s \in Seqs /\ k \in Seqs /\ s + k = n + 1 /\ s + k < SeqMod
        BY <1>2, <2>2, <4>1, SMTT(30) DEF Seqs
      <4> HIDE DEF s, k
      <4>3. Plus(Plus(Iss, s), k) = Plus(Iss, s + k)
        BY <1>2, <4>2, Distance, ZenonT(30)
      <4> QED
        BY <1>2, <4>2, <4>3, Zenon DEF s, k
    <3>2. t2 = tcp_rx_fin(t1, Plus(Iss, n + 1)) /\ ended
      BY <1>1, <2>2, <3>1, Zenon
    <3>3. /\ "SYN" \in t1.rcvd /\ "SYN" \in t1.acked /\ Live(t1, w, n, ended)
          /\ Transmits(t1, w)
      BY <1>7, Zenon
    <3>4. t2 = tcp_rx_fin(t1, Plus(Iss, n + 1))
      BY <3>2, Zenon
    <3>5. t2 = t1 \/ TakesFin(t1, t2, w, n, ended)
      BY <1>8, <3>3, <3>4, RxFin, Zenon
    <3>6. ASSUME TakesFin(t1, t2, w, n, ended)
          PROVE  Rcv(t2) + t2.rcv_win >= Rcv(t) + t.rcv_win
      <4>1. Typed(t2) /\ Typed(t1)
        BY <1>7, <3>2, <3>6, Zenon DEF TakesFin, Live, Good
      <4>2. /\ Rcv(t) \in Nat /\ t.rcv_win \in Nat /\ Rcv(t1) \in Nat /\ t1.rcv_win \in Nat
            /\ Rcv(t2) \in Nat /\ t2.rcv_win \in Nat
        BY <1>2, <4>1, RcvType, Zenon
      <4>3. /\ Rcv(t1) + t1.rcv_win >= Rcv(t) + t.rcv_win
            /\ Rcv(t2) + t2.rcv_win >= Rcv(t1) + t1.rcv_win
        BY <1>7, <3>6, ZenonT(30) DEF TakesFin
      <4> QED
        BY <4>2, <4>3, SumsOrdered, ZenonT(30)
    <3> QED
      BY <1>7, <2>1, <3>2, <3>5, <3>6, ZenonT(30) DEF TakesFin
  <2> QED
    BY <1>1, <2>1, <2>2, Zenon
<1>10. Moved(t2, u, w, n, ended) /\ SameRcv(t2, u) /\ u.xfer_closed = t2.xfer_closed
  BY <1>1, <1>8, <1>9, Finish, SMTT(30)
<1>11. Rcv(u) + u.rcv_win >= Rcv(t) + t.rcv_win
  <2>1. Typed(t2) /\ Typed(u)
    BY <1>9, <1>10, Zenon DEF Moved, Live, Good
  <2>2. /\ Rcv(t) \in Nat /\ t.rcv_win \in Nat /\ Rcv(u) \in Nat /\ u.rcv_win \in Nat
        /\ Rcv(t2) \in Nat /\ t2.rcv_win \in Nat
    BY <1>2, <2>1, RcvType, Zenon
  <2>3. /\ Rcv(u) + u.rcv_win >= Rcv(t2) + t2.rcv_win
        /\ Rcv(t2) + t2.rcv_win >= Rcv(t) + t.rcv_win
    BY <1>9, <1>10, Zenon DEF Moved
  <2> QED
    BY <2>2, <2>3, SumsOrdered, ZenonT(30)
<1>12. Moved(t, u, w, n, ended) /\ "SYN" \in u.rcvd
  BY <1>9, <1>10, <1>11, ZenonT(30) DEF Moved, SameRcv
<1>13. u.rcvd = t2.rcvd /\ Rcv(u) = Rcv(t2)
  BY <1>10, Zenon DEF SameRcv, Rcv
<1> QED
  BY <1>5, <1>9, <1>10, <1>12, <1>13, Zenon DEF Advanced

Counted(r) == r = Units(0, Len(r)) /\ Len(r) \in Nat
ReadsOn(r, new, to) ==
  /\ Counted(r \o new) /\ Len(r \o new) = Len(r) + Len(new) /\ Len(new) \in Nat
  /\ new = << >> => r \o new = r
  /\ new # << >> => Len(r \o new) = to

\* What the application has read, after the new part of a segment or without it.
LEMMA ReadOn ==
  ASSUME NEW r, Counted(r), NEW to \in Nat,
         NEW new, new = << >> \/ (new = Units(Len(r), to) /\ Len(r) < to)
  PROVE  ReadsOn(r, new, to)
<1> USE DEF Counted, ReadsOn
<1> DEFINE z == 0
           l == Len(r)
<1>1. z \in Nat /\ l \in Nat /\ z <= l /\ r = Units(z, l)
  OBVIOUS
<1> HIDE DEF z, l
<1>2. r \in Seq(Nat)
  BY <1>1, UnitsFacts, Zenon
<1>3. CASE new = << >>
  <2>1. r \o new = r
    BY <1>2, <1>3, JoinedNone, Zenon
  <2> QED
    BY <1>3, <2>1
<1>4. CASE new # << >>
  <2>1. new = Units(l, to) /\ l <= to
    BY <1>1, <1>4 DEF l
  <2>2. r \o new = Units(z, to)
    BY <1>1, <2>1, UnitsJoin, Zenon
  <2>3. Len(Units(z, to)) = IF z <= to THEN to - z ELSE 0
    BY <1>1, UnitsFacts, Zenon
  <2>4. Len(Units(l, to)) = IF l <= to THEN to - l ELSE 0
    BY <1>1, UnitsFacts, Zenon
  <2>5. Len(r \o new) = to /\ Len(new) = to - l
    BY <1>1, <2>1, <2>2, <2>3, <2>4, SMTT(30) DEF z
  <2> QED
    BY <1>1, <1>4, <2>1, <2>2, <2>5 DEF z, l
<1> QED
  BY <1>3, <1>4, Zenon

\* The head of tcp_rx, for such a segment.
LEMMA HeadCarries ==
  ASSUME IInv, NEW p, p.win \in Nat, Carries(p), Processes(p),
         NEW head, head = tcp_rx_head(tcp, p)
  PROVE  /\ Live(head, written, peer.sent, peer.finSent) /\ "SYN" \in head.acked
         /\ "SYN" \in tcp.rcvd /\ SameRcv(tcp, head) /\ head.rcv_win = tcp.rcv_win
         /\ head.tx = << >> /\ head.xfer_closed = tcp.xfer_closed
<1>1. /\ tcp.listed /\ "ACK" \in p.flags /\ "SYN" \notin p.flags /\ peer.up
      /\ ~tcp_ack_refused(tcp, p.ack)
  BY Zenon DEF Processes, Carries
<1>2. /\ Live(tcp, written, peer.sent, peer.finSent) /\ tcp.tx = << >>
      /\ written \in 0 .. MaxOut /\ Peer
  BY <1>1, ListedLive, Zenon
<1>3. PICK a \in 1 .. written + 2 : p.ack = Plus(Isn, a)
  BY Zenon DEF Carries
<1> DEFINE win == p.win
<1>4. head = tcp_rx_ack(tcp, Plus(Isn, a), win) /\ ~tcp_ack_refused(tcp, Plus(Isn, a))
      /\ win \in Nat
  BY <1>1, <1>3, ZenonT(30) DEF tcp_rx_head
<1> HIDE DEF win
<1>5. /\ Good(head, written) /\ Closes(head) /\ Receiving(head, peer.sent, peer.finSent)
      /\ SameRcv(tcp, head) /\ head.rcv_win = tcp.rcv_win /\ head.tx = tcp.tx
      /\ head.xfer_closed = tcp.xfer_closed /\ "SYN" \in head.acked
  <2>1. TakesAck(tcp, head, written, peer.sent, peer.finSent)
    BY <1>2, <1>3, <1>4, AckLive, ZenonT(30)
  <2> QED
    BY <2>1, ZenonT(30) DEF TakesAck
<1>6. "SYN" \in tcp.rcvd
  BY <1>1, <1>2, Zenon DEF Peer, PeerOf
<1> QED
  BY <1>2, <1>5, <1>6, Zenon DEF Live, Established, SameRcv

LEMMA CarriesSteps ==
  ASSUME IInv, NEW p, p.win \in Nat, Carries(p), Processes(p) PROVE Steps
<1> DEFINE head == tcp_rx_head(tcp, p)
           new == new_data(head, data_seq(p), p.data)
           taken == IF app = "open" THEN new ELSE << >>
           reactions == {"take"} \cup (IF taken = << >> THEN {} ELSE {"refuse", "close"})
                        \cup (IF taken = << >> \/ written = MaxOut THEN {} ELSE {"answer"})
<1>1. tcp.listed /\ "SYN" \notin p.flags /\ "RST" \notin p.flags /\ peer.up
  BY Zenon DEF Processes, Carries
<1>2. /\ Live(tcp, written, peer.sent, peer.finSent) /\ Peer /\ Application
      /\ written \in 0 .. MaxOut /\ written \in Nat /\ peer.sent \in Nat
      /\ peer.sent \in 0 .. MaxIn /\ Len(read) \in Nat /\ MaxOut \in Nat
  BY <1>1, ListedLive, TcpAssumption, Zenon DEF IInv
<1>3. PICK from \in 0 .. peer.sent, to \in 0 .. peer.sent :
        /\ p.seq = Plus(Iss, 1 + from) /\ p.data = Units(from, to)
        /\ "FIN" \in p.flags => to = peer.sent /\ from <= to /\ peer.finSent
  BY Zenon DEF Carries
<1>4. PICK reaction \in reactions, win \in RcvWins :
        /\ Transmit(tcp_rx_tail(head, p, reaction, win))
        /\ read' = IF reaction = "refuse" THEN read ELSE read \o taken
        /\ written' = IF reaction = "answer" THEN written + 1 ELSE written
        /\ app' = IF reaction = "close" THEN "self"
                  ELSE IF "FIN" \in tcp_rx_tail(head, p, reaction, win).rcvd
                       THEN ClosedBy("eof") ELSE app
  BY <1>1, Zenon DEF Processes
<1> DEFINE u == tcp_rx_tail(head, p, reaction, win)
<1>5. /\ reaction \in {"take", "refuse", "close", "answer"} /\ win \in Windows
      /\ reaction # "take" => taken # << >>
      /\ reaction = "answer" => written # MaxOut
      /\ u = tcp_rx_tail(head, p, reaction, win) /\ Transmit(u)
      /\ app' = IF reaction = "close" THEN "self"
                ELSE IF "FIN" \in u.rcvd THEN ClosedBy("eof") ELSE app
  BY <1>4, ListedLive, Zenon
<1>6. /\ Live(head, written, peer.sent, peer.finSent) /\ "SYN" \in head.acked
      /\ "SYN" \in tcp.rcvd /\ SameRcv(tcp, head) /\ head.rcv_win = tcp.rcv_win
      /\ head.tx = << >> /\ head.xfer_closed = tcp.xfer_closed
  BY HeadCarries, Zenon
<1>7. /\ new = new_data(head, data_seq(p), p.data)
      /\ app = "open" => taken = new
      /\ app # "open" => taken = << >>
  BY Zenon
<1> HIDE DEF head, new, taken, reactions, u
<1>8. /\ app = "open" => ~tcp.xfer_closed /\ Len(read) = Rcv(tcp) - 1
      /\ Rcv(head) = Rcv(tcp) /\ head.rcvd = tcp.rcvd
  BY <1>2, <1>6, Zenon DEF Application, SameRcv, Rcv
<1>9. /\ reaction # "take" => app = "open" /\ new # << >>
      /\ reaction = "answer" => written < MaxOut /\ ~head.xfer_closed
  <2>1. reaction # "take" => app = "open" /\ new # << >>
    BY <1>5, <1>7, Zenon
  <2>2. written # MaxOut => written < MaxOut
    BY <1>2, SMTT(30)
  <2> QED
    BY <1>5, <1>6, <1>8, <2>1, <2>2, Zenon
<1>10. /\ Moved(head, u, written', peer.sent, peer.finSent) /\ "SYN" \in u.rcvd
       /\ new = << >> \/ (new = Units(Rcv(head) - 1, to) /\ Rcv(head) - 1 < to)
       /\ reaction = "close" => u.xfer_closed
       /\ \/ /\ u.rcvd = head.rcvd /\ (reaction # "close" => u.xfer_closed = head.xfer_closed)
             /\ Rcv(u) = Rcv(head) + (IF reaction = "refuse" THEN 0 ELSE Len(new))
          \/ /\ "FIN" \in u.rcvd /\ "FIN" \notin head.rcvd /\ u.xfer_closed /\ peer.finSent
             /\ peer.sent + 1 = Rcv(head) + (IF reaction = "refuse" THEN 0 ELSE Len(new))
  <2>1. "SYN" \in head.rcvd /\ "SYN" \in head.acked /\ head.tx = << >>
        /\ Live(head, written, peer.sent, peer.finSent)
    BY <1>6, <1>8, Zenon
  <2>2. written \in 0 .. MaxOut /\ peer.sent \in 0 .. MaxIn /\ "SYN" \notin p.flags
    BY <1>1, <1>2, Zenon
  <2>3. /\ reaction \in {"take", "refuse", "close", "answer"} /\ win \in Windows
        /\ u = tcp_rx_tail(head, p, reaction, win) /\ new = new_data(head, data_seq(p), p.data)
    BY <1>5, <1>7, Zenon
  <2>4. /\ reaction # "take" => new # << >>
        /\ reaction = "answer" => written < MaxOut /\ ~head.xfer_closed
    BY <1>9, Zenon
  <2>5. written' = IF reaction = "answer" THEN written + 1 ELSE written
    BY <1>4, ZenonT(30)
  <2>6. Moved(head, u, written', peer.sent, peer.finSent)
        /\ Advanced(head, u, new, to, reaction, peer.sent, peer.finSent)
    BY <1>3, <2>1, <2>2, <2>3, <2>4, <2>5, TailCarries, SMTT(30)
  <2> QED
    BY <2>6, Zenon DEF Advanced
<1>11. /\ written' \in 0 .. MaxOut /\ written <= written'
       /\ written' = written \/ (written' = written + 1 /\ ~tcp.xfer_closed)
  BY <1>2, <1>4, <1>6, <1>9, SMTT(30)
<1>12. Moved(tcp, u, written', peer.sent, peer.finSent)
  BY <1>6, <1>8, <1>10, Zenon DEF Moved
<1>13. /\ Connection' /\ Peer' /\ PeerGrows(peer, peer') /\ Edge
       /\ peer'.sent = peer.sent /\ peer'.finSent = peer.finSent
       /\ SameSnd(u, tcp') /\ SameRcv(u, tcp')
  BY <1>1, <1>2, <1>5, <1>11, <1>12, TransmitMoved, ZenonT(30)
<1>14. tcp'.xfer_closed = u.xfer_closed /\ tcp'.rcvd = u.rcvd /\ Rcv(tcp') = Rcv(u)
       /\ (tcp.xfer_closed => tcp'.xfer_closed)
  BY <1>12, <1>13, Zenon DEF SameSnd, SameRcv, Rcv, Moved
<1>15. /\ read' = Units(0, Len(read')) /\ Len(read') \in 0 .. peer.sent /\ Len(read) <= Len(read')
       /\ app # "open" => read' = read
       /\ app = "open" =>
            Len(read') = Rcv(head) - 1 + (IF reaction = "refuse" THEN 0 ELSE Len(new))
  <2>1. to \in Nat /\ to <= peer.sent /\ Len(read) <= peer.sent /\ read = Units(0, Len(read))
    BY <1>2, SMTT(30) DEF Application
  <2>2. taken = << >> \/ (taken = Units(Len(read), to) /\ Len(read) < to)
    BY <1>7, <1>8, <1>10, Zenon
  <2>3. Counted(read)
    BY <1>2, <2>1, Zenon DEF Counted
  <2>4. ReadsOn(read, taken, to)
    BY <2>1, <2>2, <2>3, ReadOn, ZenonT(30)
  <2>5. /\ read \o taken = Units(0, Len(read \o taken))
        /\ Len(read \o taken) = Len(read) + Len(taken)
        /\ Len(taken) \in Nat /\ (taken = << >> => read \o taken = read)
        /\ taken # << >> => Len(read \o taken) = to
    BY <2>4, Zenon DEF ReadsOn, Counted
  <2>6. CASE reaction = "refuse"
    <3>1. read' = read /\ app = "open"
      BY <1>4, <1>9, <2>6, Zenon
    <3> QED
      BY <1>2, <1>8, <2>1, <2>6, <3>1, SMTT(30)
  <2>7. CASE reaction # "refuse"
    <3>1. read' = read \o taken
      BY <1>4, <2>7, Zenon
    <3>2. Len(read') \in 0 .. peer.sent /\ Len(read) <= Len(read')
      BY <1>2, <2>1, <2>5, <3>1, SMTT(30)
    <3>3. app = "open" => Len(read') = Rcv(head) - 1 + Len(new)
      BY <1>7, <1>8, <2>5, <3>1, Zenon
    <3> QED
      BY <1>7, <2>5, <2>7, <3>1, <3>2, <3>3, Zenon
  <2> QED
    BY <2>6, <2>7, Zenon
<1>16. app \in {"open", "self", "eof", "reset", "timeout"}
       /\ (app = "eof" => peer.finSent /\ Len(read) = peer.sent)
  BY <1>2, Zenon DEF Application
<1>17. app = "open" => "FIN" \notin head.rcvd
  BY <1>6, <1>8, ZenonT(30) DEF Live, Receiving
<1>18. app # "open" => app' = app
  BY <1>5, <1>9, ZenonT(30) DEF ClosedBy
<1>19. CASE app # "open"
  <2>1. Application'
    BY <1>11, <1>13, <1>15, <1>16, <1>18, <1>19, Zenon DEF Application
  <2> QED
    BY <1>11, <1>13, <1>14, <1>15, <1>18, <1>19, <2>1, ZenonT(30) DEF Steps, IInv, Grows
<1>20. CASE app = "open"
  <2> DEFINE k == IF reaction = "refuse" THEN 0 ELSE Len(new)
  <2>1. Len(read') = Rcv(head) - 1 + k /\ Rcv(head) - 1 = Len(read)
    BY <1>8, <1>15, <1>20, Zenon
  <2>2. Rcv(head) \in Nat /\ k \in Nat
    <3>1. Typed(head)
      BY <1>6, Zenon DEF Live, Good
    <3>2. Rcv(head) \in Nat
      BY <3>1, RcvType, Zenon
    <3>3. CASE reaction = "refuse"
      BY <3>2, <3>3, Zenon
    <3>4. CASE reaction # "refuse"
      <4>1. Len(new) \in Nat
        <5>1. taken = << >> \/ (taken = Units(Len(read), to) /\ Len(read) < to)
          BY <1>7, <1>8, <1>10, Zenon
        <5>2. to \in Nat /\ Counted(read)
          BY <1>2 DEF Application, Counted
        <5>3. ReadsOn(read, taken, to)
          BY <5>1, <5>2, ReadOn, Zenon
        <5> QED
          BY <1>7, <1>20, <5>3, Zenon DEF ReadsOn
      <4> QED
        BY <3>2, <3>4, <4>1, Zenon
    <3> QED
      BY <3>3, <3>4, Zenon
  <2>3. app' = "open" => /\ ~tcp'.xfer_closed
                         /\ Len(read') = IF "SYN" \in tcp'.rcvd THEN Rcv(tcp') - 1 ELSE 0
    <3> SUFFICES ASSUME app' = "open"
                 PROVE  ~tcp'.xfer_closed /\ "SYN" \in tcp'.rcvd /\ Len(read') = Rcv(tcp') - 1
      BY Zenon
    <3>1. reaction # "close" /\ "FIN" \notin u.rcvd
      BY <1>5, <1>20, Zenon DEF ClosedBy
    <3>2. u.xfer_closed = head.xfer_closed /\ Rcv(u) = Rcv(head) + k
      BY <1>10, <3>1, ZenonT(30)
    <3> HIDE DEF k
    <3>3. Len(read') = Rcv(u) - 1
      BY <2>1, <2>2, <3>2
    <3> QED
      BY <1>6, <1>8, <1>10, <1>14, <1>20, <3>2, <3>3, ZenonT(30)
  <2>4. app' = "eof" => peer.finSent /\ Len(read') = peer.sent
    <3> SUFFICES ASSUME app' = "eof" PROVE peer.finSent /\ Len(read') = peer.sent
      BY Zenon
    <3>1. "FIN" \in u.rcvd
      BY <1>5, <1>20, Zenon
    <3>2. peer.finSent /\ peer.sent + 1 = Rcv(head) + k
      BY <1>10, <1>17, <1>20, <3>1, ZenonT(30)
    <3> HIDE DEF k
    <3>3. Len(read') = peer.sent
      BY <1>2, <2>1, <2>2, <3>2, SMTT(30)
    <3> QED
      BY <3>2, <3>3, Zenon
  <2>5. app' \in {"open", "self", "eof"}
    BY <1>5, <1>20, ZenonT(30) DEF ClosedBy
  <2>6. Application'
    BY <1>11, <1>13, <1>15, <2>3, <2>4, <2>5, ZenonT(30) DEF Application
  <2> QED
    BY <1>11, <1>13, <1>14, <1>15, <1>20, <2>6, Zenon DEF Steps, IInv, Grows
<1> QED
  BY <1>19, <1>20, ZenonT(30)

\* The answer to a segment that fits no connection is a reset.
LEMMA ResetProper ==
  ASSUME NEW t, NEW p, NEW w, Typed(t), NEW u, u = tcp_xmit_reset(t, p)
  PROVE  /\ Transmits(u, w) /\ u.tx # << >> /\ Proper(u.tx[1], u, w)
         /\ u = [t EXCEPT !.tx = u.tx]
<1> DEFINE r == [flags |-> {"RST", "ACK"}, seq |-> p.ack, ack |-> p.seq, data |-> << >>]
<1>1. u = [t EXCEPT !.tx = <<r>>] /\ IsConnection(t) /\ "RST" \in r.flags
  BY Zenon DEF tcp_xmit_reset, Typed
<1> HIDE DEF r
<1>2. u.tx = <<r>>
  BY <1>1, ZenonT(30) DEF IsConnection
<1> QED
  BY <1>1, <1>2 DEF Transmits, Proper

LEMMA RefusesSteps ==
  ASSUME IInv, NEW p, Refuses(p) PROVE Steps
<1> DEFINE u == tcp_xmit_reset(tcp, p)
<1>1. /\ u = tcp_xmit_reset(tcp, p) /\ Transmit(u) /\ tcp.listed
      /\ written' = written /\ read' = read /\ app' = app
  BY ZenonT(30) DEF Refuses
<1> HIDE DEF u
<1>2. /\ Live(tcp, written, peer.sent, peer.finSent) /\ Driven(tcp) /\ Typed(tcp) /\ Peer
      /\ Application /\ written \in 0 .. MaxOut /\ written \in Nat /\ Len(read) \in Nat
      /\ Good(tcp, written)
  BY <1>1, ListedLive, Zenon DEF Live, Good, IInv
<1>3. Transmits(u, written) /\ u = [tcp EXCEPT !.tx = u.tx]
  BY <1>1, <1>2, ResetProper, Zenon
<1>4. /\ SameSnd(tcp, u) /\ SameRcv(tcp, u) /\ u.rcv_win = tcp.rcv_win
      /\ Good(u, written) /\ Driven(u)
  <2> DEFINE tx == u.tx
  <2>1. u = [tcp EXCEPT !.tx = tx]
    BY <1>3, Zenon
  <2> HIDE DEF tx
  <2> QED
    BY <1>2, <2>1, Cleared, Zenon
<1>5. Live(u, written, peer.sent, peer.finSent)
  BY <1>2, <1>4, SameLive, Zenon
<1>6. Rcv(tcp) + tcp.rcv_win >= Rcv(tcp) + tcp.rcv_win
  <2>1. Rcv(tcp) \in Nat /\ tcp.rcv_win \in Nat
    BY <1>2, RcvType, Zenon
  <2> QED
    BY <2>1
<1>7. Moved(tcp, u, written', peer.sent, peer.finSent) /\ written' \in 0 .. MaxOut
  BY <1>1, <1>2, <1>3, <1>4, <1>5, <1>6, Zenon DEF Moved, SameSnd, SameRcv, Rcv
<1>8. /\ Connection' /\ Peer' /\ PeerGrows(peer, peer') /\ Edge
      /\ peer'.sent = peer.sent /\ peer'.finSent = peer.finSent
      /\ SameSnd(u, tcp') /\ SameRcv(u, tcp')
  BY <1>1, <1>2, <1>7, TransmitMoved, Zenon
<1>9. tcp'.xfer_closed = tcp.xfer_closed /\ tcp'.rcvd = tcp.rcvd /\ tcp'.rcv_ack = tcp.rcv_ack
  BY <1>4, <1>8, Zenon DEF SameSnd, SameRcv
<1>10. Application'
  BY <1>1, <1>2, <1>8, <1>9, ZenonT(30) DEF Application, Rcv
<1> QED
  BY <1>1, <1>2, <1>8, <1>9, <1>10 DEF Steps, IInv, Grows

LEMMA NotConnectedSteps ==
  ASSUME IInv, NEW p, NotConnected(p) PROVE Steps
<1> DEFINE u == tcp_xmit_reset(tcp, p)
<1>1. /\ u = tcp_xmit_reset(tcp, p) /\ Transmit(u) /\ ~tcp.listed
      /\ written' = written /\ read' = read /\ app' = app
  BY Zenon DEF NotConnected
<1> HIDE DEF u
<1>2. /\ Deleted(tcp) /\ Typed(tcp) /\ Peer /\ Application /\ tcp.xfer_closed
      /\ written \in 0 .. MaxOut /\ written \in Nat /\ Len(read) \in Nat /\ peer.sent \in Nat
  BY <1>1, ListedLive, Zenon DEF Deleted, IInv
<1>3. Proper(u.tx[1], u, written) /\ u = [tcp EXCEPT !.tx = u.tx]
  BY <1>1, <1>2, ResetProper, Zenon
<1>4. Deleted(u) /\ Typed(u)
  BY <1>2, <1>3, Cleared DEF Deleted
<1>5. tcp' = [u EXCEPT !.tx = << >>]
  BY <1>1, Zenon DEF Transmit
<1>6. tcp'.tx = << >> /\ Deleted(tcp')
  BY <1>4, <1>5, Cleared
<1>7. ~u.listed /\ u.xfer_closed /\ ~tcp'.listed /\ tcp'.xfer_closed
  BY <1>4, <1>6, ZenonT(30) DEF Deleted
<1>8. PeerOf(peer, u, written)
  BY <1>2, <1>7, PeerKept, Zenon
<1>9. /\ PeerOf(peer', u, written) /\ PeerGrows(peer, peer')
      /\ peer'.sent = peer.sent /\ peer'.finSent = peer.finSent
  <2>1. CASE peer' = peer
    <3>1. PeerGrows(peer, peer)
      BY <1>2, Bounds DEF PeerGrows, Peer, PeerOf
    <3> QED
      BY <1>8, <2>1, <3>1, ZenonT(30)
  <2>2. CASE peer' = PeerTakes(u.tx[1])
    <3> DEFINE r == u.tx[1]
    <3>1. Proper(r, u, written) /\ peer' = PeerTakes(r)
      BY <1>3, <2>2, Zenon
    <3> HIDE DEF r
    <3> QED
      BY <1>2, <1>8, <3>1, PeerTakesProper, Zenon
  <2> QED
    BY <1>1, <2>1, <2>2, ZenonT(30) DEF Transmit
<1>10. Peer'
  <2>1. PeerOf(peer', tcp', written')
    BY <1>1, <1>7, <1>9, Zenon DEF PeerOf
  <2> QED
    BY <2>1, Zenon DEF Peer
<1>11. Connection'
  BY <1>6, <1>7, Zenon DEF Connection, NoSilentStall
<1>12. Application'
  <2>1. app # "open"
    BY <1>2, Zenon DEF Application
  <2> QED
    BY <1>1, <1>2, <1>9, <2>1, Zenon DEF Application
<1> QED
  BY <1>1, <1>2, <1>7, <1>9, <1>10, <1>11, <1>12, SMTT(30) DEF Steps, IInv, Grows, Edge

\* The peer's own steps, and no step.
LEMMA PeerSteps ==
  ASSUME IInv, tcp' = tcp, written' = written, read' = read, app' = app,
         \/ peer' = peer
         \/ /\ peer.up /\ ~peer.finSent /\ peer.sent < MaxIn
            /\ peer' = [peer EXCEPT !.sent = peer.sent + 1]
         \/ peer.up /\ ~peer.finSent /\ peer' = [peer EXCEPT !.finSent = TRUE]
         \/ peer' = [peer EXCEPT !.aborted = TRUE, !.reset = TRUE]
  PROVE  Steps
<1> DEFINE IsPeer(x) == x = [rcv |-> x.rcv, got |-> x.got, fin |-> x.fin, up |-> x.up,
                             sent |-> x.sent, finSent |-> x.finSent, aborted |-> x.aborted,
                             reset |-> x.reset]
<1>1. /\ Peer /\ Application /\ Connection /\ IsPeer(peer)
      /\ written \in 0 .. MaxOut /\ written \in Nat /\ Len(read) \in Nat /\ peer.sent \in Nat
      /\ peer.sent \in 0 .. MaxIn /\ MaxIn \in Nat
  BY ListedLive, TcpAssumption, Zenon DEF IInv, Peer, PeerOf
<1>2. /\ IsPeer(peer') /\ peer'.rcv = peer.rcv /\ peer'.got = peer.got /\ peer'.up = peer.up
      /\ peer'.fin = peer.fin
      /\ \/ peer'.sent = peer.sent /\ peer'.finSent = peer.finSent
         \/ /\ peer.up /\ ~peer.finSent /\ peer.sent < MaxIn
            /\ peer'.sent = peer.sent + 1 /\ peer'.finSent = peer.finSent
         \/ peer.up /\ ~peer.finSent /\ peer'.finSent /\ peer'.sent = peer.sent
  BY <1>1, Zenon
<1>3. /\ peer'.sent \in 0 .. MaxIn /\ peer.sent <= peer'.sent
      /\ peer.finSent => peer'.finSent /\ peer'.sent = peer.sent
  BY <1>1, <1>2
<1>4. peer'.finSent => peer'.up
  BY <1>1, <1>2, Zenon DEF Peer, PeerOf
<1>5. Peer'
  BY <1>1, <1>2, <1>3, <1>4, ZenonT(30) DEF Peer, PeerOf
<1>6. PeerGrows(peer, peer')
  <2>1. Len(peer.got) <= Len(peer.got)
    BY <1>1, Bounds DEF Peer, PeerOf
  <2> QED
    BY <1>2, <1>3, <2>1, Zenon DEF PeerGrows
<1> HIDE DEF IsPeer
<1>7. Connection'
  <2>1. Live(tcp, written, peer.sent, peer.finSent) => Live(tcp, written, peer'.sent, peer'.finSent)
    <3> SUFFICES ASSUME Live(tcp, written, peer.sent, peer.finSent)
                 PROVE  Receiving(tcp, peer'.sent, peer'.finSent)
      BY Zenon DEF Live
    <3>1. Receiving(tcp, peer.sent, peer.finSent)
      BY Zenon DEF Live
    <3>2. \A r \in 1 .. peer.sent + 1 : r \in 1 .. peer'.sent + 1
      BY <1>1, <1>3
    <3> QED
      BY <1>3, <3>1, <3>2, ZenonT(30) DEF Receiving
  <2>2. NoSilentStall'
    BY <1>1, Zenon DEF Connection, NoSilentStall, Pending, Stalled
  <2> QED
    BY <1>1, <2>1, <2>2, Zenon DEF Connection
<1>8. Application'
  <2>1. Len(read) \in 0 .. peer'.sent
    <3>1. Len(read) \in 0 .. peer.sent
      BY <1>1, Zenon DEF Application
    <3> QED
      BY <1>1, <1>3, <3>1
  <2>2. app = "eof" => peer'.finSent /\ Len(read) = peer'.sent
    BY <1>1, <1>3, Zenon DEF Application
  <2> QED
    BY <1>1, <2>1, <2>2, Zenon DEF Application
<1>9. Edge
  <2> SUFFICES ASSUME tcp.listed PROVE Rcv(tcp) + tcp.rcv_win >= Rcv(tcp) + tcp.rcv_win
    BY Zenon DEF Edge
  <2>1. Typed(tcp)
    BY ListedLive, Zenon DEF Live, Good
  <2>2. Rcv(tcp) \in Nat /\ tcp.rcv_win \in Nat
    BY <2>1, RcvType, Zenon
  <2> QED
    BY <2>2
<1> QED
  BY <1>1, <1>5, <1>6, <1>7, <1>8, <1>9, SMTT(30) DEF Steps, IInv, Grows

-----------------------------------------------------------------------------
(* The theorems *)

\* A connection that tcp_open has just made satisfies the invariant.
LEMMA InitIInv == Init => IInv
<1> SUFFICES ASSUME Init PROVE IInv
  BY Zenon
<1>1. tcp = tcp_open /\ written = 0 /\ read = << >> /\ app = "open" /\ peer = NewPeer
  BY ZenonT(30) DEF Init
<1>2. /\ tcp.sent = {"SYN"} /\ tcp.acked = {} /\ tcp.rcvd = {} /\ tcp.listed
      /\ ~tcp.xfer_closed /\ tcp.snd_seq = Isn /\ tcp.snd_sent = 0 /\ tcp.snd_win = 0
      /\ tcp.rcv_ack = 0 /\ tcp.rcv_win = 0 /\ tcp.queue = << >> /\ tcp.tx = << >>
      /\ tcp.timer = start_timer_nodelay(NewTimer) /\ IsConnection(tcp)
  BY <1>1, Zenon DEF tcp_open, IsConnection
<1>3. tcp.timer \in Timers /\ tcp.timer.running
  <2>1. NewTimer \in Timers
    BY Zenon DEF NewTimer, Timers
  <2>2. start_timer(NewTimer) \in Timers /\ start_timer(NewTimer).running
    BY <2>1, TimerFacts, Zenon
  <2> QED
    BY <1>2, <2>2 DEF start_timer_nodelay, Timers
<1>4. Isn \in Seqs /\ 0 \in Seqs /\ 0 \in Windows /\ 0 \in 0 .. MaxOut /\ 0 \in 0 .. MaxIn
      /\ Minus(Isn, Isn) = 0
  <2>1. Isn \in Seqs /\ SeqMod \in Nat
    BY Bounds, Zenon
  <2>2. Minus(Isn, Isn) = IF Isn < Isn THEN Isn - Isn + SeqMod ELSE Isn - Isn
    BY <2>1, PlusMinus, Zenon
  <2> QED
    BY <2>1, <2>2, TcpAssumption DEF Seqs, Windows
<1>5. Units(0, 0) = << >>
  BY SMTT(30) DEF Units
<1>6. Typed(tcp)
  BY <1>2, <1>3, <1>4, SMTT(30) DEF Typed
<1>7. FlagsOK(tcp)
  BY <1>2, Zenon DEF FlagsOK
<1>8. Sending(tcp, written)
  BY <1>1, <1>2, <1>4, <1>5, SMTT(30) DEF Sending, Snd
<1>9. Live(tcp, written, peer.sent, peer.finSent)
  BY <1>2, <1>6, <1>7, <1>8, Zenon DEF Live, Good, Closes, Established, Receiving
<1>10. Connection
  BY <1>2, <1>3, <1>9, ZenonT(30) DEF Connection, NoSilentStall
<1>11. peer.sent = 0 /\ peer.rcv = 0 /\ peer.got = << >> /\ ~peer.fin /\ ~peer.up /\ ~peer.finSent
  BY <1>1, Zenon DEF NewPeer
<1>12. Application
  BY <1>1, <1>2, <1>4, <1>5, <1>11, SMTT(30) DEF Application
<1>13. peer = [rcv |-> peer.rcv, got |-> peer.got, fin |-> peer.fin, up |-> peer.up,
               sent |-> peer.sent, finSent |-> peer.finSent, aborted |-> peer.aborted,
               reset |-> peer.reset]
  BY <1>1, ZenonT(30) DEF NewPeer
<1>14. Peer
  BY <1>1, <1>4, <1>5, <1>11, <1>13 DEF Peer, PeerOf
<1> QED
  BY <1>10, <1>12, <1>14, Zenon DEF IInv

\* Every step preserves the invariant, extends the two streams and keeps the right
\* edge of the receive window.
LEMMA NextSteps == IInv /\ [Next]_vars => Steps
<1> SUFFICES ASSUME IInv, [Next]_vars PROVE Steps
  BY Zenon
<1>1. CASE AppWrites
  BY <1>1, AppWritesSteps, Zenon
<1>2. CASE AppCloses
  BY <1>2, AppClosesSteps, Zenon
<1>3. CASE Expires
  BY <1>3, ExpiresSteps, Zenon
<1>4. ASSUME NEW p \in PeerSegments, Receives(p) PROVE Steps
  <2>1. p.win \in Nat /\ (Carries(p) \/ Opens(p) \/ Aborts(p))
    BY SegmentKinds, Zenon
  <2>2. CASE Refuses(p)
    BY <2>2, RefusesSteps, Zenon
  <2>3. CASE NotConnected(p)
    BY <2>3, NotConnectedSteps, Zenon
  <2>4. CASE Processes(p)
    BY <2>1, <2>4, CarriesSteps, OpensSteps, AbortsSteps, ZenonT(30)
  <2> QED
    BY <1>4, <2>2, <2>3, <2>4, ZenonT(30) DEF Receives
<1>5. CASE PeerWrites
  BY <1>5, PeerSteps, Zenon DEF PeerWrites
<1>6. CASE PeerCloses
  BY <1>6, PeerSteps, Zenon DEF PeerCloses
<1>7. CASE PeerAborts
  BY <1>7, PeerSteps, Zenon DEF PeerAborts
<1>8. CASE UNCHANGED vars
  BY <1>8, PeerSteps, Zenon DEF vars
<1> QED
  BY <1>1, <1>2, <1>3, <1>4, <1>5, <1>6, <1>7, <1>8, ZenonT(30) DEF Next

\* The invariant: the queue and the sequence numbers of the connection mark one
\* place in each stream, and the flags, the timer, what the application was told
\* and what the peer has taken all agree with that place.
THEOREM Invariant == Spec => []IInv
<1>1. IInv /\ [Next]_vars => IInv'
  BY NextSteps, Zenon DEF Steps
<1> QED
  BY <1>1, InitIInv, PTL DEF Spec

\* The retransmission timer runs only in the states that tcp_expired asserts, and
\* SYN and FIN are never sent together (tcp_xmit).
THEOREM Assertions == Spec => []AssertsHold
<1>1. IInv => AssertsHold
  <2> SUFFICES ASSUME IInv PROVE AssertsHold
    BY Zenon
  <2>1. CASE ~tcp.listed
    <3>1. Deleted(tcp)
      BY <2>1, ListedLive, Zenon
    <3> QED
      BY <3>1, ZenonT(30) DEF Deleted, AssertsHold, TCP_FLAGS_SENDING
  <2>2. CASE tcp.listed
    <3>1. /\ FlagsOK(tcp) /\ Established(tcp)
          /\ tcp.timer.running /\ "FIN" \in tcp.acked => "FIN" \in tcp.rcvd
      <4>1. Live(tcp, written, peer.sent, peer.finSent)
        BY <2>2, ListedLive, Zenon
      <4> QED
        BY <4>1, Zenon DEF Live, Good
    <3>2. ~({"SYN", "FIN"} \subseteq TCP_FLAGS_SENDING(tcp))
      BY <3>1, ZenonT(30) DEF FlagsOK, TCP_FLAGS_SENDING
    <3>3. \/ tcp.sent = {"SYN"} /\ tcp.acked = {} /\ tcp.rcvd = {}
          \/ /\ "SYN" \in tcp.rcvd
             /\ tcp.sent = IF "FIN" \in tcp.sent THEN {"SYN", "ACK", "FIN"} ELSE {"SYN", "ACK"}
             /\ tcp.rcvd = IF "FIN" \in tcp.rcvd THEN {"SYN", "FIN"} ELSE {"SYN"}
             /\ tcp.acked = IF "FIN" \in tcp.acked THEN {"SYN", "FIN"}
                            ELSE IF "SYN" \in tcp.acked THEN {"SYN"} ELSE {}
      <4>1. CASE "SYN" \notin tcp.rcvd
        BY <3>1, <4>1, Zenon DEF FlagsOK, Established
      <4>2. CASE "SYN" \in tcp.rcvd
        <5>1. tcp.sent = IF "FIN" \in tcp.sent THEN {"SYN", "ACK", "FIN"} ELSE {"SYN", "ACK"}
          BY <3>1, <4>2, Zenon DEF FlagsOK
        <5>2. tcp.rcvd = IF "FIN" \in tcp.rcvd THEN {"SYN", "FIN"} ELSE {"SYN"}
          BY <3>1, <4>2, Zenon DEF FlagsOK
        <5>3. tcp.acked = IF "FIN" \in tcp.acked THEN {"SYN", "FIN"}
                          ELSE IF "SYN" \in tcp.acked THEN {"SYN"} ELSE {}
          BY <3>1, <4>2, Zenon DEF FlagsOK
        <5> QED
          BY <4>2, <5>1, <5>2, <5>3, ZenonT(30)
      <4> QED
        BY <4>1, <4>2, Zenon
    <3>4. ASSUME tcp.timer.running
          PROVE  [sent |-> tcp.sent, acked |-> tcp.acked, rcvd |-> tcp.rcvd] \in Expired
      <4>1. /\ "FIN" \in tcp.sent => "SYN" \in tcp.acked
            /\ "FIN" \in tcp.rcvd => "SYN" \in tcp.acked
            /\ "FIN" \in tcp.acked => "FIN" \in tcp.sent /\ "FIN" \in tcp.rcvd
        BY <3>1, <3>4, Zenon DEF FlagsOK
      <4> QED
        BY <3>3, <4>1, Zenon DEF Expired
    <3> QED
      BY <3>2, <3>4, Zenon DEF AssertsHold
  <2> QED
    BY <2>1, <2>2, Zenon
<1> QED
  BY <1>1, Invariant, PTL

\* While something is to be sent the timer runs or the send window is closed.
THEOREM TimerRuns == Spec => []NoSilentStall
<1>1. IInv => NoSilentStall
  BY Zenon DEF IInv, Connection
<1> QED
  BY <1>1, Invariant, PTL

\* The right edge of the receive window never moves back.
THEOREM WindowKept == Spec => WindowNeverShrinks
<1>1. ASSUME IInv, [Next]_vars, tcp.listed, tcp'.listed, "SYN" \in tcp.rcvd
      PROVE  Minus(Plus(tcp'.rcv_ack, tcp'.rcv_win), tcp.rcv_ack) >= tcp.rcv_win
  <2>1. IInv' /\ Edge
    BY <1>1, NextSteps, Zenon DEF Steps
  <2> DEFINE R == Rcv(tcp)
             Q == Rcv(tcp')
             v == tcp'.rcv_win
             m == Q + v
  <2>2. Live(tcp, written, peer.sent, peer.finSent) /\ Typed(tcp) /\ tcp.rcv_win \in Nat
    BY <1>1, ListedLive, Zenon DEF Live, Good, Typed, Windows
  <2>3. Live(tcp', written', peer'.sent, peer'.finSent) /\ Typed(tcp') /\ peer'.sent \in 0 .. MaxIn
    BY <1>1, <2>1, Zenon DEF IInv, Connection, Deleted, Peer, PeerOf, Live, Good
  <2>4. /\ R \in Seqs /\ tcp.rcv_ack = Plus(Iss, R)
        /\ Q \in Seqs /\ tcp'.rcv_ack = Plus(Iss, Q) /\ Iss \in Seqs
    BY <2>2, <2>3, RcvType, Bounds, ZenonT(30)
  <2>5. "SYN" \in tcp'.rcvd /\ Q + v >= R + tcp.rcv_win
    BY <1>1, <2>1, Zenon DEF Edge
  <2>6. Q <= peer'.sent + 2 /\ v \in Windows
    BY <2>3, <2>5, Bounds, SMTT(30) DEF Live, Receiving, Typed
  <2> HIDE DEF R, Q, v
  <2>7. v \in Seqs /\ Q + v < SeqMod /\ m \in Seqs /\ m >= R
    BY <2>2, <2>3, <2>4, <2>5, <2>6, TcpAssumption, SMTT(30) DEF Windows, Seqs
  <2>8. Plus(Plus(Iss, Q), v) = Plus(Iss, Q + v)
    BY <2>4, <2>7, Distance, ZenonT(30)
  <2> HIDE DEF m
  <2>9. Minus(Plus(Iss, m), Plus(Iss, R)) = IF m >= R THEN m - R ELSE m - R + SeqMod
    BY <2>4, <2>7, Distance, ZenonT(30)
  <2>10. Minus(Plus(tcp'.rcv_ack, v), tcp.rcv_ack) = m - R
    BY <2>4, <2>7, <2>8, <2>9, ZenonT(30) DEF m
  <2>11. m - R >= tcp.rcv_win
    BY <2>2, <2>4, <2>5, <2>7 DEF m, Seqs
  <2> QED
    BY <2>10, <2>11, Zenon DEF v
<1>2. IInv /\ [Next]_vars =>
        [tcp.listed /\ tcp'.listed /\ "SYN" \in tcp.rcvd =>
           Minus(Plus(tcp'.rcv_ack, tcp'.rcv_win), tcp.rcv_ack) >= tcp.rcv_win]_vars
  BY <1>1, Zenon
<1> QED
  BY <1>2, Invariant, PTL DEF Spec, WindowNeverShrinks

\* A stream that has reached unit b starts with the stream as it was at unit a.
LEMMA UnitsStart ==
  ASSUME NEW a \in Nat, NEW b \in Nat, a <= b
  PROVE  Len(Units(0, a)) <= Len(Units(0, b)) /\ SubSeq(Units(0, b), 1, Len(Units(0, a))) = Units(0, a)
<1> DEFINE o == 0
<1>1. o \in Nat /\ o + a = a /\ o <= a /\ o <= b /\ a - o = a /\ b - o = b
  OBVIOUS
<1> HIDE DEF o
<1>2. Len(Units(o, a)) = a /\ Len(Units(o, b)) = b
  BY <1>1, UnitsFacts, Zenon
<1>3. SubSeq(Units(o, b), 1, a) = Units(o, o + a)
  BY <1>1, <1>2, UnitsFirst, Zenon
<1> QED
  BY <1>1, <1>2, <1>3, Zenon DEF o

\* Both directions are reliable byte streams: the application is given what the
\* peer wrote and the peer what the application wrote, in order and once, and an
\* end is reported only after everything that was written before it.
THEOREM Refinement == Spec => Streams
<1>1. Init => In!Init /\ Out!Init
  BY DEF Init, NewPeer, tcp_open, Units, In!Init, Out!Init
<1>2. ASSUME IInv, [Next]_vars PROVE In!Next /\ Out!Next
  <2>1. IInv' /\ Grows
    BY <1>2, NextSteps, Zenon DEF Steps
  <2>2. /\ written \in Nat /\ peer.sent \in Nat /\ Len(read) \in Nat /\ read = Units(0, Len(read))
        /\ Len(peer.got) \in Nat /\ peer.got = Units(0, Len(peer.got))
    BY <1>2, TcpAssumption, SMTT(30) DEF IInv, Application, Peer, PeerOf
  <2>3. /\ written' \in Nat /\ peer'.sent \in Nat /\ Len(read') \in Nat /\ Len(peer'.got) \in Nat
        /\ read' = Units(0, Len(read')) /\ peer'.got = Units(0, Len(peer'.got))
        /\ Len(read') <= peer'.sent /\ Len(peer'.got) <= written'
    BY <2>1, TcpAssumption, SMTT(30) DEF IInv, Application, Peer, PeerOf
  <2>4. /\ app' = "eof" => peer'.finSent /\ Len(read') = peer'.sent
        /\ peer'.fin => tcp'.xfer_closed /\ Len(peer'.got) = written'
    BY <2>1, Zenon DEF IInv, Application, Peer, PeerOf
  <2>5. /\ written <= written' /\ (tcp.xfer_closed => tcp'.xfer_closed)
        /\ Len(read) <= Len(read') /\ (app = "eof" => app' = "eof" /\ read' = read)
        /\ Len(peer.got) <= Len(peer'.got) /\ (peer.fin => peer'.fin /\ peer'.got = peer.got)
        /\ peer.sent <= peer'.sent /\ (peer.finSent => peer'.finSent)
    BY <2>1, Zenon DEF Grows, PeerGrows
  <2>6. In!Next
    <3>1. In!Starts(Units(0, peer.sent), Units(0, peer'.sent))
      BY <2>2, <2>3, <2>5, UnitsStart, Zenon DEF In!Starts
    <3>2. In!Starts(read, read') /\ In!Starts(read', Units(0, peer'.sent))
      BY <2>2, <2>3, <2>5, UnitsStart, ZenonT(30) DEF In!Starts
    <3> QED
      BY <2>3, <2>4, <2>5, <3>1, <3>2, Zenon DEF In!Next
  <2>7. Out!Next
    <3>1. Out!Starts(Units(0, written), Units(0, written'))
      BY <2>2, <2>3, <2>5, UnitsStart, Zenon DEF Out!Starts
    <3>2. Out!Starts(peer.got, peer'.got) /\ Out!Starts(peer'.got, Units(0, written'))
      BY <2>2, <2>3, <2>5, UnitsStart, Zenon DEF Out!Starts
    <3> QED
      BY <2>3, <2>4, <2>5, <3>1, <3>2, Zenon DEF Out!Next
  <2> QED
    BY <2>6, <2>7, Zenon
<1>3. IInv /\ [Next]_vars => [In!Next]_(In!vars) /\ [Out!Next]_(Out!vars)
  BY <1>2, Zenon
<1> QED
  BY <1>1, <1>3, Invariant, PTL DEF Spec, Streams, In!Spec, Out!Spec
=============================================================================

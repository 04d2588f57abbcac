-------------------------------- MODULE Tcp ---------------------------------
(***************************************************************************)
(* A TCP connection (TcpConnection) with the application above it, and a   *)
(* peer behind a network that loses, delays, duplicates and reorders       *)
(* segments.                                                               *)
(***************************************************************************)
EXTENDS TcpConnection

VARIABLES
  tcp,       \* the connection
  read,      \* units the application has been given
  app,       \* how the data transfer interface was closed, or "open"
  peer       \* the peer: what it has received and sent

vars == <<tcp, written, read, app, peer>>

-----------------------------------------------------------------------------
(***************************************************************************)
(* The peer, a TCP that keeps to the rules.  It receives a segment when it *)
(* is transmitted or never; what it sent may arrive at any later time and  *)
(* any number of times, in segments of any length.                         *)
(***************************************************************************)
NewPeer == [rcv |-> 0, got |-> << >>, fin |-> FALSE, up |-> FALSE, sent |-> 0,
            finSent |-> FALSE, aborted |-> FALSE, reset |-> FALSE]

\* rcv counts the client's sequence space: the SYN, the units, the FIN.
PeerTakes(p) ==
  LET start == Minus(p.seq, Isn)
      len == Len(p.data) + (IF p.flags \cap {"SYN", "FIN"} # {} THEN 1 ELSE 0)
      skip == peer.rcv - start
      inOrder == start <= peer.rcv /\ peer.rcv < start + len
      acked == "ACK" \in p.flags
  IN IF "RST" \in p.flags THEN [peer EXCEPT !.reset = TRUE]
     ELSE [peer EXCEPT
             !.rcv = IF inOrder THEN start + len ELSE @,
             !.got = IF inOrder THEN @ \o SubSeq(p.data, skip + 1, Len(p.data)) ELSE @,
             !.fin = @ \/ (inOrder /\ "FIN" \in p.flags),
             !.up = @ \/ acked]

Transmit(t) ==
  /\ tcp' = [t EXCEPT !.tx = << >>]
  /\ \/ peer' = peer
     \/ t.tx # << >> /\ ~peer.reset /\ peer' = PeerTakes(t.tx[1])

Segment(flags, seq, ack, data, win) ==
  [flags |-> flags, seq |-> seq, ack |-> ack, data |-> data, win |-> win]

\* SYN with or without ACK (both sides open at once), data with all
\* acknowledgements so far, FIN, RST.  Nobody opens towards a client that has
\* sent nothing yet.
SynSegments ==
  (IF tcp.snd_seq = Isn /\ tcp.snd_sent = 0 THEN {}
   ELSE {Segment({"SYN"}, Iss, 0, << >>, w) : w \in SndWins})
  \cup (IF peer.rcv = 0 THEN {}
        ELSE {Segment({"SYN", "ACK"}, Iss, Plus(Isn, 1), << >>, w) : w \in SndWins})

DataSegments ==
  {Segment({"ACK"}, Plus(Iss, 1 + from), Plus(Isn, a), Units(from, to), w) :
     from \in 0 .. peer.sent, to \in 0 .. peer.sent, a \in 1 .. peer.rcv, w \in SndWins}

FinSegments ==
  {Segment({"ACK", "FIN"}, Plus(Iss, 1 + from), Plus(Isn, a), Units(from, peer.sent), w) :
     from \in 0 .. peer.sent, a \in 1 .. peer.rcv, w \in SndWins}

PeerSegments ==
  SynSegments \cup (IF peer.up THEN DataSegments ELSE {})
  \cup (IF peer.finSent THEN FinSegments ELSE {})
  \cup (IF peer.aborted
        THEN {Segment({"RST"}, Plus(Iss, 1 + peer.sent + (IF peer.finSent THEN 1 ELSE 0)),
                      0, << >>, 0)}
        ELSE {})

PeerWrites ==
  /\ peer.up /\ ~peer.reset /\ ~peer.finSent /\ peer.sent < MaxIn
  /\ peer' = [peer EXCEPT !.sent = @ + 1]
  /\ UNCHANGED <<tcp, written, read, app>>

PeerCloses ==
  /\ peer.up /\ ~peer.reset /\ ~peer.finSent
  /\ peer' = [peer EXCEPT !.finSent = TRUE]
  /\ UNCHANGED <<tcp, written, read, app>>

PeerAborts ==
  /\ peer.up /\ ~peer.reset
  /\ peer' = [peer EXCEPT !.aborted = TRUE, !.reset = TRUE]
  /\ UNCHANGED <<tcp, written, read, app>>

-----------------------------------------------------------------------------
Init == tcp = tcp_open /\ written = 0 /\ read = << >> /\ app = "open" /\ peer = NewPeer

\* Only the first close reaches the application, whose interface is then gone.
ClosedBy(why) == IF app = "open" THEN why ELSE app

AppWrites ==
  /\ tcp.listed /\ app = "open" /\ written < MaxOut
  /\ written' = written + 1
  /\ \E w \in RcvWins : Transmit(tcp_xfer_deliver_iob(tcp, <<written + 1>>, w))
  /\ UNCHANGED <<read, app>>

AppCloses ==
  /\ tcp.listed /\ app = "open" /\ app' = "self"
  /\ \E w \in RcvWins : Transmit(tcp_xfer_close(tcp, w))
  /\ UNCHANGED <<written, read>>

Expires ==
  /\ tcp.timer.running
  /\ \E w \in RcvWins :
       LET t == tcp_expired(tcp, w)
       IN Transmit(t) /\ app' = IF t.listed THEN app ELSE ClosedBy("timeout")
  /\ UNCHANGED <<written, read>>

\* The segment acknowledges what was never sent, before the connection is up.
Refuses(p) ==
  /\ tcp.listed /\ "ACK" \in p.flags /\ tcp_ack_refused(tcp, p.ack)
  /\ Transmit(tcp_xmit_reset(tcp, p))
  /\ UNCHANGED <<written, read, app>>

Processes(p) ==
  LET head == tcp_rx_head(tcp, p)
      resets == "RST" \in p.flags /\ tcp_rst_accepted(head, data_seq(p))
      new == IF app = "open" THEN new_data(head, data_seq(p), p.data) ELSE << >>
      reactions == {"take"} \cup (IF new = << >> THEN {} ELSE {"refuse", "close"})
                   \cup (IF new = << >> \/ written = MaxOut THEN {} ELSE {"answer"})
  IN /\ tcp.listed /\ ~("ACK" \in p.flags /\ tcp_ack_refused(tcp, p.ack))
     /\ IF resets
        THEN /\ Transmit(tcp_close(tcp_closed(head))) /\ app' = ClosedBy("reset")
             /\ UNCHANGED <<written, read>>
        ELSE \E reaction \in reactions, w \in RcvWins :
               LET t == tcp_rx_tail(head, p, reaction, w)
               IN /\ Transmit(t)
                  /\ read' = IF reaction = "refuse" THEN read ELSE read \o new
                  /\ written' = IF reaction = "answer" THEN written + 1 ELSE written
                  /\ app' = IF reaction = "close" THEN "self"
                            ELSE IF "FIN" \in t.rcvd THEN ClosedBy("eof") ELSE app

\* tcp_demux finds no connection.
NotConnected(p) ==
  /\ ~tcp.listed
  /\ Transmit(tcp_xmit_reset(tcp, p))
  /\ UNCHANGED <<written, read, app>>

Receives(p) == Refuses(p) \/ Processes(p) \/ NotConnected(p)

Next ==
  \/ AppWrites \/ AppCloses \/ Expires
  \/ \E p \in PeerSegments : Receives(p)
  \/ PeerWrites \/ PeerCloses \/ PeerAborts

\* What the peer sends until it is acknowledged: all that is not yet received.
Latest ==
  LET from == Lesser(Minus(tcp.rcv_ack, Plus(Iss, 1)), peer.sent)
  IN Segment({"ACK"} \cup (IF peer.finSent THEN {"FIN"} ELSE {}), Plus(Iss, 1 + from),
             Plus(Isn, peer.rcv), Units(from, peer.sent), PathMtu)

\* The peer retransmits until its FIN is acknowledged; the disjunction is weak
\* fairness of a step that is enabled exactly while PeerOwes.
PeerOwes == tcp.listed /\ peer.up /\ ~peer.reset /\ ~("FIN" \in tcp.rcvd)

PeerRetransmits == PeerOwes /\ Processes(Latest)

Fairness ==
  /\ WF_vars(Expires) /\ WF_vars(PeerCloses)
  /\ []<>~PeerOwes \/ []<><<PeerRetransmits>>_vars

Spec == Init /\ [][Next]_vars /\ Fairness

-----------------------------------------------------------------------------
In == INSTANCE ByteStream WITH written <- Units(0, peer.sent), ended <- peer.finSent,
                               delivered <- read, eof <- app = "eof"
Out == INSTANCE ByteStream WITH written <- Units(0, written), ended <- tcp.xfer_closed,
                                delivered <- peer.got, eof <- peer.fin

\* The connection implements two reliable streams over segments that are lost,
\* repeated and reordered: each side is given what the other wrote, in order and
\* once, and an end is reported only after all of it (tcp_rx_data, tcp_rx_fin,
\* tcp_rx_ack and the FIN that tcp_close holds back while data are queued).
Streams == In!Spec /\ Out!Spec

\* The states of tcp.h in which the retransmission timer may fire.
Expired == {
  [sent |-> {"SYN"}, acked |-> {}, rcvd |-> {}],
  [sent |-> {"SYN", "ACK"}, acked |-> {}, rcvd |-> {"SYN"}],
  [sent |-> {"SYN", "ACK"}, acked |-> {"SYN"}, rcvd |-> {"SYN"}],
  [sent |-> {"SYN", "ACK", "FIN"}, acked |-> {"SYN"}, rcvd |-> {"SYN"}],
  [sent |-> {"SYN", "ACK", "FIN"}, acked |-> {"SYN", "FIN"}, rcvd |-> {"SYN", "FIN"}],
  [sent |-> {"SYN", "ACK"}, acked |-> {"SYN"}, rcvd |-> {"SYN", "FIN"}],
  [sent |-> {"SYN", "ACK", "FIN"}, acked |-> {"SYN"}, rcvd |-> {"SYN", "FIN"}]}

\* The assertions of tcp_expired and tcp_xmit cannot fail: whatever the order of
\* closes, segments and expiries, the timer runs only in the states it names and
\* SYN and FIN are never sent together.
AssertsHold ==
  /\ tcp.timer.running => [sent |-> tcp.sent, acked |-> tcp.acked, rcvd |-> tcp.rcvd] \in Expired
  /\ ~({"SYN", "FIN"} \subseteq TCP_FLAGS_SENDING(tcp))

Pending == tcp.queue # << >> \/ TCP_FLAGS_SENDING(tcp) \cap {"SYN", "FIN"} # {}
Stalled == tcp.queue # << >> /\ tcp.snd_win = 0 /\ ~tcp.timer.running

\* While something is still to be sent the timer runs, unless data wait at a send
\* window of zero, which tcp_rx_ack does not open again before new data are
\* acknowledged (tcp_xmit, tcp_rx_ack).
NoSilentStall == tcp.listed /\ Pending /\ ~tcp.timer.running => Stalled

\* The right edge of the receive window never moves back: what the peer was once
\* allowed to send stays allowed when memory or the application's window shrink
\* (tcp_xmit, tcp_rx_seq).
WindowNeverShrinks ==
  [][tcp.listed /\ tcp'.listed /\ "SYN" \in tcp.rcvd =>
       Minus(Plus(tcp'.rcv_ack, tcp'.rcv_win), tcp.rcv_ack) >= tcp.rcv_win]_vars

Deserted == peer.reset /\ ~Pending

\* A connection that its application has closed is freed in the end, unless data
\* wait at a send window of zero or the peer has vanished without a FIN: neither
\* case has a timer (tcp_close, tcp_rx, tcp_expired).
Freed == tcp.xfer_closed ~> (~tcp.listed \/ Stalled \/ Deserted)
=============================================================================

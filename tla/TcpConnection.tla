--------------------------- MODULE TcpConnection ----------------------------
(***************************************************************************)
(* A TCP connection of gPXE: net/tcp.c over net/retry.c.                   *)
(*                                                                         *)
(* The connection is one record, as in the code, and a function of the     *)
(* code is an operator from that record to the next.  tcp_state is three   *)
(* sets of flags: sent, acked and rcvd.  The data are numbered units; the  *)
(* transmit queue is the units in it, without the buffers that carry them. *)
(* Sequence numbers count modulo SeqMod.  tx is the segment that was       *)
(* transmitted: no handler transmits two.  Ports, checksums, options and   *)
(* timestamps are left out.                                                *)
(***************************************************************************)
EXTENDS RetryTimer, Sequences

CONSTANTS
  SeqMod,        \* sequence numbers are modulo 2^32
  Isn, Iss,      \* initial sequence numbers of the client and of the peer
  PathMtu,       \* TCP_PATH_MTU, in units
  TwoMsl,        \* 2 * TCP_MSL
  SndWins,       \* the windows the peer may advertise
  RcvWins,       \* what memory and application may allow for the receive window
  MaxOut,        \* bound: units the application writes
  MaxIn          \* bound: units the peer writes

ASSUME TcpAssumption ==
  /\ SeqMod \in Nat \ {0} /\ Isn \in 0 .. SeqMod - 1 /\ Iss \in 0 .. SeqMod - 1
  /\ PathMtu \in Nat \ {0} /\ TwoMsl \in Nat /\ TwoMsl > MaxTimeout
  /\ SndWins \subseteq Nat /\ PathMtu \in SndWins /\ RcvWins \subseteq Nat /\ 0 \in RcvWins
  /\ MaxOut \in Nat /\ MaxIn \in Nat /\ 2 * (MaxOut + MaxIn + 4) < SeqMod
  /\ \A win \in RcvWins : win + MaxIn + 2 < SeqMod   \* 16 bits against 32

VARIABLE written   \* units the application has written, which gives the next one its number

\* The data from one place in a stream to another.
Units(from, to) == [i \in 1 .. to - from |-> from + i]

Plus(a, n) == (a + n) % SeqMod
Minus(a, b) == (a - b + SeqMod) % SeqMod
Lesser(a, b) == IF a < b THEN a ELSE b

-----------------------------------------------------------------------------
TCP_FLAGS_SENDING(t) == t.sent \ t.acked
TCP_CAN_SEND_DATA(t) == "SYN" \in t.acked /\ "FIN" \notin t.sent
TCP_HAS_BEEN_ESTABLISHED(t) == "SYN" \in t.acked /\ "SYN" \in t.rcvd
TCP_CLOSED_GRACEFULLY(t) == "FIN" \in t.acked /\ "FIN" \in t.rcvd

tcp_closed(t) == [t EXCEPT !.sent = {"RST"}, !.acked = {}, !.rcvd = {}]

tcp_open ==
  [sent |-> {"SYN"}, acked |-> {}, rcvd |-> {}, listed |-> TRUE, xfer_closed |-> FALSE,
   snd_seq |-> Isn, snd_sent |-> 0, snd_win |-> 0, rcv_ack |-> 0, rcv_win |-> 0,
   queue |-> << >>, timer |-> start_timer_nodelay(NewTimer), tx |-> << >>]

tcp_process_queue(t, len) == [t EXCEPT !.queue = SubSeq(@, len + 1, Len(@))]

tcp_xmit_win(t) == IF TCP_CAN_SEND_DATA(t) THEN Lesser(t.snd_win, PathMtu) ELSE 0

\* The receive window after a transmission (Expand receive window if possible),
\* and its mutant, which also takes it back.
ExpandedShrinking(rcv_win, max_rcv_win) == max_rcv_win
Expanded(rcv_win, max_rcv_win) == IF rcv_win < max_rcv_win THEN max_rcv_win ELSE rcv_win

\* Whether the retransmission timer is needed; mutant: for data only.
NeedsTimerForData(len, seq_len) == len > 0
NeedsTimer(len, seq_len) == seq_len > 0

\* A buffer that cannot be allocated is a segment that is lost.
tcp_xmit(t, force_send, max_rcv_win) ==
  LET len == Lesser(Len(t.queue), tcp_xmit_win(t))
      flags == TCP_FLAGS_SENDING(t)
      seq_len == len + (IF flags \cap {"SYN", "FIN"} # {} THEN 1 ELSE 0)
  IN IF t.timer.running THEN t
     ELSE IF seq_len = 0 /\ ~force_send THEN [t EXCEPT !.snd_sent = 0]
     ELSE [t EXCEPT !.snd_sent = seq_len, !.rcv_win = Expanded(@, max_rcv_win),
             !.timer = IF NeedsTimer(len, seq_len) THEN start_timer(@) ELSE @,
             !.tx = <<[flags |-> flags, seq |-> t.snd_seq, ack |-> t.rcv_ack,
                       data |-> SubSeq(t.queue, 1, len)]>>]

\* Answering a segment that fits no connection.
tcp_xmit_reset(t, p) ==
  [t EXCEPT !.tx = <<[flags |-> {"RST", "ACK"}, seq |-> p.ack, ack |-> p.seq, data |-> << >>]>>]

ack_len(t, ack) == Minus(ack, t.snd_seq)

tcp_ack_refused(t, ack) == ack_len(t, ack) > t.snd_sent /\ ~TCP_HAS_BEEN_ESTABLISHED(t)

tcp_rx_ack(t, ack, win) ==
  LET acked_flags == TCP_FLAGS_SENDING(t) \cap {"SYN", "FIN"}
      len == ack_len(t, ack) - (IF acked_flags # {} THEN 1 ELSE 0)
      t1 == tcp_process_queue(
              [t EXCEPT !.timer = stop_timer(@, 0), !.snd_seq = ack, !.snd_sent = 0,
                        !.snd_win = win, !.acked = @ \cup acked_flags], len)
  IN IF ack_len(t, ack) > t.snd_sent \/ ack_len(t, ack) = 0 THEN t
     ELSE IF t1.queue = << >> /\ t1.xfer_closed THEN [t1 EXCEPT !.sent = @ \cup {"FIN"}]
     ELSE t1

\* Mutant: a SYN that is not acknowledged stays so.
PretendAckedNever(t) == t

\* tcp_close: pretend that the SYN has been acknowledged.
PretendAcked(t) == IF "SYN" \in t.acked THEN t ELSE tcp_rx_ack(t, Plus(t.snd_seq, 1), 0)

\* A connection that has received no SYN is deleted.  One whose SYN is not
\* acknowledged pretends that it is, so that SYN and FIN do not share a number.
tcp_close(t0) ==
  LET t == [t0 EXCEPT !.xfer_closed = TRUE]
      acked == PretendAcked(t)
  IN IF "SYN" \notin t.rcvd
     THEN [tcp_closed(t) EXCEPT !.queue = << >>, !.timer = stop_timer(@, 0), !.listed = FALSE]
     ELSE IF acked.queue = << >> THEN [acked EXCEPT !.sent = @ \cup {"FIN"}]
     ELSE acked

tcp_expired(t0, max_rcv_win) ==
  LET t == [t0 EXCEPT !.timer = timer_expired(@)]
  IN IF fail(t0.timer) \/ TCP_CLOSED_GRACEFULLY(t) THEN tcp_close(tcp_closed(t))
     ELSE tcp_xmit(t, FALSE, max_rcv_win)

tcp_xfer_close(t, max_rcv_win) == tcp_xmit(tcp_close(t), FALSE, max_rcv_win)

tcp_xfer_deliver_iob(t, units, max_rcv_win) ==
  tcp_xmit([t EXCEPT !.queue = @ \o units], FALSE, max_rcv_win)

-----------------------------------------------------------------------------
tcp_rx_seq(t, seq_len) ==
  [t EXCEPT !.rcv_ack = Plus(@, seq_len), !.rcv_win = IF @ > seq_len THEN @ - seq_len ELSE 0]

tcp_rx_syn(t, seq) ==
  LET synced == IF "SYN" \in t.rcvd THEN t ELSE [t EXCEPT !.rcv_ack = seq]
  IN IF synced.rcv_ack # seq THEN synced
     ELSE tcp_rx_seq([synced EXCEPT !.sent = @ \cup {"ACK"}, !.rcvd = @ \cup {"SYN"}], 1)

tcp_rst_accepted(t, seq) ==
  IF "SYN" \in t.rcvd THEN Minus(seq, t.rcv_ack) < t.rcv_win ELSE "SYN" \in t.acked

\* Mutant: what was received before is not cut off.
new_data_again(t, seq, data) == IF Minus(t.rcv_ack, seq) < Len(data) THEN data ELSE << >>

\* The part of the data that has not been received before; none if there is a
\* gap before it, since the difference then is a very large number.
new_data(t, seq, data) == SubSeq(data, Minus(t.rcv_ack, seq) + 1, Len(data))

\* The application is called before the data are acknowledged.  It takes them,
\* refuses them, answers or closes.
tcp_rx_data(t, seq, data, reaction, max_rcv_win) ==
  LET called == CASE reaction = "close"  -> tcp_xfer_close(t, max_rcv_win)
                  [] reaction = "answer" -> tcp_xfer_deliver_iob(t, <<written + 1>>, max_rcv_win)
                  [] OTHER -> t
  IN IF new_data(t, seq, data) = << >> \/ reaction = "refuse" THEN t
     ELSE tcp_rx_seq(called, Len(new_data(t, seq, data)))

tcp_rx_fin(t, seq) ==
  IF t.rcv_ack # seq THEN t
  ELSE tcp_close(tcp_rx_seq([t EXCEPT !.rcvd = @ \cup {"FIN"}], 1))

\* tcp_rx up to the call of tcp_rx_data, for a segment that is not refused.
tcp_rx_head(t, p) ==
  LET acked == IF "ACK" \in p.flags THEN tcp_rx_ack(t, p.ack, p.win) ELSE t
  IN IF "SYN" \in p.flags THEN tcp_rx_syn(acked, p.seq) ELSE acked

data_seq(p) == IF "SYN" \in p.flags THEN Plus(p.seq, 1) ELSE p.seq

end_seq(p) ==
  Plus(data_seq(p), Len(p.data) + (IF "FIN" \in p.flags THEN 1 ELSE 0))

\* Mutant: the timer is not set up.
LingerNever(t) == t

\* The last segment was received: free the connection after twice the MSL.
Linger(t) ==
  IF TCP_CLOSED_GRACEFULLY(t)
  THEN [t EXCEPT !.timer = start_timer([@ EXCEPT !.timeout = TwoMsl])]
  ELSE t

\* tcp_rx from the call of tcp_rx_data on.
tcp_rx_tail(t, p, reaction, max_rcv_win) ==
  LET t1 == tcp_rx_data(t, data_seq(p), p.data, reaction, max_rcv_win)
      t2 == IF "FIN" \in p.flags THEN tcp_rx_fin(t1, Plus(data_seq(p), Len(p.data))) ELSE t1
      force == end_seq(p) # p.seq \/ Minus(end_seq(p), t2.rcv_ack) > t2.rcv_win
  IN Linger(tcp_xmit(t2, force, max_rcv_win))
=============================================================================

------------------------------ MODULE MCStreams ------------------------------
(***************************************************************************)
(* The parsers of the loader that read from a TCP stream, side by side: a  *)
(* behaviour is one of the telnet connection or one of the FTP control     *)
(* connection.                                                             *)
(***************************************************************************)
EXTENDS Naturals, Sequences

CONSTANTS MaxItems, MaxPrinted, CodeLength, Size, MaxReplies, MaxReads

VARIABLES
  which,
  phase, ts, wire, items, keys, typed, misread, printed, shown, split,
  buf, bufLength, errorCode, pc, sent, closed, reply, count, reads, late, clean, result

Line(code, sep) == <<code, sep, "CR", "NL">>

\* Done or refused; with text; of several lines, one of them with the code of the
\* last or with none.
Replies ==
  {Line("2", " "), Line("5", " "), <<"2", " ", "x", "CR", "NL">>,
   Line("2", "-") \o Line("2", "-") \o Line("2", " "),
   Line("5", "-") \o <<"x", "CR", "NL">> \o Line("5", " ")}

Telnet == INSTANCE Telnet
Ftp == INSTANCE FtpResponse

telnet == <<phase, ts, wire, items, keys, typed, misread, printed, shown, split>>
ftp == <<buf, bufLength, errorCode, pc, sent, closed, reply, count, reads, late, clean, result>>
vars == <<which, telnet, ftp>>

Init == which \in {"telnet", "ftp"} /\ Telnet!Init /\ Ftp!Init

Next ==
  \/ which = "telnet" /\ Telnet!Next /\ UNCHANGED <<which, ftp>>
  \/ which = "ftp" /\ Ftp!Next /\ UNCHANGED <<which, telnet>>

Spec == Init /\ [][Next]_vars
-----------------------------------------------------------------------------
\* telnet_negotiate aborts only when a key was pressed before it had ended, or after a
\* doubled 255 or a command without an option.
AbortsOnlyOnKeys == Telnet!AbortsOnlyOnKeys

\* telnet_process_input passes the keys on, and nothing else, however the client's
\* bytes are cut into packets (but not between a verb and its option, nor with more
\* behind a command that has none).
KeysDelivered == Telnet!KeysDelivered

\* telnet_send_output puts a CR before each NL and doubles none, over all packets
\* (unless one ends between the two).
CRBeforeNL == Telnet!CRBeforeNL

\* ftpCheckResponse judges a reply by its code and takes all of it, however it is cut
\* (but not inside a line with an earlier reply's text behind it).
VerdictRight == Ftp!VerdictRight

\* ftpCheckResponse hangs only when the server closes in the middle of a reply.
HangsOnlyIfCutShort == Ftp!HangsOnlyIfCutShort
=============================================================================

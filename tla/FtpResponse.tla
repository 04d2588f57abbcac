----------------------------- MODULE FtpResponse -----------------------------
(***************************************************************************)
(* ftpCheckResponse of ftp.c, which reads a reply of the FTP server from   *)
(* the control connection: the static buffer, with what earlier replies    *)
(* left in it, the scan for lines, and the line that is carried over to    *)
(* the next read when it is not complete.  TCP hands the reply over in     *)
(* pieces of any length.                                                   *)
(*                                                                         *)
(* A reply is one line, code and " " and text, or several: the first has   *)
(* "-" after its code, the last the same code and " ".                     *)
(***************************************************************************)
EXTENDS Integers, Sequences, SequencesExt

CONSTANTS
  Replies,      \* the replies the server may give, as sequences of characters
  CodeLength,   \* 3 in the code
  Size,         \* BUFFER_SIZE
  MaxReplies,   \* how many replies are read
  MaxReads      \* in how many pieces a reply comes

VARIABLES
  buf,           \* the static buffer, from 0 to Size
  bufLength,
  errorCode,     \* <<>> until the first line is complete
  pc,            \* READ and SCAN in ftpCheckResponse, IDLE outside, HANGS
  sent,          \* what the server has sent and is not read
  closed,        \* the server has closed the connection: "no", "early", "after"
  reply,         \* the reply that is being read
  count,         \* replies so far
  reads,         \* reads of this reply
  late,          \* a reply was given up that came after all
  clean,         \* no read ended inside a line that has an earlier reply's text behind it
  result         \* what ftpCheckResponse returned last

vars == <<buf, bufLength, errorCode, pc, sent, closed, reply, count, reads, late,
          clean, result>>

Init ==
  /\ buf = [i \in 0..Size |-> "NUL"] /\ bufLength = 0 /\ errorCode = <<>>
  /\ pc = "IDLE" /\ sent = <<>> /\ closed = "no" /\ reply = <<>> /\ count = 0 /\ reads = 0
  /\ late = FALSE /\ clean = TRUE /\ result = "none"

\* The connection is opened or a command is sent, and the server replies.
Call ==
  /\ pc = "IDLE" /\ count < MaxReplies /\ closed = "no"
  /\ \E r \in Replies : reply' = r /\ sent' = sent \o r
  /\ pc' = "READ" /\ bufLength' = 0 /\ errorCode' = <<>>
  /\ count' = count + 1 /\ reads' = 0 /\ clean' = TRUE /\ result' = "none"
  /\ UNCHANGED <<buf, closed, late>>

\* The server closes the connection, in the middle of its reply or after it.
ServerCloses ==
  /\ pc = "READ" /\ closed = "no"
  /\ \E n \in 0..Len(sent) :
       /\ sent' = SubSeq(sent, 1, n)
       /\ closed' = IF n < Len(sent) THEN "early" ELSE "after"
  /\ UNCHANGED <<buf, bufLength, errorCode, pc, reply, count, reads, late, clean, result>>
-----------------------------------------------------------------------------
(* ftpCheckResponse *)

\* read(), and the NUL behind what was read.
Read(n) ==
  /\ pc = "READ" /\ n \in 1..Len(sent) /\ bufLength + n <= Size
  /\ reads < MaxReads /\ (reads = MaxReads - 1 => n = Len(sent)) /\ reads' = reads + 1
  /\ buf' = [i \in 0..Size |->
               CASE i \in bufLength..(bufLength + n - 1) -> sent[i - bufLength + 1]
                 [] i = bufLength + n -> "NUL"
                 [] OTHER -> buf[i]]
  /\ bufLength' = bufLength + n
  /\ sent' = SubSeq(sent, n + 1, Len(sent))
  /\ clean' = (clean /\ (sent[n] = "NL" \/ buf[bufLength + n + 1] = "NUL"))
  /\ pc' = "SCAN"
  /\ UNCHANGED <<errorCode, closed, reply, count, late, result>>

\* What str...() see from p on, at most n characters.
CString(p, n) ==
  LET Ends(e) == e = p + n \/ buf[e] \in {"NUL", "CR", "NL"}
      end == CHOOSE e \in p..(p + n) : Ends(e) /\ \A i \in p..(e - 1) : ~Ends(i)
  IN  [i \in 1..(end - p) |-> buf[p + i - 1]]

\* Mutant: the last line is expected to be the bare code.
IsLastBare(start, code) ==
  CString(start, CodeLength) = code /\ buf[start + CodeLength] \in {"CR", "NL"}

\* Mutant: a line of the first code ends the reply, whatever follows the code.
IsLastAnyCode(start, code) == CString(start, CodeLength) = code

IsLast(start, code) ==
  CString(start, CodeLength) = code /\ buf[start + CodeLength] = " "

\* The scan for lines ends at the first NL or NUL that has a NUL behind it.
ScanEnd ==
  LET Ends(e) == buf[e] \in {"NL", "NUL"} /\ buf[e + 1] = "NUL"
  IN  CHOOSE e \in 0..(Size - 1) : Ends(e) /\ \A i \in 0..(e - 1) : ~Ends(i)

Verdict(code) == IF code # <<>> /\ Head(code) = "5" THEN "error" ELSE "ok"

\* The buffer is divided into lines, which are terminated.  The first line gives the
\* code; a line that is not complete is carried over to the next read.
Scan ==
  /\ pc = "SCAN"
  /\ LET chptr == ScanEnd + 1
         lineEnds == {e \in 0..ScanEnd : buf[e] = "NL"}
         Start(e) == Max({0} \cup {i + 1 : i \in {j \in lineEnds : j < e}})
         code == IF errorCode = <<>> /\ lineEnds # {} THEN CString(0, CodeLength)
                                                      ELSE errorCode
         doesContinue ==
           \A e \in lineEnds :
             IF errorCode = <<>> /\ Start(e) = 0 THEN buf[CodeLength] = "-"
                                                 ELSE ~IsLast(Start(e), code)
         carried == IF doesContinue /\ chptr > Start(chptr) THEN chptr - Start(chptr) - 1
                                                            ELSE 0
         Terminated(i) ==
           IF i \in lineEnds \/ (buf[i] = "CR" /\ i + 1 \in lineEnds) THEN "NUL" ELSE buf[i]
     IN  /\ errorCode' = code
         /\ bufLength' = carried
         /\ buf' = [i \in 0..Size |-> Terminated(IF i < carried THEN Start(chptr) + i ELSE i)]
         /\ IF doesContinue THEN pc' = "READ" /\ UNCHANGED result
                            ELSE pc' = "IDLE" /\ result' = Verdict(code)
  /\ UNCHANGED <<sent, closed, reply, count, reads, late, clean>>

\* Nothing for TIMEOUT_SECS.  The caller goes on if it was SIZE; what was to come
\* is read with the next reply.
Timeout ==
  /\ pc = "READ" /\ closed = "no"
  /\ pc' = "IDLE" /\ result' = "error" /\ late' = TRUE
  /\ UNCHANGED <<buf, bufLength, errorCode, sent, closed, reply, count, reads, clean>>

\* At the end of the stream select() reports that there is something to read, and
\* read() returns 0, again and again.
ReadNothing ==
  /\ pc = "READ" /\ closed # "no" /\ sent = <<>> /\ pc' = "HANGS"
  /\ UNCHANGED <<buf, bufLength, errorCode, sent, closed, reply, count, reads, late, clean,
                 result>>

Next ==
  \/ Call \/ ServerCloses \/ Scan \/ Timeout \/ ReadNothing
  \/ \E n \in 1..Size : Read(n)

Spec == Init /\ [][Next]_vars
-----------------------------------------------------------------------------
(* Properties *)

\* However TCP cuts the replies, each is read to its last line and no further, and
\* judged by its code; what earlier replies left in the buffer does not matter.
\* Unless a read ends inside a line with an earlier reply's text behind it, or a
\* reply was given up and came late.
VerdictRight ==
  pc = "IDLE" /\ count > 0 /\ clean /\ ~late =>
    result = Verdict(reply) /\ sent = <<>>

\* With the same exceptions, ftpCheckResponse never waits for more than the server
\* has to say: it hangs only when the connection is closed in the middle of a reply.
HangsOnlyIfCutShort == pc = "HANGS" /\ clean /\ ~late => closed = "early"
=============================================================================

------------------------------- MODULE Telnet -------------------------------
(***************************************************************************)
(* The telnet connection through which the installation can be followed:   *)
(* telnet_negotiate, telnet_process_input and telnet_send_output of        *)
(* telnet.c, and the poll loop of beTelnet that calls them.  The client    *)
(* answers the negotiation, sends commands and keys; TCP hands its bytes   *)
(* over in pieces of any length.                                           *)
(*                                                                         *)
(* Bytes are told apart as far as the code does: IAC, SB, SE, the suboption*)
(* TERMINAL_TYPE ("TT"), a command that has no option ("NOP"), any other   *)
(* verb, option or value ("v"), keys, and CR and NL in the other           *)
(* direction.                                                              *)
(***************************************************************************)
EXTENDS Naturals, Sequences, SequencesExt

CONSTANTS
  MaxItems,     \* how much the client sends: keys, commands and subnegotiations
  MaxPrinted    \* how much the installer prints

VARIABLES
  phase,    \* of beTelnet: where telnet_negotiate is, RELAY, or how it ended
  ts,       \* the state telnet_process_input keeps between packets
  wire,     \* bytes from the client that have not been read
  items,    \* what the client has sent so far
  keys,     \* the keys among it
  typed,    \* bytes written to the terminal of the installer
  misread,  \* history: a byte was taken for an option that it is not, or for the SE
            \* that it should be, or an option for data
  printed,  \* the installer's output
  shown,    \* bytes sent to the client
  split     \* a packet of output ended between a CR and its NL

input == <<phase, ts, wire, items, keys, typed, misread>>
output == <<printed, shown, split>>
vars == <<input, output>>

Keys == {"a", "b"}
Command == <<"IAC", "v", "v">>
TermType == <<"IAC", "SB", "TT", "v", "v", "IAC", "SE">>
WindowSize == <<"IAC", "SB", "v", "v", "IAC", "SE">>
\* A value 255 is sent twice, here among the values or as the last of them.
Width255 == <<"IAC", "SB", "v", "IAC", "IAC", "v", "IAC", "SE">>
Height255 == <<"IAC", "SB", "v", "v", "IAC", "IAC", "IAC", "SE">>
NoOperation == <<"IAC", "NOP">>

Replies == {Command, TermType, WindowSize, Width255, Height255, NoOperation}

Reading == {"IAC", "COMMAND", "VERB", "SUBOPTION", "ZERO", "DATA", "TT_DATA", "SE", "TT_SE"}

Init ==
  /\ phase = "IAC" /\ ts = "TS_DATA" /\ wire = <<>> /\ items = 0 /\ keys = <<>>
  /\ typed = <<>> /\ misread = FALSE
  /\ printed = <<>> /\ shown = <<>> /\ split = FALSE
-----------------------------------------------------------------------------
(* The client *)

ClientSends ==
  /\ phase \notin {"ABORT", "GONE", "END"} /\ items < MaxItems /\ items' = items + 1
  /\ \/ \E k \in Keys : wire' = Append(wire, k) /\ keys' = Append(keys, k)
     \/ (\E reply \in Replies : wire' = wire \o reply) /\ UNCHANGED keys
  /\ UNCHANGED <<phase, ts, typed, misread, output>>
-----------------------------------------------------------------------------
(* The negotiation, a byte at a time *)

\* Mutant: the byte after a verb is left unread.
NegotiatedKeepsOption(byte) ==
  CASE phase = "IAC"       -> IF byte = "IAC" THEN "COMMAND" ELSE "ABORT"
    [] phase = "COMMAND"   -> IF byte = "SB" THEN "SUBOPTION" ELSE "IAC"
    [] phase = "SUBOPTION" -> IF byte = "TT" THEN "ZERO" ELSE "DATA"
    [] phase = "ZERO"      -> "TT_DATA"
    [] phase = "DATA"      -> IF byte = "IAC" THEN "SE" ELSE "DATA"
    [] phase = "TT_DATA"   -> IF byte = "IAC" THEN "TT_SE" ELSE "TT_DATA"
    [] phase = "SE"        -> "IAC"
    [] phase = "TT_SE"     -> "RELAY"

\* What comes after a byte is read; done is set by the terminal type.
Negotiated(byte) ==
  CASE phase = "IAC"       -> IF byte = "IAC" THEN "COMMAND" ELSE "ABORT"
    [] phase = "COMMAND"   -> IF byte = "SB" THEN "SUBOPTION" ELSE "VERB"
    [] phase = "VERB"      -> "IAC"
    [] phase = "SUBOPTION" -> IF byte = "TT" THEN "ZERO" ELSE "DATA"
    [] phase = "ZERO"      -> "TT_DATA"
    [] phase = "DATA"      -> IF byte = "IAC" THEN "SE" ELSE "DATA"
    [] phase = "TT_DATA"   -> IF byte = "IAC" THEN "TT_SE" ELSE "TT_DATA"
    [] phase = "SE"        -> "IAC"
    [] phase = "TT_SE"     -> "RELAY"

\* A command without an option loses the byte behind it; "should be a SE".
TakenForAnother(byte) ==
  \/ phase = "COMMAND" /\ byte = "NOP"
  \/ phase \in {"SE", "TT_SE"} /\ byte # "SE"

telnet_negotiate ==
  /\ phase \in Reading /\ wire # <<>>
  /\ phase' = Negotiated(Head(wire)) /\ wire' = Tail(wire)
  /\ misread' = (misread \/ TakenForAnother(Head(wire)))
  /\ UNCHANGED <<ts, items, keys, typed, output>>

\* The client disconnects: read() leaves ch what it was, which is no IAC, and the
\* loader aborts.
NegotiationCutShort ==
  /\ phase = "IAC" /\ items > 0 /\ wire = <<>> /\ phase' = "GONE"
  /\ UNCHANGED <<ts, wire, items, keys, typed, misread, output>>
-----------------------------------------------------------------------------
(* The poll loop *)

\* Mutant: an IAC inside a subnegotiation that no SE follows ends it.
AfterSubIACEnds(byte) == "TS_DATA"

AfterSubIAC(byte) == IF byte = "SE" THEN "TS_DATA" ELSE "TS_SB"

\* The loop over a packet, from byte s on and in state t: the state at its end and
\* the bytes that are kept.  A verb is skipped with the byte behind it, if that is
\* in the packet: wrong for the last verb of a packet if it has an option, and for
\* the others if they have none.
Scan(packet) ==
  LET n == Len(packet)
      scan[s \in 1..(n + 2), t \in {"TS_DATA", "TS_IAC", "TS_SB", "TS_SB_IAC"}] ==
        IF s > n THEN [ts |-> t, kept |-> <<>>, misread |-> FALSE]
        ELSE CASE t = "TS_DATA" ->
                    IF packet[s] = "IAC" THEN scan[s + 1, "TS_IAC"]
                    ELSE LET rest == scan[s + 1, t]
                         IN  [rest EXCEPT !.kept = <<packet[s]>> \o @]
               [] t = "TS_IAC" ->
                    IF packet[s] = "SB" THEN scan[s + 1, "TS_SB"]
                    ELSE LET rest == scan[s + 2, "TS_DATA"]
                         IN  [rest EXCEPT !.misread = @ \/ (s = n) # (packet[s] = "NOP")]
               [] t = "TS_SB" ->
                    LET end == CHOOSE e \in s..n :
                                 /\ e = n \/ packet[e] = "IAC"
                                 /\ \A i \in s..(e - 1) : packet[i] # "IAC"
                    IN  scan[end + 1, IF packet[end] = "IAC" THEN "TS_SB_IAC" ELSE t]
               [] t = "TS_SB_IAC" -> scan[s + 1, AfterSubIAC(packet[s])]
  IN  scan[1, ts]

telnet_process_input ==
  /\ phase = "RELAY" /\ wire # <<>>
  /\ \E n \in 1..Len(wire) :
       LET packet == SubSeq(wire, 1, n) IN
       /\ ts' = Scan(packet).ts /\ typed' = typed \o Scan(packet).kept
       /\ misread' = (misread \/ Scan(packet).misread)
       /\ wire' = SubSeq(wire, n + 1, Len(wire))
  /\ UNCHANGED <<phase, items, keys, output>>

\* Mutant: a CR before every NL.
CRsAlways(packet, s) == IF packet[s] = "NL" THEN <<"CR", "NL">> ELSE <<packet[s]>>

\* "just may need to add CR before NL (but do not double existing CRs)"
CRs(packet, s) ==
  IF packet[s] = "NL" /\ (s = 1 \/ packet[s - 1] # "CR") THEN <<"CR", "NL">>
                                                         ELSE <<packet[s]>>

telnet_send_output ==
  /\ phase = "RELAY"
  /\ \E packet \in BoundedSeq({"a", "CR", "NL"}, MaxPrinted - Len(printed)) \ {<<>>} :
       /\ printed' = printed \o packet
       /\ shown' = shown \o FlattenSeq([s \in 1..Len(packet) |-> CRs(packet, s)])
       /\ split' = (split \/ /\ printed # <<>> /\ Last(printed) = "CR"
                             /\ Head(packet) = "NL")
  /\ UNCHANGED input

\* The client has closed the connection, and all it sent has been read; or the
\* installer has.
ConnectionEnds ==
  /\ phase = "RELAY" /\ wire = <<>> /\ phase' = "END"
  /\ UNCHANGED <<ts, wire, items, keys, typed, misread, output>>

Next ==
  \/ ClientSends \/ telnet_negotiate \/ NegotiationCutShort
  \/ telnet_process_input \/ telnet_send_output \/ ConnectionEnds

Spec == Init /\ [][Next]_vars
-----------------------------------------------------------------------------
(* Properties *)

\* The negotiation takes the client's answers apart at the right places: while the
\* client is there, it aborts only when a key was pressed before the terminal type
\* was known, or after a doubled 255 in a subnegotiation or a command without an
\* option, which it does not know.
AbortsOnlyOnKeys == phase = "ABORT" => keys # <<>> \/ misread

\* However TCP cuts the client's bytes, the terminal of the installer gets its keys,
\* all and in order, and nothing of its commands and subnegotiations: unless a packet
\* ends between a verb and its option, or goes on after a command that has none, or
\* the negotiation has misread one.
KeysDelivered ==
  phase \in {"RELAY", "END"} /\ ~misread =>
    /\ IsPrefix(typed, keys)
    /\ wire = <<>> => typed = keys

\* The output with NL for every CR NL.
UnixText(text) ==
  LET Kept(i) == ~(text[i] = "CR" /\ i < Len(text) /\ text[i + 1] = "NL")
      kept == SelectSeq([i \in 1..Len(text) |-> i], Kept)
  IN  [k \in 1..Len(kept) |-> text[kept[k]]]

\* Over all packets, the client gets the installer's output with a CR before every
\* NL, and no CR that was there is doubled: unless a packet ends between the two.
CRBeforeNL ==
  /\ \A i \in 1..Len(shown) : shown[i] = "NL" => i > 1 /\ shown[i - 1] = "CR"
  /\ ~split => UnixText(shown) = UnixText(printed)
=============================================================================

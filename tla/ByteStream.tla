----------------------------- MODULE ByteStream -----------------------------
(***************************************************************************)
(* What one direction of a connection promises: the reader is given what   *)
(* was written, in order, without loss and without repetition, and is told *)
(* of the end only after everything that was written before it.            *)
(***************************************************************************)
EXTENDS Sequences, Naturals

VARIABLES
  written,     \* everything that was written, in order
  ended,       \* the writer has closed its side
  delivered,   \* everything the reader was given
  eof          \* the reader was told that this is all

vars == <<written, ended, delivered, eof>>

Starts(s, t) == Len(s) <= Len(t) /\ SubSeq(t, 1, Len(s)) = s

Init == written = << >> /\ ~ended /\ delivered = << >> /\ ~eof

Next ==
  /\ Starts(written, written') /\ (ended => ended')
  /\ Starts(delivered, delivered') /\ Starts(delivered', written')
  /\ eof => eof' /\ delivered' = delivered
  /\ eof' => ended' /\ delivered' = written'

Spec == Init /\ [][Next]_vars
=============================================================================

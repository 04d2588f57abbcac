----------------------------- MODULE RetryTimer -----------------------------
(***************************************************************************)
(* The retry timer of gPXE, net/retry.c: a binary exponential backoff      *)
(* timer as a record.  Clock values are left out: a running timer may      *)
(* expire at any moment, and stop_timer is told how long the timer ran.    *)
(* The zero that stands for a default minimum or maximum is left out too.  *)
(***************************************************************************)
EXTENDS Integers

CONSTANTS
  MinTimeout,   \* MIN_TIMEOUT, in ticks
  MaxTimeout    \* DEFAULT_MAX_TIMEOUT

ASSUME TimeoutAssumption ==
  MinTimeout \in Nat \ {0} /\ MaxTimeout \in Nat /\ MinTimeout <= MaxTimeout

Timers == [running : BOOLEAN, timeout : Nat, count : Nat]

NewTimer == [running |-> FALSE, timeout |-> 0, count |-> 0]

start_timer(timer) ==
  [timer EXCEPT !.running = TRUE, !.timeout = IF @ < MinTimeout THEN MinTimeout ELSE @]

start_timer_nodelay(timer) == [start_timer(timer) EXCEPT !.timeout = 0]

\* A run that follows an expiry (count > 0) is no measure of the round trip.
stop_timer(timer, runtime) ==
  IF ~timer.running THEN timer
  ELSE IF timer.count > 0 THEN [timer EXCEPT !.running = FALSE, !.count = @ - 1]
  ELSE [timer EXCEPT !.running = FALSE, !.timeout = (@ - @ \div 8) + runtime \div 2]

\* The timer as its callback finds it, and the callback's argument fail.
timer_expired(timer) ==
  [running |-> FALSE, count |-> timer.count + 1,
   timeout |-> IF 2 * timer.timeout > MaxTimeout THEN MaxTimeout ELSE 2 * timer.timeout]

fail(timer) == 2 * timer.timeout > MaxTimeout
=============================================================================

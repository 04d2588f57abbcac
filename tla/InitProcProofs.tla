--------------------------- MODULE InitProcProofs ---------------------------
(***************************************************************************)
(* Proofs about init and the way down, for every set of filesystems, of    *)
(* helpers and of options and any number of signals from the user.         *)
(***************************************************************************)
EXTENDS InitProc, TLAPS

\* Some call of shutDown() has halted the machine; the calls that interrupt it
\* still run.
Halted == \E i \in 1 .. Len(stack) : stack[i].at = "halted"

\* What the innermost call has achieved; the calls it interrupted never go on.
UnmountedSoFar ==
  stack # << >> =>
    /\ Top.at = "unmount" => ~blind /\ mounted \subseteq late \cup Top.todo
    /\ Top.at \in {"term", "kill", "down", "halted"} => mounted \subseteq late \cup Stranded

\* rebootHandler is installed by a call that has unmounted everything.
RebootHandler == \A s \in Sigs : handler[s] = "rebootHandler" => s = "INT" /\ Halted

\* The machine goes down, or is halted, with everything unmounted.
Down == Halted \/ machine \in {"rebooted", "off"} => mounted \subseteq late \cup Stranded

\* When /proc is gone, or the loader's process is undoing the mounts, somebody has
\* read all the mounts there are.
NoProc ==
  /\ proc \notin mounted \/ loader = "undoing" => mounted \subseteq late \cup Unfinished
  /\ blind => proc \notin mounted /\ stack # << >>

\* The calls of shutDown() under way: the main program's reboots only after the
\* loader's success, a handler's does what its signal stands for.
Frames ==
  \A i \in 1 .. Len(stack) :
    IF stack[i].sig = "none"
    THEN stack[i].how = "reboot" => loader = "ok" \/ install = "failed"
    ELSE stack[i].how = How(stack[i].sig)

\* The loader is started once, ends once, and asks once.
LoaderOnce ==
  /\ pc \in {"boot", "fork"} => loader = "none"
  /\ pc \notin {"boot", "fork"} => install # "none"
  /\ loader \in {"none", "run"} => request = "none"
  /\ \A r \in {"ok", "bad"} : <<"loader", r>> \in zombies => loader = r
  /\ pc = "status" => install = "failed" \/ status = loader
  /\ loader \notin {"undoing", "bad"} => childTodo = {}

Asked == IF opt.flag = "poweroff" THEN "USR2" ELSE "USR1"

\* As long as the user sends no signal, only the loader's can be there, and once
\* init has heard it, it is delivered before init does anything else.
LoaderAlone ==
  /\ pending \subseteq {Asked}
  /\ \A i \in 1 .. Len(stack) : stack[i].sig \in {"none", Asked}
  /\ request = "none" => pending = {} /\ \A i \in 1 .. Len(stack) : stack[i].sig = "none"
  /\ request \in {"halt", "poweroff"} =>
       /\ request = opt.flag /\ handler[Asked] = "shutDown"
       /\ \/ Asked \in pending \ Blocked /\ machine = "up"
          \/ stack # << >> /\ Top.sig = Asked /\ pending = {}
  /\ RequestHonoured /\ RebootAfterSuccess

IInv == TypeOK /\ UnmountedSoFar /\ RebootHandler /\ Down /\ NoProc
        /\ Frames /\ LoaderOnce /\ (keys = 0 => LoaderAlone)

-----------------------------------------------------------------------------
(* The stack: a call is added, or the innermost one goes on. *)

\* u is st with c on top, of length n.
OnTop(u, st, c, n) ==
  /\ u \in Seq(Calls) /\ Len(u) = n /\ u[n] = c /\ u # << >>
  /\ \A i \in 1 .. n - 1 : u[i] = st[i]

LEMMA Pushed ==
  ASSUME NEW st \in Seq(Calls), NEW c \in Calls
  PROVE  OnTop(Append(st, c), st, c, Len(st) + 1) /\ Len(st) \in Nat
  BY DEF OnTop

LEMMA Replaced ==
  ASSUME NEW st \in Seq(Calls), NEW c \in Calls, st # << >>
  PROVE  OnTop([st EXCEPT ![Len(st)] = c], st, c, Len(st)) /\ Len(st) \in Nat \ {0}
  BY DEF OnTop

LEMMA TopIsCall ==
  ASSUME TypeOK, stack # << >>
  PROVE  Len(stack) \in Nat \ {0} /\ Top \in Calls /\ Top = stack[Len(stack)]
  BY DEF TypeOK, Top

LEMMA NewCall ==
  ASSUME NEW noKill \in BOOLEAN, NEW how \in {"reboot", "off", "halt"},
         NEW s \in Caught \cup {"none"}
  PROVE  /\ shutDown(noKill, how, s) \in Calls
         /\ shutDown(noKill, how, s).at = "mounts"
         /\ shutDown(noKill, how, s).sig = s /\ shutDown(noKill, how, s).how = how
  BY Zenon DEF shutDown, Calls

\* The steps of shutDown() keep the calls, and change where the innermost one is.
SameCalls ==
  /\ stack' \in Seq(Calls) /\ Len(stack') = Len(stack) /\ Len(stack) \in Nat \ {0}
  /\ \A i \in 1 .. Len(stack) :
       stack'[i].sig = stack[i].sig /\ stack'[i].how = stack[i].how
  /\ \A i \in 1 .. Len(stack) - 1 : stack'[i] = stack[i]
  /\ Top' = stack'[Len(stack)] /\ Top' \in Calls /\ Top = stack[Len(stack)] /\ Top \in Calls

LEMMA TopGoesOn ==
  ASSUME TypeOK, stack # << >>, NEW c \in Calls, SetTop(c), c.sig = Top.sig, c.how = Top.how
  PROVE  SameCalls /\ Top' = c /\ stack' # << >>
<1>1. OnTop(stack', stack, c, Len(stack)) /\ Len(stack) \in Nat \ {0}
  BY Replaced, Zenon DEF SetTop, TypeOK
<1>2. Top \in Calls /\ Top = stack[Len(stack)] /\ Top' = c
  BY TopIsCall, <1>1, Zenon DEF OnTop, Top
<1>3. \A i \in 1 .. Len(stack) : stack'[i].sig = stack[i].sig /\ stack'[i].how = stack[i].how
  BY <1>1, <1>2 DEF OnTop
<1>4. QED
  BY <1>1, <1>2, <1>3, Zenon DEF OnTop, SameCalls

LEMMA ReadMountsStep ==
  ASSUME TypeOK, ReadMounts
  PROVE  /\ SameCalls /\ stack # << >> /\ stack' # << >> /\ Top.at = "mounts"
         /\ \/ proc \in mounted /\ Top'.at = "unmount" /\ Top'.todo = mounted
            \/ proc \notin mounted /\ Top'.at = "term" /\ Top'.todo = Top.todo
<1>1. stack # << >> /\ Top \in Calls /\ mounted \subseteq Fs /\ Top.at = "mounts"
  BY TopIsCall, Zenon DEF ReadMounts, TypeOK
<1>2. CASE proc \in mounted
  <2> DEFINE c == [Top EXCEPT !.at = "unmount", !.todo = mounted]
  <2>1. SetTop(c)
    BY <1>2, Zenon DEF ReadMounts
  <2>2. c \in Calls /\ c.sig = Top.sig /\ c.how = Top.how /\ c.at = "unmount" /\ c.todo = mounted
    BY <1>1, Zenon DEF Calls
  <2> HIDE DEF c
  <2>3. QED
    BY <1>1, <1>2, <2>1, <2>2, TopGoesOn, Zenon
<1>3. CASE proc \notin mounted
  <2> DEFINE c == [Top EXCEPT !.at = "term"]
  <2>1. SetTop(c)
    BY <1>3, Zenon DEF ReadMounts
  <2>2. c \in Calls /\ c.sig = Top.sig /\ c.how = Top.how /\ c.at = "term" /\ c.todo = Top.todo
    BY <1>1, Zenon DEF Calls
  <2> HIDE DEF c
  <2>3. QED
    BY <1>1, <1>3, <2>1, <2>2, TopGoesOn, Zenon
<1>4. QED
  BY <1>2, <1>3, Zenon

LEMMA UnmountStep ==
  ASSUME TypeOK, Unmount
  PROVE  /\ SameCalls /\ stack # << >> /\ stack' # << >> /\ Top.at = "unmount"
         /\ \/ \E f \in Top.todo :
                 /\ Top' = [Top EXCEPT !.todo = @ \ {f}, !.at = NextAfterUnmount(Top.todo \ {f})]
                 /\ \/ mounted' = mounted \ {f} /\ UNCHANGED late
                    \/ late' = late \cup {f} /\ UNCHANGED mounted
            \/ /\ Top.todo = {} /\ Top' = [Top EXCEPT !.at = "term"]
               /\ UNCHANGED <<mounted, late>>
<1>1. stack # << >> /\ Top \in Calls /\ Top.at = "unmount"
  BY TopIsCall, Zenon DEF Unmount
<1>2. CASE /\ Top.todo = {} /\ SetTop([Top EXCEPT !.at = "term"])
           /\ UNCHANGED <<mounted, late>>
  <2> DEFINE c == [Top EXCEPT !.at = "term"]
  <2>1. c \in Calls /\ c.sig = Top.sig /\ c.how = Top.how
    BY <1>1, Zenon DEF Calls
  <2>2. QED
    BY <1>1, <1>2, <2>1, TopGoesOn, Zenon
<1>3. ASSUME NEW f \in Top.todo,
             SetTop([Top EXCEPT !.todo = @ \ {f}, !.at = NextAfterUnmount(Top.todo \ {f})]),
             \/ mounted' = mounted \ {f} /\ UNCHANGED late
             \/ late' = late \cup {f} /\ UNCHANGED mounted
      PROVE  /\ SameCalls /\ stack' # << >>
             /\ Top' = [Top EXCEPT !.todo = @ \ {f}, !.at = NextAfterUnmount(Top.todo \ {f})]
  <2> DEFINE c == [Top EXCEPT !.todo = @ \ {f}, !.at = NextAfterUnmount(Top.todo \ {f})]
  <2>1. c \in Calls /\ c.sig = Top.sig /\ c.how = Top.how
    BY <1>1, Zenon DEF Calls, NextAfterUnmount
  <2>2. QED
    BY <1>1, <1>3, <2>1, TopGoesOn, Zenon
<1>4. QED
  BY <1>1, <1>2, <1>3, Zenon DEF Unmount

LEMMA KillStep ==
  ASSUME TypeOK, Kill
  PROVE  /\ SameCalls /\ stack # << >> /\ stack' # << >>
         /\ Top.at \in {"term", "kill"} /\ Top'.at \in {"kill", "down"} /\ Top'.todo = Top.todo
<1> DEFINE c == [Top EXCEPT !.at = CASE Top.nokill -> "down"
                                     [] Top.at = "term" -> "kill"
                                     [] OTHER -> "down"]
<1>1. stack # << >> /\ Top \in Calls /\ Top.at \in {"term", "kill"} /\ SetTop(c)
  BY TopIsCall, Zenon DEF Kill
<1>2. c \in Calls /\ c.sig = Top.sig /\ c.how = Top.how /\ c.at \in {"kill", "down"}
      /\ c.todo = Top.todo
  BY <1>1, Zenon DEF Calls
<1>3. QED
  BY <1>1, <1>2, TopGoesOn, Zenon

\* reboot(2), or the endless sleep.
LEMMA GoDownStep ==
  ASSUME TypeOK, GoDown
  PROVE  /\ stack # << >> /\ Top.at = "down" /\ machine = "up"
         /\ \/ /\ Top.how = "reboot" /\ machine' = "rebooted" /\ UNCHANGED <<stack, handler>>
            \/ /\ Top.how = "off" /\ machine' = "off" /\ UNCHANGED <<stack, handler>>
            \/ /\ Top.how = "halt" /\ SameCalls /\ stack' # << >> /\ Top'.at = "halted"
               /\ Top'.todo = Top.todo
               /\ handler' = [handler EXCEPT !["INT"] = "rebootHandler"] /\ UNCHANGED machine
<1> DEFINE c == [Top EXCEPT !.at = "halted"]
<1>1. /\ stack # << >> /\ Top \in Calls /\ Top.at = "down" /\ machine = "up"
      /\ Top.how \in {"reboot", "off", "halt"}
  BY TopIsCall, Zenon DEF GoDown, Calls, InitRuns
<1>2. c \in Calls /\ c.sig = Top.sig /\ c.how = Top.how /\ c.at = "halted" /\ c.todo = Top.todo
  BY <1>1, Zenon DEF Calls
<1>3. CASE Top.how = "halt"
  <2>1. /\ SetTop(c) /\ handler' = [handler EXCEPT !["INT"] = "rebootHandler"]
        /\ UNCHANGED machine
    BY <1>3, Zenon DEF GoDown
  <2>2. QED
    BY <1>1, <1>2, <1>3, <2>1, TopGoesOn, Zenon
<1>4. CASE Top.how # "halt"
  BY <1>1, <1>4, Zenon DEF GoDown
<1>5. QED
  BY <1>3, <1>4, Zenon

\* The signal is ignored, starts a call of shutDown(), or reboots.
LEMMA DeliverStep ==
  ASSUME TypeOK, NEW s \in Sigs, Deliver(s)
  PROVE  /\ machine = "up" /\ s \in pending \ Blocked /\ pending' = pending \ {s}
         /\ \/ handler[s] = "ignored" /\ UNCHANGED <<stack, machine>>
            \/ /\ handler[s] = "rebootHandler" /\ machine' = "rebooted" /\ UNCHANGED stack
            \/ /\ handler[s] = "shutDown" /\ UNCHANGED machine /\ s \in Caught
               /\ \E c \in Calls : /\ OnTop(stack', stack, c, Len(stack) + 1)
                                   /\ c.at = "mounts" /\ c.sig = s /\ c.how = How(s)
<1>1. /\ machine = "up" /\ s \in pending \ Blocked /\ pending' = pending \ {s}
      /\ handler[s] \in {"ignored", "shutDown", "rebootHandler"}
      /\ handler[s] # "ignored" => s \in Caught
  BY Zenon DEF Deliver, TypeOK, Sigs
<1>2. CASE handler[s] = "shutDown"
  <2> DEFINE c == shutDown(getNoKill, How(s), s)
  <2>1. getNoKill \in BOOLEAN /\ s \in Caught
    BY <1>1, <1>2, Zenon DEF getNoKill
  <2>2. How(s) \in {"reboot", "off", "halt"}
    BY <2>1, Zenon DEF How, Caught
  <2>3. c \in Calls /\ c.at = "mounts" /\ c.sig = s /\ c.how = How(s)
    BY <2>1, <2>2, NewCall
  <2>4. stack' = Append(stack, c) /\ UNCHANGED machine
    BY <1>2, Zenon DEF Deliver
  <2> HIDE DEF c
  <2>5. OnTop(stack', stack, c, Len(stack) + 1)
    BY <2>3, <2>4, Pushed, Zenon DEF TypeOK
  <2>6. QED
    BY <1>1, <1>2, <2>1, <2>3, <2>4, <2>5, Zenon
<1>3. CASE handler[s] # "shutDown"
  BY <1>1, <1>3, Zenon DEF Deliver
<1>4. QED
  BY <1>2, <1>3, Zenon

\* The end of main calls shutDown().
LEMMA EndedStep ==
  ASSUME TypeOK, InstallEnded
  PROVE  /\ stack = << >> /\ pc = "status" /\ pc' = "over"
         /\ \E c \in Calls : /\ OnTop(stack', stack, c, 1) /\ Len(stack) = 0
                             /\ c.at = "mounts" /\ c.sig = "none"
                             /\ (c.how = "reboot" /\ Reboots) \/ c.how = "halt"
<1>1. opt.nokill \in BOOLEAN
  BY InitAssumption, Zenon DEF TypeOK
<1>2. \A how \in {"reboot", "halt"} :
        LET c == shutDown(opt.nokill, how, "none")
        IN c \in Calls /\ c.at = "mounts" /\ c.sig = "none" /\ c.how = how
  BY <1>1, NewCall
<1>3. \A c \in Calls : OnTop(<<c>>, << >>, c, 1)
  BY DEF OnTop
<1>4. QED
  BY <1>2, <1>3, Zenon DEF InstallEnded, MainRuns

-----------------------------------------------------------------------------
(* Types *)

LEMMA SignalsApart ==
  ASSUME TypeOK, SameCalls
  PROVE  \A i, j \in 1 .. Len(stack') : i # j => stack'[i].sig # stack'[j].sig
  BY DEF TypeOK, SameCalls

LEMMA NextTypeOK == TypeOK /\ [Next]_vars => TypeOK'
<1> SUFFICES ASSUME TypeOK, [Next]_vars PROVE TypeOK'
  BY Zenon
<1> USE DEF LoaderStates, Sigs, Caught
<1>1. CASE StartHelpers
  BY <1>1, InitAssumption DEF TypeOK, StartHelpers
<1>2. CASE ForkLoader
  BY <1>2 DEF TypeOK, ForkLoader
<1>3. CASE InstallHandler
  BY <1>3 DEF TypeOK, InstallHandler
<1>4. CASE CatchCtrlAltDel
  BY <1>4 DEF TypeOK, CatchCtrlAltDel
<1>5. CASE WaitChild
  BY <1>5 DEF TypeOK, WaitChild
<1>6. CASE InstallEnded
  <2>1. stack' \in Seq(Calls) /\ \A i, j \in 1 .. Len(stack') : i = j
    BY <1>6, EndedStep DEF OnTop
  <2>2. QED
    BY <1>6, <2>1 DEF TypeOK, InstallEnded
<1>7. CASE ReadMounts
  <2>1. SameCalls
    BY <1>7, ReadMountsStep, Zenon
  <2>2. stack' \in Seq(Calls) /\ \A i, j \in 1 .. Len(stack') : i # j => stack'[i].sig # stack'[j].sig
    BY <2>1, SignalsApart, Zenon DEF SameCalls
  <2>3. /\ UNCHANGED <<opt, pc, handler, cad, pending, install, status, loader, kids, zombies,
                       mounted, machine, keys, request, childTodo>>
        /\ late' \in {late, {}} /\ blind' \in {blind, TRUE}
    BY <1>7, Zenon DEF ReadMounts
  <2>4. late' \subseteq Fs /\ blind' \in BOOLEAN
    BY <2>3, Zenon DEF TypeOK
  <2>5. QED
    <3>1. UNCHANGED <<opt, pc, handler, cad, pending, install, status>>
      BY <2>3, Zenon
    <3>2. UNCHANGED <<loader, kids, zombies, mounted, machine, keys, request, childTodo>>
      BY <2>3, Zenon
    <3>3. QED
      BY <2>2, <2>4, <3>1, <3>2 DEF TypeOK
<1>8. CASE Unmount
  <2>1. Top.todo \subseteq Fs
    BY <1>8, UnmountStep, Zenon DEF SameCalls, Calls
  <2>2. mounted' \subseteq Fs /\ late' \subseteq Fs
    BY <1>8, <2>1, UnmountStep, Zenon DEF TypeOK
  <2>3. /\ stack' \in Seq(Calls)
        /\ \A i, j \in 1 .. Len(stack') : i # j => stack'[i].sig # stack'[j].sig
    BY <1>8, UnmountStep, SignalsApart, Zenon DEF SameCalls
  <2>4. UNCHANGED <<opt, pc, handler, cad, pending, install, status, loader, kids, zombies,
                    machine, keys, request, childTodo, blind>>
    BY <1>8, Zenon DEF Unmount
  <2>5. QED
    BY <2>2, <2>3, <2>4 DEF TypeOK
<1>9. CASE Kill
  <2>1. /\ kids' \subseteq Helpers /\ loader' \in LoaderStates
        /\ zombies' \subseteq (Helpers \cup {"loader"}) \X {"ok", "bad"}
    <3>1. CASE Top.nokill
      BY <1>9, <3>1, Zenon DEF TypeOK, Kill
    <3>2. CASE ~Top.nokill
      <4>1. PICK ks \in SUBSET kids, l \in BOOLEAN :
              /\ kids' = kids \ ks
              /\ loader' = IF l /\ LoaderAlive THEN "bad" ELSE loader
              /\ zombies' = zombies \cup {<<k, "bad">> : k \in ks}
                            \cup IF l /\ LoaderAlive THEN {<<"loader", "bad">>} ELSE {}
        BY <1>9, <3>2, Zenon DEF Kill
      <4>2. {<<k, "bad">> : k \in ks} \subseteq (Helpers \cup {"loader"}) \X {"ok", "bad"}
        BY DEF TypeOK
      <4>3. QED
        BY <4>1, <4>2 DEF TypeOK
    <3>3. QED
      BY <3>1, <3>2, Zenon
  <2>2. /\ stack' \in Seq(Calls)
        /\ \A i, j \in 1 .. Len(stack') : i # j => stack'[i].sig # stack'[j].sig
    BY <1>9, KillStep, SignalsApart, Zenon DEF SameCalls
  <2>3. UNCHANGED <<opt, pc, handler, cad, pending, install, status, mounted, machine, keys,
                    request, late, childTodo, blind>>
    BY <1>9, Zenon DEF Kill
  <2>4. QED
    BY <2>1, <2>2, <2>3 DEF TypeOK
<1>10. CASE GoDown
  <2>1. /\ stack' \in Seq(Calls)
        /\ \A i, j \in 1 .. Len(stack') : i # j => stack'[i].sig # stack'[j].sig
    BY <1>10, GoDownStep, SignalsApart DEF TypeOK, SameCalls
  <2>2. /\ machine' \in {"up", "rebooted", "off", "reset"} /\ handler'["HUP"] = "ignored"
        /\ handler' \in [Sigs -> {"ignored", "shutDown", "rebootHandler"}]
    BY <1>10, GoDownStep, Zenon DEF TypeOK
  <2>3. QED
    BY <1>10, <2>1, <2>2 DEF TypeOK, GoDown
<1>11. ASSUME NEW s \in Sigs, Deliver(s) PROVE TypeOK'
  <2>1. /\ stack' \in Seq(Calls)
        /\ \A i, j \in 1 .. Len(stack') : i # j => stack'[i].sig # stack'[j].sig
    <3>1. CASE UNCHANGED stack
      BY <3>1 DEF TypeOK
    <3>2. ASSUME NEW c \in Calls, OnTop(stack', stack, c, Len(stack) + 1), c.sig = s
          PROVE  /\ stack' \in Seq(Calls)
                 /\ \A i, j \in 1 .. Len(stack') : i # j => stack'[i].sig # stack'[j].sig
      <4>1. \A i \in 1 .. Len(stack) : stack[i].sig # s
        BY <1>11, DeliverStep, Zenon DEF Blocked
      <4>2. QED
        BY <3>2, <4>1 DEF OnTop, TypeOK
    <3>3. QED
      BY <1>11, <3>1, <3>2, DeliverStep, Zenon
  <2>2. machine' \in {"up", "rebooted", "off", "reset"} /\ pending' \subseteq Sigs
    <3>1. machine' \in {machine, "rebooted"} /\ pending' = pending \ {s}
      BY <1>11, DeliverStep, Zenon
    <3>2. QED
      BY <3>1, Zenon DEF TypeOK
  <2>3. QED
    BY <1>11, <2>1, <2>2 DEF TypeOK, Deliver
<1>12. ASSUME NEW f \in Fs, Mount(f) PROVE TypeOK'
  BY <1>12 DEF TypeOK, Mount
<1>13. CASE AskDown
  <2>1. opt.flag \in {"none", "halt", "poweroff"}
    BY InitAssumption, Zenon DEF TypeOK
  <2>2. /\ pending' \subseteq Sigs /\ request' \in {"none", "lost", "halt", "poweroff"}
        /\ loader' = "asked"
    BY <1>13, <2>1, Zenon DEF TypeOK, AskDown
  <2>3. UNCHANGED <<opt, pc, handler, cad, install, status, stack, kids, zombies, mounted,
                    machine, keys, late, childTodo, blind>>
    BY <1>13, Zenon DEF AskDown
  <2>4. QED
    BY <2>2, <2>3 DEF TypeOK
<1>14. CASE LoaderExits
  BY <1>14 DEF TypeOK, LoaderExits
<1>15. ASSUME NEW h \in Helpers, HelperExits(h) PROVE TypeOK'
  BY <1>15 DEF TypeOK, HelperExits
<1>16. CASE UserSignals
  <2>1. keys' \in 0 .. MaxKeys
    BY <1>16, InitAssumption DEF TypeOK, UserSignals
  <2>2. pending' \subseteq Sigs /\ machine' \in {machine, "reset"}
    BY <1>16, Zenon DEF TypeOK, UserSignals
  <2>3. UNCHANGED <<opt, pc, handler, cad, install, status, stack, loader, kids, zombies,
                    mounted, request, late, childTodo, blind>>
    BY <1>16, Zenon DEF UserSignals
  <2>4. QED
    BY <2>1, <2>2, <2>3 DEF TypeOK
<1>17. CASE UNCHANGED vars
  BY <1>17 DEF TypeOK, vars
<1>18. CASE ChildReads
  BY <1>18 DEF TypeOK, ChildReads
<1>19. ASSUME NEW f \in Fs, ChildUnmounts(f) PROVE TypeOK'
  BY <1>19 DEF TypeOK, ChildUnmounts
<1>20. QED
  BY <1>1, <1>2, <1>3, <1>4, <1>5, <1>6, <1>7, <1>8, <1>9, <1>10, <1>11, <1>12, <1>13,
     <1>14, <1>15, <1>16, <1>17, <1>18, <1>19, Zenon DEF Next, InitStep

-----------------------------------------------------------------------------
(* Unmounted on the way down *)

Unmounted == UnmountedSoFar /\ RebootHandler /\ Down /\ NoProc

\* A step that leaves nothing mounted which nobody accounts for.
Accounts ==
  /\ mounted' \subseteq mounted \cup late'
  /\ \A f \in mounted' : f \in late => f \in late'
  /\ \A f \in mounted' : f \in Unfinished => f \in late' \cup Unfinished'

LEMMA Accounted ==
  ASSUME Accounts, UNCHANGED blind
  PROVE  /\ mounted \subseteq late \cup Unfinished => mounted' \subseteq late' \cup Unfinished'
         /\ mounted \subseteq late \cup Stranded => mounted' \subseteq late' \cup Stranded'
         /\ (mounted \subseteq late => mounted' \subseteq late')
  BY Zenon DEF Accounts, Stranded

\* What becomes of the lists of the calls when the innermost one goes on.
LEMMA UnfinishedKept ==
  ASSUME SameCalls, UNCHANGED childTodo
  PROVE  /\ \A f \in Unfinished : f \in Unfinished' \/ f \in Top.todo \ Top'.todo
         /\ Top'.todo \subseteq Unfinished' /\ Top.todo \subseteq Unfinished
<1>1. Len(stack') = Len(stack) /\ Len(stack) \in Nat \ {0}
      /\ Top' = stack'[Len(stack)] /\ Top = stack[Len(stack)]
  BY Zenon DEF SameCalls
<1>2. \A i \in 1 .. Len(stack) : stack'[i] = stack[i] \/ i = Len(stack)
  BY <1>1 DEF SameCalls
<1>3. Len(stack) \in 1 .. Len(stack)
  BY <1>1
<1>4. QED
  BY <1>1, <1>2, <1>3, Zenon DEF Unfinished

LEMMA UnfinishedPushed ==
  ASSUME NEW c, OnTop(stack', stack, c, Len(stack) + 1), UNCHANGED childTodo, TypeOK
  PROVE  Unfinished \subseteq Unfinished'
<1>1. Len(stack') = Len(stack) + 1 /\ Len(stack) \in Nat
  BY DEF OnTop, TypeOK
<1>2. \A i \in 1 .. Len(stack) : i \in 1 .. Len(stack') /\ stack'[i] = stack[i]
  BY <1>1 DEF OnTop
<1>3. QED
  BY <1>2, Zenon DEF Unfinished

\* The steps that concern neither the calls of shutDown() nor the filesystems.
LEMMA OtherSteps ==
  ASSUME \/ ForkLoader \/ CatchCtrlAltDel \/ WaitChild \/ AskDown
         \/ LoaderExits \/ (\E h \in Helpers : HelperExits(h)) \/ UserSignals \/ UNCHANGED vars
  PROVE  /\ UNCHANGED <<stack, handler, mounted, late, childTodo, blind>>
         /\ machine' \in {machine, "reset"} /\ (loader' = "undoing" => loader = "undoing")
<1>1. CASE ForkLoader
  BY <1>1, Zenon DEF ForkLoader
<1>2. CASE CatchCtrlAltDel \/ WaitChild \/ AskDown \/ UserSignals \/ UNCHANGED vars
  BY <1>2, Zenon DEF CatchCtrlAltDel, WaitChild, AskDown, UserSignals, vars
<1>3. CASE LoaderExits \/ \E h \in Helpers : HelperExits(h)
  BY <1>3, Zenon DEF LoaderExits, HelperExits
<1>4. QED
  BY <1>1, <1>2, <1>3, Zenon

\* A call that goes on: the others are where they were.
LEMMA HaltedBefore ==
  ASSUME SameCalls, Halted', Top'.at # "halted"
  PROVE  Halted
  BY DEF SameCalls, Halted

LEMMA HaltedStays ==
  ASSUME SameCalls, Halted, Top.at # "halted"
  PROVE  Halted'
  BY DEF SameCalls, Halted

\* The calls stay where they are, or the innermost one goes on to send signals.
LEMMA StaysUnmounted ==
  ASSUME Unmounted, Accounts, UNCHANGED <<handler, blind>>,
         machine' \in {machine, "reset"} \/ Halted,
         Halted <=> Halted', stack' = << >> <=> stack = << >>,
         \/ UNCHANGED Top
         \/ Top.at \in {"term", "kill"} /\ Top'.at \in {"kill", "down"}
         \/ Top'.at = "mounts",
         proc \notin mounted' \/ loader' = "undoing" => mounted \subseteq late \cup Unfinished,
         blind => proc \notin mounted'
  PROVE  Unmounted'
<1>1. /\ mounted \subseteq late \cup Unfinished => mounted' \subseteq late' \cup Unfinished'
      /\ mounted \subseteq late \cup Stranded => mounted' \subseteq late' \cup Stranded'
  BY Accounted, Zenon
<1>2. NoProc'
  BY <1>1, Zenon DEF Unmounted, NoProc
<1>3. Down' /\ RebootHandler'
  BY <1>1, Zenon DEF Unmounted, Down, RebootHandler
<1>4. UnmountedSoFar'
  <2>1. CASE Top'.at = "mounts"
    BY <2>1, Zenon DEF UnmountedSoFar
  <2>2. CASE Top.at \in {"term", "kill"} /\ Top'.at \in {"kill", "down"}
    BY <1>1, <2>2, Zenon DEF Unmounted, UnmountedSoFar
  <2>3. CASE UNCHANGED Top
    <3>1. ASSUME stack # << >>, Top.at = "unmount"
          PROVE  ~blind /\ mounted' \subseteq late' \cup Top.todo
      BY <3>1, Zenon DEF Unmounted, UnmountedSoFar, Accounts
    <3>2. QED
      BY <1>1, <2>3, <3>1, Zenon DEF Unmounted, UnmountedSoFar
  <2>4. QED
    BY <2>1, <2>2, <2>3, Zenon
<1>5. QED
  BY <1>2, <1>3, <1>4, Zenon DEF Unmounted

LEMMA NextUnmounted == TypeOK /\ LoaderOnce /\ Unmounted /\ [Next]_vars => Unmounted'
<1> SUFFICES ASSUME TypeOK, LoaderOnce, Unmounted, [Next]_vars PROVE Unmounted'
  BY Zenon
<1>1. ASSUME UNCHANGED <<stack, handler, mounted, late, childTodo, blind>>,
             machine' \in {machine, "reset"}, loader' = "undoing" => loader = "undoing"
      PROVE  Unmounted'
  <2>1. UNCHANGED <<Top, Halted, Unfinished>>
    BY <1>1, Zenon DEF Top, Halted, Unfinished
  <2>2. Accounts
    BY <1>1, <2>1, Zenon DEF Accounts
  <2>3. QED
    BY <1>1, <2>1, <2>2, StaysUnmounted, Zenon DEF Unmounted, NoProc
<1>2. CASE InstallHandler
  <2>1. stack = << >> /\ UNCHANGED <<stack, mounted, late, machine, childTodo, blind, loader>>
    BY <1>2, Zenon DEF InstallHandler, MainRuns
  <2>2. ~Halted /\ ~Halted'
    BY <2>1 DEF Halted
  <2>3. RebootHandler'
    BY <1>2, <2>2, Zenon DEF InstallHandler, Unmounted, RebootHandler, TypeOK
  <2>4. UNCHANGED Unfinished
    <3>1. UNCHANGED <<stack, childTodo>>
      BY <2>1, Zenon
    <3>2. QED
      BY ONLY <3>1, Zenon DEF Unfinished
  <2>5. UNCHANGED Stranded
    BY <2>1, <2>4, Zenon DEF Stranded
  <2>6. UnmountedSoFar' /\ Down'
    <3>1. Down'
      BY <2>1, <2>2, <2>5, Zenon DEF Unmounted, Down
    <3>2. UnmountedSoFar'
      BY <2>1, Zenon DEF UnmountedSoFar
    <3>3. QED
      BY <3>1, <3>2, Zenon
  <2>7. NoProc'
    BY <2>1, <2>4, Zenon DEF Unmounted, NoProc
  <2>8. QED
    BY <2>3, <2>6, <2>7, Zenon DEF Unmounted
<1>3. CASE InstallEnded
  <2>1. PICK c \in Calls : OnTop(stack', stack, c, 1) /\ c.at = "mounts" /\ Len(stack) = 0
    BY <1>3, EndedStep, Zenon
  <2>2. Top'.at = "mounts" /\ ~Halted' /\ ~Halted
    BY <2>1 DEF OnTop, Top, Halted
  <2>3. UNCHANGED <<handler, mounted, late, machine, childTodo, blind, loader>> /\ stack = << >>
    BY <1>3, Zenon DEF InstallEnded, MainRuns
  <2>4. Unfinished \subseteq Unfinished'
    <3>1. OnTop(stack', stack, c, Len(stack) + 1)
      BY <2>1
    <3>2. QED
      BY <2>3, <3>1, UnfinishedPushed, Zenon
  <2>5. ~blind
    BY <2>3, Zenon DEF Unmounted, NoProc
  <2>6. mounted \subseteq late => mounted \subseteq late' \cup Stranded'
    BY <2>3, Zenon
  <2>7. NoProc'
    BY <2>3, <2>4, <2>5, Zenon DEF Unmounted, NoProc
  <2>8. UnmountedSoFar' /\ RebootHandler'
    BY <2>2, <2>3, Zenon DEF Unmounted, UnmountedSoFar, RebootHandler
  <2>9. Down'
    BY <2>2, <2>3, <2>5, <2>6, Zenon DEF Unmounted, Down, Stranded
  <2>10. QED
    BY <2>7, <2>8, <2>9, Zenon DEF Unmounted
<1>4. CASE ReadMounts
  <2>1. /\ SameCalls /\ Top.at = "mounts" /\ stack # << >> /\ stack' # << >>
        /\ \/ proc \in mounted /\ Top'.at = "unmount" /\ Top'.todo = mounted
           \/ proc \notin mounted /\ Top'.at = "term" /\ Top'.todo = Top.todo
    BY <1>4, ReadMountsStep, Zenon
  <2>2. Halted <=> Halted'
    BY <2>1, HaltedBefore, HaltedStays, Zenon
  <2>3. machine = "up" /\ UNCHANGED <<handler, mounted, machine, loader, childTodo>>
    BY <1>4, Zenon DEF ReadMounts, InitRuns
  <2>4. RebootHandler'
    BY <2>2, <2>3, Zenon DEF Unmounted, RebootHandler
  <2>5. CASE proc \in mounted
    <3>1. late' = (IF Halted THEN late ELSE {}) /\ UNCHANGED blind /\ ~blind
      BY <1>4, <2>5, Zenon DEF ReadMounts, Halted, Unmounted, NoProc
    <3>2. mounted \subseteq Unfinished'
      BY <2>1, <2>3, <2>5, UnfinishedKept, Zenon
    <3>3. QED
      BY <2>1, <2>2, <2>3, <2>4, <2>5, <3>1, <3>2, Zenon
         DEF Unmounted, UnmountedSoFar, Down, NoProc, Stranded
  <2>6. CASE proc \notin mounted
    <3>1. late' = late /\ blind'
      BY <1>4, <2>6, Zenon DEF ReadMounts
    <3>2. Unfinished \subseteq Unfinished'
      BY <2>1, <2>3, <2>6, UnfinishedKept, Zenon
    <3>3. mounted' \subseteq late' \cup Unfinished'
      BY <2>3, <2>6, <3>1, <3>2, Zenon DEF Unmounted, NoProc
    <3>4. mounted' \subseteq late' \cup Stranded'
      BY <3>1, <3>3, Zenon DEF Stranded
    <3>5. QED
      BY <2>1, <2>3, <2>4, <2>6, <3>3, <3>4, Zenon DEF Unmounted, UnmountedSoFar, Down, NoProc
  <2>7. QED
    BY <2>5, <2>6, Zenon
<1>5. CASE Unmount
  <2>1. /\ SameCalls /\ stack # << >> /\ stack' # << >> /\ Top.at = "unmount"
        /\ Top'.at \in {"term", "unmount"}
    BY <1>5, UnmountStep, Zenon DEF SameCalls, Calls, NextAfterUnmount
  <2>2. Halted <=> Halted'
    BY <2>1, HaltedBefore, HaltedStays, Zenon
  <2>3. UNCHANGED <<handler, machine, loader, childTodo, blind>> /\ machine = "up"
    BY <1>5, Zenon DEF Unmount, InitRuns
  <2>4. /\ ~blind /\ ~blind' /\ mounted \subseteq late \cup Top.todo
        /\ Halted => mounted \subseteq late
    BY <2>1, <2>3, Zenon DEF Unmounted, UnmountedSoFar, Down, Stranded
  <2>5. /\ Halted' => mounted' \subseteq late'
        /\ mounted' \subseteq late' \cup Top'.todo
        /\ Top'.at = "term" => mounted' \subseteq late'
    <3>1. CASE /\ Top.todo = {} /\ Top' = [Top EXCEPT !.at = "term"]
               /\ UNCHANGED <<mounted, late>>
      <4>1. Top'.todo = Top.todo
        BY <2>1, <3>1, Zenon DEF SameCalls, Calls
      <4>2. QED
        BY <2>2, <2>4, <3>1, <4>1, Zenon
    <3>2. ASSUME NEW f \in Top.todo,
                 Top' = [Top EXCEPT !.todo = @ \ {f},
                                    !.at = NextAfterUnmount(Top.todo \ {f})],
                 \/ mounted' = mounted \ {f} /\ UNCHANGED late
                 \/ late' = late \cup {f} /\ UNCHANGED mounted
          PROVE  /\ Halted' => mounted' \subseteq late'
                 /\ mounted' \subseteq late' \cup Top'.todo
                 /\ Top'.at = "term" => mounted' \subseteq late'
      <4>1. Top'.todo = Top.todo \ {f} /\ Top'.at = NextAfterUnmount(Top.todo \ {f})
        BY <2>1, <3>2, Zenon DEF SameCalls, Calls
      <4>2. mounted' \subseteq late' \cup Top'.todo /\ (Halted' => mounted' \subseteq late')
        BY <2>2, <2>4, <3>2, <4>1, Zenon
      <4>3. QED
        BY <4>1, <4>2, Zenon DEF NextAfterUnmount
    <3>3. QED
      BY <1>5, <3>1, <3>2, UnmountStep, Zenon
  <2>6. mounted' \subseteq late' \cup Unfinished'
    BY <2>1, <2>3, <2>5, UnfinishedKept, Zenon
  <2>7. Stranded' = {}
    BY <2>4, Zenon DEF Stranded
  <2>8. UnmountedSoFar' /\ Down'
    BY <2>1, <2>2, <2>3, <2>4, <2>5, <2>7, Zenon DEF Unmounted, UnmountedSoFar, Down
  <2>9. QED
    BY <2>2, <2>3, <2>4, <2>6, <2>8, Zenon DEF Unmounted, RebootHandler, NoProc
<1>6. CASE Kill
  <2>1. /\ SameCalls /\ stack # << >> /\ stack' # << >> /\ Top.at \in {"term", "kill"}
        /\ Top'.at \in {"kill", "down"} /\ Top'.todo = Top.todo
    BY <1>6, KillStep, Zenon
  <2>2. Halted <=> Halted'
    BY <2>1, HaltedBefore, HaltedStays, Zenon
  <2>3. /\ UNCHANGED <<handler, mounted, machine, late, childTodo, blind>>
        /\ loader' \in {loader, "bad"}
    BY <1>6, Zenon DEF Kill
  <2>4. Accounts
    BY <2>1, <2>3, UnfinishedKept, Zenon DEF Accounts
  <2>5. QED
    BY <2>1, <2>2, <2>3, <2>4, StaysUnmounted, Zenon DEF Unmounted, NoProc
<1>7. CASE GoDown
  <2>1. /\ mounted \subseteq late \cup Stranded
        /\ UNCHANGED <<mounted, late, childTodo, blind, loader>>
    BY <1>7, GoDownStep, Zenon DEF Unmounted, UnmountedSoFar, GoDown
  <2>2. CASE UNCHANGED <<stack, handler>>
    <3>1. UNCHANGED <<Top, Halted, Unfinished, Stranded>>
      BY <2>1, <2>2, Zenon DEF Top, Halted, Unfinished, Stranded
    <3>2. QED
      BY <2>1, <2>2, <3>1, Zenon DEF Unmounted, UnmountedSoFar, RebootHandler, Down, NoProc
  <2>3. CASE /\ SameCalls /\ Top'.at = "halted" /\ stack' # << >> /\ Top'.todo = Top.todo
             /\ handler' = [handler EXCEPT !["INT"] = "rebootHandler"]
    <3>1. Halted'
      BY <2>3 DEF SameCalls, Halted
    <3>2. RebootHandler'
      BY <2>3, <3>1, Zenon DEF Unmounted, RebootHandler, TypeOK
    <3>3. Accounts
      BY <2>1, <2>3, UnfinishedKept, Zenon DEF Accounts
    <3>4. /\ mounted \subseteq late \cup Unfinished => mounted' \subseteq late' \cup Unfinished'
          /\ mounted' \subseteq late' \cup Stranded'
      BY <2>1, <3>3, Accounted, Zenon
    <3>5. QED
      BY <2>1, <2>3, <3>2, <3>4, Zenon DEF Unmounted, UnmountedSoFar, Down, NoProc
  <2>4. QED
    BY <1>7, <2>2, <2>3, GoDownStep, Zenon
<1>8. ASSUME NEW s \in Sigs, Deliver(s) PROVE Unmounted'
  <2>1. UNCHANGED <<handler, mounted, late, childTodo, blind, loader>> /\ machine = "up"
    BY <1>8, Zenon DEF Deliver
  <2>2. CASE UNCHANGED stack /\ (machine' = machine \/ handler[s] = "rebootHandler")
    <3>1. UNCHANGED <<Top, Halted, Unfinished>>
      BY <2>1, <2>2, Zenon DEF Top, Halted, Unfinished
    <3>2. Accounts /\ (handler[s] = "rebootHandler" => Halted)
      BY <2>1, <3>1, Zenon DEF Accounts, Unmounted, RebootHandler
    <3>3. QED
      BY <2>1, <2>2, <3>1, <3>2, StaysUnmounted, Zenon DEF Unmounted, NoProc
  <2>3. ASSUME NEW c \in Calls, OnTop(stack', stack, c, Len(stack) + 1), c.at = "mounts",
               UNCHANGED machine
        PROVE  Unmounted'
    <3>1. Len(stack) \in Nat
      BY DEF TypeOK
    <3>2. Top'.at = "mounts" /\ (Halted <=> Halted')
      BY <2>3, <3>1 DEF OnTop, Top, Halted
    <3>3. Accounts
      BY <2>1, <2>3, UnfinishedPushed, Zenon DEF Accounts
    <3>4. /\ mounted \subseteq late \cup Unfinished => mounted' \subseteq late' \cup Unfinished'
          /\ mounted \subseteq late \cup Stranded => mounted' \subseteq late' \cup Stranded'
      BY <2>1, <3>3, Accounted, Zenon
    <3>5. stack' # << >>
      BY <2>3, Zenon DEF OnTop
    <3>6. QED
      BY <2>1, <2>3, <3>2, <3>4, <3>5, Zenon
         DEF Unmounted, UnmountedSoFar, RebootHandler, Down, NoProc
  <2>4. QED
    BY <1>8, <2>2, <2>3, DeliverStep, Zenon
<1>9. ASSUME NEW f \in Fs, Mount(f) PROVE Unmounted'
  <2>1. /\ UNCHANGED <<stack, handler, machine, childTodo, blind, loader>>
        /\ mounted' = mounted \cup {f} /\ late' = late \cup {f} /\ f # proc
    BY <1>9, InitAssumption, Zenon DEF Mount
  <2>2. UNCHANGED <<Top, Halted, Unfinished>>
    BY <2>1, Zenon DEF Top, Halted, Unfinished
  <2>3. Accounts
    BY <2>1, <2>2, Zenon DEF Accounts
  <2>4. QED
    BY <2>1, <2>2, <2>3, StaysUnmounted, Zenon DEF Unmounted, NoProc
<1>10. CASE StartHelpers
  <2>1. /\ stack = << >> /\ pc = "boot" /\ machine = "up" /\ mounted' = mounted \cup OwnFs
        /\ UNCHANGED <<stack, handler, machine, loader, blind>>
    BY <1>10, Zenon DEF StartHelpers, MainRuns, InitRuns
  <2>2. proc \in mounted' /\ loader = "none" /\ ~blind
    BY <2>1, InitAssumption, Zenon DEF LoaderOnce, Unmounted, NoProc
  <2>3. ~Halted /\ ~Halted'
    BY <2>1 DEF Halted
  <2>4. QED
    BY <2>1, <2>2, <2>3, Zenon DEF Unmounted, UnmountedSoFar, RebootHandler, Down, NoProc
<1>11. CASE ChildReads
  <2>1. /\ UNCHANGED <<stack, handler, machine, blind, mounted, late>> /\ machine = "up"
        /\ loader = "exec_failed" /\ childTodo' = IF proc \in mounted THEN mounted ELSE {}
    BY <1>11, Zenon DEF ChildReads
  <2>2. UNCHANGED <<Top, Halted>>
    BY <2>1, Zenon DEF Top, Halted
  <2>3. Unfinished \subseteq Unfinished' /\ childTodo' \subseteq Unfinished'
    BY <2>1, Zenon DEF LoaderOnce, Unfinished
  <2>4. Accounts
    BY <2>1, <2>3, Zenon DEF Accounts
  <2>5. mounted' \subseteq late' \cup Unfinished'
    BY <2>1, <2>3, Zenon DEF Unmounted, NoProc
  <2>6. mounted \subseteq late \cup Stranded => mounted' \subseteq late' \cup Stranded'
    BY <2>1, <2>4, Accounted, Zenon
  <2>7. QED
    BY <2>1, <2>2, <2>5, <2>6, Zenon
       DEF Unmounted, UnmountedSoFar, RebootHandler, Down, NoProc
<1>12. ASSUME NEW f \in Fs, ChildUnmounts(f) PROVE Unmounted'
  <2>1. /\ UNCHANGED <<stack, handler, machine, blind, loader>> /\ loader = "undoing"
        /\ childTodo' = childTodo \ {f}
        /\ \/ mounted' = mounted \ {f} /\ UNCHANGED late
           \/ late' = late \cup {f} /\ UNCHANGED mounted
    BY <1>12, Zenon DEF ChildUnmounts
  <2>2. UNCHANGED <<Top, Halted>>
    BY <2>1, Zenon DEF Top, Halted
  <2>3. \A g \in Unfinished : g = f \/ g \in Unfinished'
    BY <2>1, Zenon DEF Unfinished
  <2>4. Accounts
    BY <2>1, <2>3, Zenon DEF Accounts
  <2>5. mounted \subseteq late \cup Unfinished /\ (blind => proc \notin mounted')
    BY <2>1, Zenon DEF Unmounted, NoProc
  <2>6. QED
    BY <2>1, <2>2, <2>4, <2>5, StaysUnmounted, Zenon
<1>13. QED
  BY <1>1, <1>2, <1>3, <1>4, <1>5, <1>6, <1>7, <1>8, <1>9, <1>10, <1>11, <1>12, OtherSteps, Zenon
     DEF Next, InitStep

-----------------------------------------------------------------------------
(* The loader *)

LEMMA NextLoaderOnce == TypeOK /\ LoaderOnce /\ [Next]_vars => LoaderOnce'
<1> SUFFICES ASSUME TypeOK, LoaderOnce, [Next]_vars PROVE LoaderOnce'
  BY Zenon
<1>1. CASE StartHelpers
  BY <1>1, Zenon DEF StartHelpers, LoaderOnce
<1>2. CASE ForkLoader
  BY <1>2, Zenon DEF ForkLoader, LoaderOnce
<1>3. CASE InstallHandler
  BY <1>3, Zenon DEF InstallHandler, LoaderOnce, Caught
<1>4. CASE CatchCtrlAltDel
  BY <1>4, Zenon DEF CatchCtrlAltDel, LoaderOnce
<1>5. CASE WaitChild
  <2>1. /\ UNCHANGED <<install, loader, request, childTodo>> /\ pc = "wait" /\ pc' \in {"wait", "status"}
        /\ zombies' \subseteq zombies
    BY <1>5, Zenon DEF WaitChild
  <2>2. install \in {"pid", "failed"}
    BY <2>1, Zenon DEF LoaderOnce, TypeOK
  <2>3. pc' = "status" /\ install = "pid" => status' = loader
    <3>1. SUFFICES ASSUME pc' = "status", install = "pid" PROVE status' = loader
      BY Zenon
    <3>2. ~IsInstall("nobody")
      BY <3>1, Zenon DEF IsInstall
    <3>3. PICK z \in zombies : status' = z[2] /\ IsInstall(z[1])
      BY <1>5, <3>1, <3>2, Zenon DEF WaitChild
    <3>4. z = <<"loader", z[2]>> /\ z[2] \in {"ok", "bad"}
      BY <3>1, <3>3 DEF IsInstall, TypeOK
    <3>5. QED
      BY <3>3, <3>4, Zenon DEF LoaderOnce
  <2>4. QED
    BY <2>1, <2>2, <2>3, Zenon DEF LoaderOnce
<1>6. CASE InstallEnded
  BY <1>6, Zenon DEF InstallEnded, LoaderOnce
<1>7. CASE ReadMounts
  BY <1>7, Zenon DEF ReadMounts, LoaderOnce
<1>8. CASE Unmount
  BY <1>8, Zenon DEF Unmount, LoaderOnce
<1>9. CASE Kill
  <2>1. UNCHANGED <<pc, install, status, request, childTodo>>
    BY <1>9, Zenon DEF Kill
  <2>2. CASE UNCHANGED <<loader, zombies>>
    BY <2>1, <2>2, Zenon DEF LoaderOnce
  <2>3. ASSUME NEW ks \in SUBSET kids, NEW l \in BOOLEAN,
               loader' = IF l /\ LoaderAlive THEN "bad" ELSE loader,
               zombies' = zombies \cup {<<k, "bad">> : k \in ks}
                          \cup IF l /\ LoaderAlive THEN {<<"loader", "bad">>} ELSE {}
        PROVE  LoaderOnce'
    <3>1. \A r : <<"loader", r>> \notin {<<k, "bad">> : k \in ks}
      BY InitAssumption, Zenon DEF TypeOK
    <3>2. LoaderAlive => \A r \in {"ok", "bad"} : <<"loader", r>> \notin zombies
      BY Zenon DEF LoaderAlive, LoaderOnce
    <3>3. \A r \in {"ok", "bad"} : <<"loader", r>> \in zombies' => loader' = r
      BY <2>3, <3>1, <3>2, Zenon DEF LoaderOnce
    <3>4. LoaderAlive => pc \notin {"boot", "fork"} /\ (pc = "status" => install = "failed")
      BY Zenon DEF LoaderAlive, LoaderOnce, TypeOK
    <3>5. QED
      BY <2>1, <2>3, <3>3, <3>4, Zenon DEF LoaderOnce
  <2>4. QED
    BY <1>9, <2>2, <2>3, Zenon DEF Kill
<1>10. CASE GoDown
  BY <1>10, Zenon DEF GoDown, LoaderOnce
<1>11. ASSUME NEW s \in Sigs, Deliver(s) PROVE LoaderOnce'
  BY <1>11, Zenon DEF Deliver, LoaderOnce
<1>12. ASSUME NEW f \in Fs, Mount(f) PROVE LoaderOnce'
  BY <1>12, Zenon DEF Mount, LoaderOnce
<1>13. CASE AskDown
  BY <1>13, Zenon DEF AskDown, LoaderOnce, TypeOK
<1>14. CASE LoaderExits
  <2>1. PICK r \in {"ok", "bad"} : loader' = r /\ zombies' = zombies \cup {<<"loader", r>>}
    BY <1>14, Zenon DEF LoaderExits
  <2>2. UNCHANGED <<pc, install, status, request, childTodo>> /\ loader \in {"run", "asked"}
    BY <1>14, Zenon DEF LoaderExits
  <2>3. \A q \in {"ok", "bad"} : <<"loader", q>> \in zombies' => loader' = q
    BY <2>1, <2>2, Zenon DEF LoaderOnce
  <2>4. QED
    BY <2>1, <2>2, <2>3, Zenon DEF LoaderOnce, TypeOK
<1>15. ASSUME NEW h \in Helpers, HelperExits(h) PROVE LoaderOnce'
  <2>1. h # "loader"
    BY InitAssumption, Zenon
  <2>2. \A r \in {"ok", "bad"} : <<"loader", r>> \in zombies' => <<"loader", r>> \in zombies
    BY <1>15, <2>1, Zenon DEF HelperExits
  <2>3. QED
    BY <1>15, <2>2, Zenon DEF HelperExits, LoaderOnce
<1>16. CASE UserSignals
  BY <1>16, Zenon DEF UserSignals, LoaderOnce
<1>17. CASE UNCHANGED vars
  BY <1>17, Zenon DEF vars, LoaderOnce
<1>18. CASE ChildReads
  BY <1>18, Zenon DEF ChildReads, LoaderOnce, TypeOK
<1>19. ASSUME NEW f \in Fs, ChildUnmounts(f) PROVE LoaderOnce'
  BY <1>19, Zenon DEF ChildUnmounts, LoaderOnce
<1>20. QED
  BY <1>1, <1>2, <1>3, <1>4, <1>5, <1>6, <1>7, <1>8, <1>9, <1>10, <1>11, <1>12, <1>13,
     <1>14, <1>15, <1>16, <1>17, <1>18, <1>19, Zenon DEF Next, InitStep

\* The loader's success and a failed fork are final.
LEMMA Final ==
  ASSUME TypeOK, LoaderOnce, [Next]_vars, loader = "ok" \/ install = "failed",
         ~ForkLoader
  PROVE  loader' = "ok" \/ install' = "failed"
  BY Zenon DEF Next, InitStep, StartHelpers, InstallHandler, CatchCtrlAltDel, WaitChild,
         InstallEnded, ReadMounts, Unmount, Kill, GoDown, Deliver, Mount, AskDown, LoaderExits,
         HelperExits, UserSignals, ChildReads, ChildUnmounts, LoaderAlive, vars

LEMMA NextFrames == TypeOK /\ LoaderOnce /\ Frames /\ [Next]_vars => Frames'
<1> SUFFICES ASSUME TypeOK, LoaderOnce, Frames, [Next]_vars PROVE Frames'
  BY Zenon
<1>1. CASE stack = << >> /\ UNCHANGED stack
  BY <1>1 DEF Frames
<1>2. CASE UNCHANGED stack /\ ~ForkLoader
  BY <1>2, Final, Zenon DEF Frames
<1>3. ASSUME SameCalls, ~ForkLoader PROVE Frames'
  BY <1>3, Final, Zenon DEF Frames, SameCalls
<1>4. CASE InstallEnded
  <2>1. PICK c \in Calls : /\ OnTop(stack', stack, c, 1) /\ c.sig = "none"
                           /\ (c.how = "reboot" /\ Reboots) \/ c.how = "halt"
    BY <1>4, EndedStep, Zenon
  <2>2. UNCHANGED <<loader, install>> /\ (install = "failed" \/ status = loader)
    BY <1>4, Zenon DEF InstallEnded, LoaderOnce
  <2>3. Reboots => loader = "ok" \/ install = "failed"
    BY <2>2, Zenon DEF Reboots, TypeOK, LoaderStates
  <2>4. QED
    BY <2>1, <2>2, <2>3 DEF OnTop, Frames
<1>5. ASSUME NEW s \in Sigs, Deliver(s) PROVE Frames'
  <2>1. UNCHANGED <<loader, install>>
    BY <1>5, Zenon DEF Deliver
  <2>2. ASSUME NEW c \in Calls, OnTop(stack', stack, c, Len(stack) + 1), c.sig = s,
               c.how = How(s), s \in Caught
        PROVE  Frames'
    <3>1. Len(stack) \in Nat /\ s # "none"
      BY <2>2 DEF TypeOK, Caught
    <3>2. QED
      BY <2>1, <2>2, <3>1 DEF OnTop, Frames
  <2>3. CASE UNCHANGED stack
    BY <2>1, <2>3, Zenon DEF Frames
  <2>4. QED
    BY <1>5, <2>2, <2>3, DeliverStep, Zenon
<1>6. ForkLoader => stack = << >> /\ UNCHANGED stack
  BY Zenon DEF ForkLoader, MainRuns
<1>7. UNCHANGED stack \/ SameCalls \/ InstallEnded \/ \E s \in Sigs : Deliver(s)
  <2>1. CASE ReadMounts \/ Unmount \/ Kill \/ GoDown
    BY <2>1, ReadMountsStep, UnmountStep, KillStep, GoDownStep, Zenon
  <2>2. CASE \/ StartHelpers \/ InstallHandler \/ ChildReads
             \/ \E f \in Fs : Mount(f) \/ ChildUnmounts(f)
    BY <2>2, Zenon DEF StartHelpers, InstallHandler, Mount, ChildReads, ChildUnmounts
  <2>3. QED
    BY <2>1, <2>2, OtherSteps, Zenon DEF Next, InitStep
<1>8. QED
  BY <1>1, <1>2, <1>3, <1>4, <1>5, <1>6, <1>7, Zenon

-----------------------------------------------------------------------------
(* What the loader has asked for *)

LEMMA AskedFacts ==
  /\ Asked \in Caught /\ Asked \in Sigs /\ Asked # "INT" /\ Asked # "none" /\ How(Asked) # "reboot"
  /\ opt.flag = "halt" => How(Asked) = "halt"
  BY Zenon DEF Asked, Caught, Sigs, How

\* While init runs, a request it has heard is being carried out.
LEMMA HeardOnTop ==
  ASSUME LoaderAlone, InitRuns, request \in {"halt", "poweroff"}
  PROVE  stack # << >> /\ Top.sig = Asked
  BY Zenon DEF LoaderAlone, InitRuns

\* The steps that send or handle no signal and leave the machine up.
LEMMA Unaffected ==
  ASSUME LoaderAlone, UNCHANGED <<opt, pending, stack, request, handler, machine, keys>>,
         machine = "up" \/ UNCHANGED <<loader, install>>
  PROVE  LoaderAlone'
<1>1. UNCHANGED <<Asked, Top, Blocked>>
  BY Zenon DEF Asked, Top, Blocked
<1>2. RequestHonoured'
  BY Zenon DEF LoaderAlone, RequestHonoured
<1>3. RebootAfterSuccess'
  BY Zenon DEF LoaderAlone, RebootAfterSuccess
<1>4. QED
  BY <1>1, <1>2, <1>3, Zenon DEF LoaderAlone

\* The innermost call goes on.
LEMMA GoesOn ==
  ASSUME LoaderAlone, SameCalls, UNCHANGED <<opt, pending, request, machine, keys>>,
         machine = "up", handler'[Asked] = handler[Asked], stack # << >>, stack' # << >>
  PROVE  LoaderAlone'
<1>1. UNCHANGED Asked /\ Top'.sig = Top.sig /\ Blocked' = Blocked
  BY DEF Asked, SameCalls, Blocked
<1>2. \A i \in 1 .. Len(stack') : stack'[i].sig = stack[i].sig /\ i \in 1 .. Len(stack)
  BY Zenon DEF SameCalls
<1>3. RequestHonoured' /\ RebootAfterSuccess'
  BY Zenon DEF LoaderAlone, RequestHonoured, RebootAfterSuccess
<1>4. QED
  BY <1>1, <1>2, <1>3, Zenon DEF LoaderAlone

LEMMA NextLoaderAlone ==
  IInv /\ keys = 0 /\ keys' = 0 /\ [Next]_vars => LoaderAlone'
<1> SUFFICES ASSUME IInv, keys = 0, keys' = 0, [Next]_vars PROVE LoaderAlone'
  BY Zenon
<1>1. TypeOK /\ LoaderAlone /\ LoaderOnce /\ Frames /\ RebootHandler
  BY Zenon DEF IInv
<1>2. CASE \/ StartHelpers \/ ForkLoader \/ CatchCtrlAltDel \/ WaitChild \/ LoaderExits
           \/ (\E f \in Fs : Mount(f) \/ ChildUnmounts(f)) \/ ChildReads
           \/ (\E h \in Helpers : HelperExits(h)) \/ UNCHANGED vars
  <2>1. /\ UNCHANGED <<opt, pending, stack, request, handler, machine, keys>>
        /\ machine = "up" \/ UNCHANGED <<loader, install>>
    BY <1>2, Zenon DEF StartHelpers, ForkLoader, CatchCtrlAltDel, WaitChild, LoaderExits, Mount,
                HelperExits, ChildReads, ChildUnmounts, MainRuns, InitRuns, vars
  <2>2. QED
    BY <1>1, <2>1, Unaffected, Zenon
<1>3. CASE InstallHandler
  <2>1. /\ UNCHANGED <<opt, pending, stack, request, machine, keys, loader, install>>
        /\ stack = << >> /\ InitRuns
    BY <1>3, Zenon DEF InstallHandler, MainRuns
  <2>2. request \notin {"halt", "poweroff"} /\ UNCHANGED Asked
    BY <1>1, <2>1, HeardOnTop, Zenon DEF Asked
  <2>3. RequestHonoured' /\ RebootAfterSuccess'
    BY <1>1, <2>1, Zenon DEF LoaderAlone, RequestHonoured, RebootAfterSuccess
  <2>4. QED
    BY <1>1, <2>1, <2>2, <2>3, Zenon DEF LoaderAlone
<1>4. CASE InstallEnded
  <2>1. PICK c \in Calls : OnTop(stack', stack, c, 1) /\ c.sig = "none"
    BY <1>1, <1>4, EndedStep, Zenon
  <2>2. /\ UNCHANGED <<opt, pending, request, machine, keys, loader, install>>
        /\ stack = << >> /\ InitRuns
    BY <1>4, Zenon DEF InstallEnded, MainRuns
  <2>3. request \notin {"halt", "poweroff"} /\ UNCHANGED Asked
    BY <1>1, <2>2, HeardOnTop, Zenon DEF Asked
  <2>4. \A i \in 1 .. Len(stack') : stack'[i].sig = "none"
    BY <2>1 DEF OnTop
  <2>5. RequestHonoured' /\ RebootAfterSuccess'
    BY <1>1, <2>2, Zenon DEF LoaderAlone, RequestHonoured, RebootAfterSuccess
  <2>6. QED
    BY <1>1, <2>2, <2>3, <2>4, <2>5, Zenon DEF LoaderAlone
<1>5. CASE ReadMounts \/ Unmount \/ Kill
  <2>1. SameCalls /\ stack # << >> /\ stack' # << >>
    BY <1>1, <1>5, ReadMountsStep, UnmountStep, KillStep, Zenon
  <2>2. UNCHANGED <<opt, pending, request, machine, keys, handler>> /\ machine = "up"
    BY <1>5, Zenon DEF ReadMounts, Unmount, Kill, InitRuns
  <2>3. QED
    BY <1>1, <2>1, <2>2, GoesOn, Zenon
<1>6. CASE GoDown
  <2>1. InitRuns /\ UNCHANGED <<opt, pending, request, keys, loader, install>>
    BY <1>6, Zenon DEF GoDown
  <2>2. /\ stack # << >> /\ Top = stack[Len(stack)] /\ Len(stack) \in 1 .. Len(stack)
        /\ Top.sig \in {"none", Asked}
    BY <1>1, <1>6, GoDownStep, TopIsCall DEF LoaderAlone
  <2>3. IF Top.sig = "none"
        THEN Top.how = "reboot" => loader = "ok" \/ install = "failed"
        ELSE Top.how = How(Asked)
    BY <1>1, <2>2, Zenon DEF Frames
  <2>4. /\ Top.how = "reboot" => loader = "ok" \/ install = "failed"
        /\ request = "poweroff" => Top.how # "reboot"
        /\ request = "halt" => Top.how = "halt"
    <3>1. request \in {"halt", "poweroff"} => Top.sig = Asked /\ request = opt.flag
      BY <1>1, <2>1, HeardOnTop, Zenon DEF LoaderAlone
    <3>2. QED
      BY <2>2, <2>3, <3>1, AskedFacts, Zenon
  <2>5. CASE Top.how = "halt"
    <3>1. /\ SameCalls /\ stack' # << >> /\ UNCHANGED machine /\ machine = "up"
          /\ handler' = [handler EXCEPT !["INT"] = "rebootHandler"]
      BY <1>1, <1>6, <2>5, GoDownStep, Zenon
    <3>2. handler'[Asked] = handler[Asked]
      BY <1>1, <3>1, AskedFacts, Zenon DEF TypeOK
    <3>3. QED
      BY <1>1, <2>1, <2>2, <3>1, <3>2, GoesOn, Zenon
  <2>6. CASE Top.how # "halt"
    <3>1. /\ UNCHANGED <<stack, handler>>
          /\ machine' = IF Top.how = "reboot" THEN "rebooted" ELSE "off"
      BY <1>1, <1>6, <2>6, GoDownStep, Zenon
    <3>2. UNCHANGED <<Asked, Top, Blocked>>
      BY <2>1, <3>1, Zenon DEF Asked, Top, Blocked
    <3>3. request \in {"halt", "poweroff"} => stack # << >> /\ Top.sig = Asked /\ pending = {}
      BY <1>1, <2>1, AskedFacts, Zenon DEF LoaderAlone, InitRuns
    <3>4. RequestHonoured' /\ RebootAfterSuccess'
      BY <2>1, <2>4, <2>6, <3>1, Zenon DEF RequestHonoured, RebootAfterSuccess
    <3>5. QED
      BY <1>1, <2>1, <3>1, <3>2, <3>3, <3>4, Zenon DEF LoaderAlone
  <2>7. QED
    BY <2>5, <2>6, Zenon
<1>7. ASSUME NEW s \in Sigs, Deliver(s) PROVE LoaderAlone'
  <2>1. UNCHANGED <<opt, handler, request, keys, loader, install>>
    BY <1>7, Zenon DEF Deliver
  <2>2. /\ s = Asked /\ pending' = {} /\ request # "none" /\ machine = "up"
        /\ handler[s] # "rebootHandler"
    BY <1>1, <1>7, DeliverStep, AskedFacts, Zenon DEF LoaderAlone, RebootHandler
  <2>3. UNCHANGED Asked /\ Len(stack) \in Nat
    BY <1>1, <2>1 DEF Asked, TypeOK
  <2>4. CASE handler[s] = "ignored" /\ UNCHANGED <<stack, machine>>
    <3>1. request \notin {"halt", "poweroff"}
      BY <1>1, <2>2, <2>4, Zenon DEF LoaderAlone
    <3>2. RequestHonoured' /\ RebootAfterSuccess'
      BY <2>1, <2>2, <2>4, Zenon DEF RequestHonoured, RebootAfterSuccess
    <3>3. QED
      BY <1>1, <2>1, <2>2, <2>3, <2>4, <3>1, <3>2, Zenon DEF LoaderAlone
  <2>5. ASSUME handler[s] = "shutDown", UNCHANGED machine, NEW c \in Calls,
               OnTop(stack', stack, c, Len(stack) + 1), c.sig = s
        PROVE  LoaderAlone'
    <3>1. stack' # << >> /\ Top'.sig = Asked
      BY <2>2, <2>3, <2>5, Zenon DEF OnTop, Top
    <3>2. \A i \in 1 .. Len(stack') : stack'[i].sig \in {"none", Asked}
      BY <1>1, <2>2, <2>3, <2>5 DEF OnTop, LoaderAlone
    <3>3. RequestHonoured' /\ RebootAfterSuccess'
      BY <2>1, <2>2, <2>5, Zenon DEF RequestHonoured, RebootAfterSuccess
    <3>4. QED
      BY <1>1, <2>1, <2>2, <2>3, <2>5, <3>1, <3>2, <3>3, Zenon DEF LoaderAlone
  <2>6. QED
    BY <1>1, <1>7, <2>2, <2>4, <2>5, DeliverStep
<1>8. CASE AskDown
  <2>1. /\ UNCHANGED <<opt, handler, stack, machine, keys>> /\ machine = "up"
        /\ loader = "run" /\ opt.flag # "none"
    BY <1>8, Zenon DEF AskDown
  <2>2. \/ /\ pending' = pending \cup {Asked}
           /\ request' = IF handler[Asked] = "ignored" THEN "lost" ELSE opt.flag
        \/ request' = "lost" /\ UNCHANGED pending
    BY <1>8, Zenon DEF AskDown, Asked
  <2>3. pending = {} /\ \A i \in 1 .. Len(stack) : stack[i].sig = "none"
    BY <1>1, <2>1, Zenon DEF LoaderOnce, LoaderAlone
  <2>4. Asked \notin Blocked /\ UNCHANGED <<Asked, Blocked, Top>>
    BY <2>1, <2>3, AskedFacts, Zenon DEF Blocked, Asked, Top
  <2>5. handler[Asked] \in {"ignored", "shutDown"} /\ opt.flag \in {"halt", "poweroff"}
    BY <1>1, <2>1, AskedFacts, InitAssumption, Zenon DEF TypeOK, RebootHandler
  <2>6. RequestHonoured' /\ RebootAfterSuccess'
    BY <2>1, Zenon DEF RequestHonoured, RebootAfterSuccess
  <2>7. CASE request' = "lost"
    BY <1>1, <2>1, <2>2, <2>3, <2>4, <2>6, <2>7, Zenon DEF LoaderAlone
  <2>8. CASE pending' = {Asked} /\ request' = opt.flag /\ handler[Asked] = "shutDown"
    BY <1>1, <2>1, <2>3, <2>4, <2>5, <2>6, <2>8, Zenon DEF LoaderAlone
  <2>9. QED
    BY <2>2, <2>3, <2>5, <2>7, <2>8, Zenon
<1>9. CASE UserSignals
  BY <1>9 DEF UserSignals
<1>10. QED
  BY <1>2, <1>3, <1>4, <1>5, <1>6, <1>7, <1>8, <1>9, Zenon DEF Next, InitStep

-----------------------------------------------------------------------------
LEMMA InitIInv == Init => IInv
<1> SUFFICES ASSUME Init PROVE IInv
  BY Zenon
<1>1. stack = << >> /\ Len(stack) = 0 /\ stack \in Seq(Calls)
  BY DEF Init
<1>2. TypeOK
  <2>1. \A i, j \in 1 .. Len(stack) : i # j => stack[i].sig # stack[j].sig
    BY <1>1
  <2>2. handler \in [Sigs -> {"ignored", "shutDown", "rebootHandler"}] /\ handler["HUP"] = "ignored"
    BY DEF Init, Sigs
  <2>3. keys \in 0 .. MaxKeys
    BY InitAssumption DEF Init
  <2>4. QED
    BY <1>1, <2>1, <2>2, <2>3, Zenon DEF Init, TypeOK, LoaderStates
<1>3. Unmounted
  BY <1>1, Zenon DEF Init, Unmounted, UnmountedSoFar, RebootHandler, Down, NoProc, Halted
<1>4. Frames /\ LoaderOnce
  BY <1>1 DEF Init, Frames, LoaderOnce
<1>5. LoaderAlone
  BY <1>1 DEF Init, LoaderAlone, RequestHonoured, RebootAfterSuccess
<1>6. QED
  BY <1>2, <1>3, <1>4, <1>5, Zenon DEF IInv, Unmounted

LEMMA NextIInv == IInv /\ [Next]_vars => IInv'
<1> SUFFICES ASSUME IInv, [Next]_vars PROVE IInv'
  BY Zenon
<1>1. keys' = 0 => keys = 0
  <2>1. CASE UserSignals
    BY <2>1 DEF UserSignals, IInv, TypeOK
  <2>2. CASE UNCHANGED keys
    BY <2>2, Zenon
  <2>3. QED
    BY <2>1, <2>2, Zenon DEF Next, InitStep, StartHelpers, ForkLoader, InstallHandler,
       CatchCtrlAltDel, WaitChild, InstallEnded, ReadMounts, Unmount, Kill, GoDown, Deliver,
       Mount, AskDown, LoaderExits, HelperExits, ChildReads, ChildUnmounts, vars
<1>2. keys' = 0 => LoaderAlone'
  BY <1>1, NextLoaderAlone, Zenon
<1>3. TypeOK' /\ LoaderOnce' /\ Frames'
  BY NextTypeOK, NextLoaderOnce, NextFrames, Zenon DEF IInv
<1>4. Unmounted'
  BY <1>3, NextUnmounted, Zenon DEF IInv, Unmounted
<1>5. QED
  BY <1>2, <1>3, <1>4, Zenon DEF IInv, Unmounted

\* init.c and shutdown.c: everything of IInv holds throughout, the types of the
\* variables included.
LEMMA Invariant == Spec => []IInv
  BY InitIInv, NextIInv, PTL DEF Spec

\* shutDown() unmounts before it takes the machine down, however many handlers
\* interrupt each other: what is left was mounted late, was refused by umount2(), or,
\* when a call came too late to read /proc/mounts, was left by those it interrupted.
THEOREM UnmountsFirst == Spec => []DownUnmounted
<1>1. IInv => DownUnmounted
  BY Zenon DEF IInv, Down, DownUnmounted
<1>2. QED
  BY <1>1, Invariant, PTL

\* The handlers of init.c carry out a request of the loader that has reached them,
\* whatever the loader's exit would have led to.
THEOREM HonoursRequests == Spec => []RequestHonoured
<1>1. IInv => RequestHonoured
  BY Zenon DEF IInv, LoaderAlone, RequestHonoured
<1>2. QED
  BY <1>1, Invariant, PTL

\* init.c reboots on its own only after the loader has exited with 0, or could
\* not be started.
THEOREM RebootsAfterSuccess == Spec => []RebootAfterSuccess
<1>1. IInv => RebootAfterSuccess
  BY Zenon DEF IInv, LoaderAlone, RebootAfterSuccess
<1>2. QED
  BY <1>1, Invariant, PTL
=============================================================================

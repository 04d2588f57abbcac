-------------------------- MODULE UndoMountsProofs --------------------------
(***************************************************************************)
(* Proofs about unmountFilesystems for any number of mounts and loop       *)
(* devices: what undoMount and undoLoop undo, and in which order.          *)
(***************************************************************************)
EXTENDS UndoMounts, SequenceTheorems, FiniteSetTheorems, TLAPS

Indices == 1 .. Len(table)

\* The table lists every filesystem and every loop device once.
TableOK ==
  /\ \A i \in Indices : \/ What(i) = "FS" /\ Thing(i) \in Fs
                        \/ What(i) = "LOOP" /\ Thing(i) \in Loops
  /\ \A t \in Fs : \E i \in Indices : What(i) = "FS" /\ Thing(i) = t
  /\ \A t \in Loops : \E i \in Indices : What(i) = "LOOP" /\ Thing(i) = t
  /\ \A i, j \in Indices : What(i) = What(j) /\ Thing(i) = Thing(j) => i = j

\* What has to be undone before entry i.
Needs(i, j) == IF What(i) = "FS" THEN Underneath(i, j) ELSE j \in DeviceMounts(i)

\* The order in which calls are nested: a loop device, what is mounted from it,
\* and then whatever came about later.
Rank(i) == 2 * Thing(i) + (IF What(i) = "FS" THEN 1 ELSE 0)

\* The entry that a call is for, and whether the call has come to entry j.
Entry(l) == stack[l][1]
Seen(frame, j) == IF What(frame[1]) = "FS" THEN j < frame[2] ELSE frame[2] = 2

\* The calls for entry i have returned.
Finished(i) == ~mounted[i] /\ \A l \in 1 .. Len(stack) : Entry(l) # i

\* The calls under way are for different entries, whose flags are clear.
Nested ==
  /\ \A l \in 1 .. Len(stack) : ~mounted[Entry(l)]
  /\ \A l, m \in 1 .. Len(stack) : l < m => Rank(Entry(l)) < Rank(Entry(m))

\* What a call has come to is done, or is being done by a call it waits for.
Visited ==
  \A l \in 1 .. Len(stack), j \in Indices :
    Needs(Entry(l), j) /\ Seen(stack[l], j) =>
      Finished(j) \/ \E m \in l + 1 .. Len(stack) : Entry(m) = j

\* A finished call has done its work or has failed to, and no other has been done.
Gone ==
  \A i \in Indices :
    IF What(i) = "FS"
    THEN /\ ~Finished(i) => Thing(i) \in inUse \ refused
         /\ Finished(i) /\ Thing(i) \in inUse => Thing(i) \in refused
    ELSE /\ ~Finished(i) => Thing(i) \in attached \ kept
         /\ Finished(i) /\ Thing(i) \in attached => Thing(i) \in kept

\* The entries behind the scan of unmountFilesystems.
Scanned ==
  /\ scan[1] # "done" => scan[2] # 0
  /\ scan[1] = "mounts" => \A i \in Indices : i < scan[2] => ~mounted[i]
  /\ scan[1] = "done" => stack = << >> /\ \A i \in Indices : ~mounted[i]

IInv == TypeOK /\ TableOK /\ Nested /\ Visited /\ Gone /\ FileBeforeDevice /\ Scanned

-----------------------------------------------------------------------------
(* The things and the table *)

LEMMA AboveEarlier ==
  ASSUME TypeOK, NEW t \in Things, NEW u \in Above(t)
  PROVE  u \in Things /\ u < t
<1> DEFINE S == {v \in Things : v < t}
<1>1. \A v \in Things : parent[v] < v /\ parent[v] \in 0 .. N - 1
  BY Zenon DEF TypeOK, History
<1>2. S \in Closed
  BY <1>1, NAssumption DEF Closed, Things
<1>3. parent[t] # 0 /\ (parent[t] \in S => u \in S)
  BY <1>2, Zenon DEF Above
<1>4. parent[t] \in S
  BY <1>1, <1>3, NAssumption DEF Things
<1>5. QED
  BY <1>3, <1>4, Zenon

LEMMA EntryTypes ==
  ASSUME TypeOK, NEW i \in Indices
  PROVE  What(i) \in {"FS", "LOOP"} /\ Thing(i) \in Things /\ Thing(i) \in Int /\ Rank(i) \in Int
<1>1. table[i] \in {"FS", "LOOP"} \X Things
  BY DEF TypeOK, Indices
<1>2. What(i) \in {"FS", "LOOP"} /\ Thing(i) \in Things
  BY <1>1, Zenon DEF What, Thing
<1>3. Thing(i) \in Int
  BY <1>2, NAssumption DEF Things
<1>4. QED
  BY <1>2, <1>3 DEF Rank

\* Calls are nested in the order of ranks, so that no call waits for itself.
LEMMA NeedsRank ==
  ASSUME TypeOK, NEW i \in Indices, NEW j \in Indices, Needs(i, j)
  PROVE  Rank(i) < Rank(j)
<1>1. /\ What(i) \in {"FS", "LOOP"} /\ Thing(i) \in Things /\ Thing(i) \in Int
      /\ What(j) \in {"FS", "LOOP"} /\ Thing(j) \in Things /\ Thing(j) \in Int
  BY EntryTypes, Zenon
<1>2. CASE What(i) = "FS" /\ What(j) = "FS"
  <2>1. Thing(i) < Thing(j)
    BY <1>1, <1>2, AboveEarlier, Zenon DEF Needs, Underneath
  <2>2. QED
    BY <1>1, <1>2, <2>1 DEF Rank
<1>3. CASE What(i) = "FS" /\ What(j) = "LOOP"
  <2>1. OnOrUnder(back[Thing(j)], Thing(i))
    BY <1>3, Zenon DEF Needs, Underneath
  <2>2. back[Thing(j)] \in Things /\ back[Thing(j)] < Thing(j)
    BY <1>1, <2>1, NAssumption DEF OnOrUnder, TypeOK, History, Things
  <2>3. Thing(i) <= back[Thing(j)] /\ back[Thing(j)] \in Int
    BY <1>1, <2>1, <2>2, AboveEarlier DEF OnOrUnder, Things
  <2>4. QED
    BY <1>1, <1>3, <2>2, <2>3 DEF Rank
<1>4. CASE What(i) = "LOOP"
  <2>1. What(j) = "FS" /\ Thing(j) = Thing(i)
    BY <1>4, Zenon DEF Needs, DeviceMounts
  <2>2. QED
    BY <1>1, <1>4, <2>1 DEF Rank
<1>5. QED
  BY <1>1, <1>2, <1>3, <1>4, Zenon

\* The things and the table never change.
Fixed ==
  /\ table' = table /\ kind' = kind /\ back' = back /\ parent' = parent
  /\ Indices' = Indices /\ Fs' = Fs /\ Loops' = Loops /\ TableOK' = TableOK
  /\ \A i \in Indices : What(i)' = What(i) /\ Thing(i)' = Thing(i) /\ Rank(i)' = Rank(i)
  /\ \A i, j \in Indices : Needs(i, j)' = Needs(i, j)

LEMMA WorldFixed ==
  ASSUME UNCHANGED world
  PROVE  Fixed
<1>1. table' = table /\ kind' = kind /\ back' = back /\ parent' = parent
  BY Zenon DEF world
<1>2. Fs' = Fs /\ Loops' = Loops /\ Indices' = Indices
  BY <1>1, Zenon DEF Fs, Loops, Indices
<1>3. \A i \in Indices : What(i)' = What(i) /\ Thing(i)' = Thing(i) /\ Rank(i)' = Rank(i)
  BY <1>1, Zenon DEF What, Thing, Rank
<1>4. \A i, j \in Indices : Needs(i, j)' = Needs(i, j)
  <2>1. Closed' = Closed
    BY <1>1, Zenon DEF Closed
  <2>2. \A t : Above(t)' = Above(t)
    BY <1>1, <2>1, Zenon DEF Above
  <2>3. \A t, u : OnOrUnder(t, u)' = OnOrUnder(t, u)
    BY <2>2, Zenon DEF OnOrUnder
  <2>4. \A i, j \in Indices : Underneath(i, j)' = Underneath(i, j)
    BY <1>1, <2>2, <2>3, Zenon DEF Underneath, What, Thing
  <2>5. \A i \in Indices : DeviceMounts(i)' = DeviceMounts(i)
    BY <1>1, Zenon DEF DeviceMounts, What, Thing
  <2>6. QED
    BY <1>3, <2>4, <2>5, Zenon DEF Needs
<1>5. TableOK' = TableOK
  BY <1>1, <1>2 DEF TableOK, What, Thing
<1>6. QED
  BY <1>1, <1>2, <1>3, <1>4, <1>5, Zenon DEF Fixed

-----------------------------------------------------------------------------
(* The calls *)

Frames == Indices \X (1 .. Len(table) + 1)

\* The calls under way, of which the innermost may have gone on, and has come to
\* no entry that it needs but j.
GoneOn(frames, j) ==
  /\ frames \in Seq(Frames) /\ Len(frames) = Len(stack)
  /\ \A l \in 1 .. Len(stack) : frames[l][1] = Entry(l)
  /\ \A l \in 1 .. Len(stack) - 1 : frames[l] = stack[l]
  /\ stack # << >> => \A x \in Indices :
       Needs(Top[1], x) /\ Seen(frames[Len(stack)], x) => x = j \/ Seen(Top, x)

\* No call has ended.
Kept ==
  /\ stack' \in Seq(Frames) /\ mounted' \in [Indices -> BOOLEAN]
  /\ Nested' /\ Visited' /\ \A x \in Indices : Finished(x)' = Finished(x)
  /\ \A x \in Indices : ~mounted[x] => ~mounted'[x]

LEMMA StackTypes ==
  ASSUME TypeOK
  PROVE  /\ Len(stack) \in Nat /\ stack \in Seq(Frames)
         /\ \A l \in 1 .. Len(stack) : Entry(l) \in Indices
         /\ stack # << >> => /\ Len(stack) \in 1 .. Len(stack) /\ Top = stack[Len(stack)]
                             /\ Top[1] = Entry(Len(stack)) /\ Top \in Frames
         /\ mounted \in [Indices -> BOOLEAN]
<1>1. Len(stack) \in Nat /\ stack \in Seq(Frames)
  BY DEF TypeOK, Indices, Frames
<1>2. \A l \in 1 .. Len(stack) : stack[l] \in Frames
  BY <1>1
<1>3. \A l \in 1 .. Len(stack) : Entry(l) \in Indices
  BY <1>2, Zenon DEF Entry, Frames
<1>4. stack # << >> => Len(stack) \in 1 .. Len(stack)
  BY <1>1
<1>5. QED
  BY <1>1, <1>2, <1>3, <1>4, Zenon DEF Top, Entry, TypeOK, Indices

LEMMA WentOn ==
  ASSUME TypeOK, Fixed, Nested, Visited, NEW frames, GoneOn(frames, 0), stack' = frames,
         UNCHANGED mounted
  PROVE  Kept
<1> USE StackTypes
<1>1. /\ stack' \in Seq(Frames) /\ Len(stack') = Len(stack) /\ Indices' = Indices
      /\ \A l \in 1 .. Len(stack) : Entry(l)' = Entry(l)
  BY Zenon DEF GoneOn, Entry, Fixed
<1>2. Nested'
  <2>1. \A l \in 1 .. Len(stack) : Rank(Entry(l))' = Rank(Entry(l))
    BY <1>1, Zenon DEF Fixed
  <2>2. QED
    BY <1>1, <2>1, Zenon DEF Nested
<1>3. \A x \in Indices : Finished(x)' = Finished(x)
  BY <1>1, Zenon DEF Finished
<1>4. Visited'
  <2>1. SUFFICES ASSUME NEW l \in 1 .. Len(stack), NEW j \in Indices,
                        Needs(Entry(l), j), Seen(stack[l], j)'
                 PROVE  Finished(j) \/ \E m \in l + 1 .. Len(stack) : Entry(m) = j
    BY <1>1, <1>3 DEF Visited, Fixed
  <2>2. Seen(stack'[l], j)
    BY <1>1, <2>1, Zenon DEF Seen, Entry, Fixed
  <2>3. Seen(stack[l], j)
    <3>1. CASE l = Len(stack)
      BY <2>1, <2>2, <3>1 DEF GoneOn, Indices
    <3>2. CASE l # Len(stack)
      BY <2>2, <3>2 DEF GoneOn
    <3>3. QED
      BY <3>1, <3>2, Zenon
  <2>4. QED
    BY <2>1, <2>3, Zenon DEF Visited
<1>5. QED
  BY <1>1, <1>2, <1>3, <1>4, Zenon DEF Kept

LEMMA Called ==
  ASSUME TypeOK, Fixed, Nested, Visited, NEW frames, NEW j \in Indices, GoneOn(frames, j),
         Call(j, frames), stack # << >> => Needs(Top[1], j)
  PROVE  Kept /\ ~mounted'[j]
<1> USE StackTypes
<1>1. \A l \in 1 .. Len(stack) : Rank(Entry(l)) < Rank(j)
  <2>1. SUFFICES ASSUME NEW l \in 1 .. Len(stack) PROVE Rank(Entry(l)) < Rank(j)
    BY Zenon
  <2>2. stack # << >> /\ Rank(Top[1]) < Rank(j)
    BY <2>1, NeedsRank
  <2>3. Rank(Entry(l)) \in Int /\ Rank(Top[1]) \in Int /\ Rank(j) \in Int
    BY <2>1, <2>2, EntryTypes, Zenon
  <2>4. l = Len(stack) \/ Rank(Entry(l)) < Rank(Top[1])
    BY <2>2 DEF Nested
  <2>5. QED
    BY <2>2, <2>3, <2>4
<1>2. \A l \in 1 .. Len(stack) : Entry(l) # j
  BY <1>1, EntryTypes
<1>3. CASE ~mounted[j]
  <2>1. Finished(j) /\ stack' = frames /\ UNCHANGED mounted
    BY <1>2, <1>3, Zenon DEF Finished, Call
  <2>2. /\ stack' \in Seq(Frames) /\ Len(stack') = Len(stack) /\ Indices' = Indices
        /\ \A l \in 1 .. Len(stack) : Entry(l)' = Entry(l)
    BY <2>1, Zenon DEF GoneOn, Entry, Fixed
  <2>3. Nested'
    BY <2>1, <2>2 DEF Nested, Fixed
  <2>4. \A x \in Indices : Finished(x)' = Finished(x)
    BY <2>1, <2>2, Zenon DEF Finished
  <2>5. Visited'
    <3>1. SUFFICES ASSUME NEW l \in 1 .. Len(stack), NEW x \in Indices,
                          Needs(Entry(l), x), Seen(stack[l], x)'
                   PROVE  Finished(x) \/ \E m \in l + 1 .. Len(stack) : Entry(m) = x
      BY <2>2, <2>4 DEF Visited, Fixed
    <3>2. Seen(frames[l], x)
      BY <2>1, <2>2, <3>1, Zenon DEF Seen, Entry, Fixed
    <3>3. x = j \/ Seen(stack[l], x)
      <4>1. CASE l = Len(stack)
        BY <3>1, <3>2, <4>1 DEF GoneOn
      <4>2. CASE l # Len(stack)
        BY <3>2, <4>2 DEF GoneOn
      <4>3. QED
        BY <4>1, <4>2, Zenon
    <3>4. QED
      BY <2>1, <3>1, <3>3, Zenon DEF Visited
  <2>6. QED
    BY <1>3, <2>1, <2>2, <2>3, <2>4, <2>5, Zenon DEF Kept
<1>4. CASE mounted[j]
  <2>1. /\ mounted' = [mounted EXCEPT ![j] = FALSE] /\ stack' = Append(frames, <<j, 1>>)
        /\ frames \in Seq(Frames) /\ Len(frames) = Len(stack) /\ Indices' = Indices
    BY <1>4, Zenon DEF Call, GoneOn, Fixed
  <2>2. <<j, 1>> \in Frames
    BY DEF Frames, Indices
  <2>3. /\ stack' \in Seq(Frames) /\ Len(stack') = Len(stack) + 1
        /\ stack'[Len(stack) + 1] = <<j, 1>>
        /\ \A l \in 1 .. Len(stack) : stack'[l] = frames[l]
    BY <2>1, <2>2
  <2>4. /\ \A l \in 1 .. Len(stack) : Entry(l)' = Entry(l)
        /\ \A l \in 1 .. Len(stack) + 1 : l = Len(stack) + 1 => Entry(l)' = j
    <3>1. \A l \in 1 .. Len(stack) : stack'[l][1] = Entry(l)
      BY <2>3, Zenon DEF GoneOn
    <3>2. \A l \in 1 .. Len(stack) + 1 : l = Len(stack) + 1 => stack'[l][1] = j
      BY <2>3
    <3>3. QED
      BY <3>1, <3>2, Zenon DEF Entry
  <2>5. Nested'
    <3>1. \A l \in 1 .. Len(stack') : ~mounted'[Entry(l)']
      BY <2>1, <2>3, <2>4 DEF Nested
    <3>2. \A l, m \in 1 .. Len(stack') : l < m => Rank(Entry(l))' < Rank(Entry(m))'
      <4>1. SUFFICES ASSUME NEW l \in 1 .. Len(stack'), NEW m \in 1 .. Len(stack'), l < m
                     PROVE  Rank(Entry(l))' < Rank(Entry(m))'
        BY Zenon
      <4>2. l \in 1 .. Len(stack) /\ (m \in 1 .. Len(stack) \/ m = Len(stack) + 1)
        BY <2>3, <4>1
      <4>3. Entry(l)' = Entry(l) /\ Rank(Entry(l))' = Rank(Entry(l))
        BY <2>4, <4>2, Zenon DEF Fixed
      <4>4. CASE m \in 1 .. Len(stack)
        <5>1. Entry(m)' = Entry(m) /\ Rank(Entry(m))' = Rank(Entry(m))
          BY <2>4, <4>4, Zenon DEF Fixed
        <5>2. QED
          BY <4>1, <4>2, <4>3, <4>4, <5>1, Zenon DEF Nested
      <4>5. CASE m = Len(stack) + 1
        <5>1. Entry(m)' = j /\ Rank(Entry(m))' = Rank(j)
          BY <2>3, <2>4, <4>1, <4>5, Zenon DEF Fixed
        <5>2. QED
          BY <1>1, <4>2, <4>3, <5>1, Zenon
      <4>6. QED
        BY <4>2, <4>4, <4>5, Zenon
    <3>3. QED
      BY <3>1, <3>2, Zenon DEF Nested
  <2>6. \A x \in Indices : Finished(x)' = Finished(x)
    <3>1. SUFFICES ASSUME NEW x \in Indices PROVE Finished(x)' = Finished(x)
      BY Zenon
    <3>2. CASE x = j
      BY <1>4, <2>3, <2>4, <3>2 DEF Finished
    <3>3. CASE x # j
      <4>1. mounted'[x] = mounted[x]
        BY <2>1, <3>3, Zenon
      <4>2. (\A l \in 1 .. Len(stack') : Entry(l)' # x) <=> (\A l \in 1 .. Len(stack) : Entry(l) # x)
        <5>1. \A l \in 1 .. Len(stack') : l \in 1 .. Len(stack) \/ l = Len(stack) + 1
          BY <2>3
        <5>2. \A l \in 1 .. Len(stack) : l \in 1 .. Len(stack')
          BY <2>3
        <5>3. QED
          BY <2>4, <3>3, <5>1, <5>2
      <4>3. QED
        BY <4>1, <4>2, Zenon DEF Finished
    <3>4. QED
      BY <3>2, <3>3, Zenon
  <2>7. Visited'
    <3>1. SUFFICES ASSUME NEW l \in 1 .. Len(stack) + 1, NEW x \in Indices,
                          Needs(Entry(l), x)', Seen(stack[l], x)'
                   PROVE  Finished(x) \/ \E m \in l + 1 .. Len(stack) + 1 : Entry(m)' = x
      BY <2>1, <2>3, <2>6, Zenon DEF Visited
    <3>2. CASE l = Len(stack) + 1
      BY <2>3, <3>1, <3>2 DEF Seen, Indices
    <3>3. CASE l \in 1 .. Len(stack)
      <4>1. Needs(Entry(l), x) /\ Seen(frames[l], x)
        <5>1. Entry(l)' = Entry(l) /\ Entry(l) \in Indices /\ frames[l][1] = Entry(l)
              /\ stack'[l] = frames[l]
          BY <2>3, <2>4, <3>3, Zenon DEF GoneOn
        <5>2. QED
          BY <3>1, <5>1, Zenon DEF Seen, Fixed
      <4>2. (l = Len(stack) /\ x = j) \/ Seen(stack[l], x)
        BY <3>3, <4>1 DEF GoneOn
      <4>3. CASE l = Len(stack) /\ x = j
        BY <2>4, <4>3
      <4>4. CASE Seen(stack[l], x)
        <5>1. Finished(x) \/ \E m \in l + 1 .. Len(stack) : Entry(m) = x
          BY <3>3, <4>1, <4>4, Zenon DEF Visited
        <5>2. QED
          BY <2>4, <3>3, <5>1
      <4>5. QED
        BY <4>2, <4>3, <4>4, Zenon
    <3>4. QED
      BY <3>2, <3>3
  <2>8. \A x \in Indices : ~mounted[x] => ~mounted'[x]
    BY <2>1, Zenon
  <2>9. mounted' \in [Indices -> BOOLEAN] /\ ~mounted'[j]
    BY <2>1, Zenon
  <2>10. QED
    BY <2>3, <2>5, <2>6, <2>7, <2>8, <2>9, Zenon DEF Kept
<1>5. QED
  BY <1>3, <1>4, Zenon

LEMMA Returned ==
  ASSUME TypeOK, Fixed, Nested, Visited, stack # << >>, stack' = SubSeq(stack, 1, Len(stack) - 1),
         UNCHANGED mounted
  PROVE  /\ stack' \in Seq(Frames) /\ Nested' /\ Visited'
         /\ \A x \in Indices : Finished(x)' <=> Finished(x) \/ x = Top[1]
<1> USE StackTypes
<1>1. /\ stack' \in Seq(Frames) /\ Len(stack') = Len(stack) - 1 /\ Indices' = Indices
      /\ \A l \in 1 .. Len(stack) - 1 : stack'[l] = stack[l]
  <2>1. stack' = SubSeq(stack, 1, Len(stack) - 1) /\ Indices' = Indices
    BY Zenon DEF Fixed
  <2>2. Len(stack) - 1 \in Nat /\ \A l \in 1 .. Len(stack) - 1 : stack[l] \in Frames
    OBVIOUS
  <2> DEFINE n == Len(stack) - 1
             front == SubSeq(stack, 1, n)
  <2>3. /\ front \in Seq(Frames) /\ Len(front) = IF 1 <= n THEN n - 1 + 1 ELSE 0
        /\ \A l \in 1 .. n - 1 + 1 : front[l] = stack[1 + l - 1]
    BY <2>2, SubSeqProperties
  <2>4. n \in Nat /\ front = stack'
    BY <2>1, <2>2, Zenon
  <2> HIDE DEF front, n
  <2>5. Len(front) = n
    BY <2>3, <2>4
  <2>6. ASSUME NEW l \in 1 .. n PROVE front[l] = stack[l]
    <3>1. l \in 1 .. n - 1 + 1 /\ 1 + l - 1 = l
      BY <2>4
    <3>2. QED
      BY <2>3, <3>1, Zenon
  <2>7. QED
    BY <2>1, <2>3, <2>4, <2>5, <2>6, Zenon DEF n
<1>2. \A l \in 1 .. Len(stack) - 1 : Entry(l)' = Entry(l) /\ l \in 1 .. Len(stack)
  BY <1>1 DEF Entry
<1>3. Nested'
  BY <1>1, <1>2 DEF Nested, Fixed
<1>4. \A x \in Indices : Finished(x)' <=> Finished(x) \/ x = Top[1]
  <2>1. SUFFICES ASSUME NEW x \in Indices PROVE Finished(x)' <=> Finished(x) \/ x = Top[1]
    BY Zenon
  <2>2. CASE x = Top[1]
    <3>1. ~mounted[x]
      BY <2>2, Zenon DEF Nested
    <3>2. \A l \in 1 .. Len(stack) - 1 : Rank(Entry(l)) < Rank(x)
      BY <1>2, <2>2 DEF Nested
    <3>3. Rank(x) \in Int
      BY EntryTypes, Zenon
    <3>4. \A l \in 1 .. Len(stack) - 1 : Entry(l) # x
      BY <3>2, <3>3
    <3>5. QED
      BY <1>1, <1>2, <2>2, <3>1, <3>4, Zenon DEF Finished
  <2>3. CASE x # Top[1]
    <3>1. \A l \in 1 .. Len(stack) : l \in 1 .. Len(stack) - 1 \/ Entry(l) = Top[1]
      OBVIOUS
    <3>2. QED
      BY <1>1, <1>2, <2>3, <3>1, Zenon DEF Finished
  <2>4. QED
    BY <2>2, <2>3, Zenon
<1>5. Visited'
  <2>1. SUFFICES ASSUME NEW l \in 1 .. Len(stack) - 1, NEW x \in Indices,
                        Needs(Entry(l), x)', Seen(stack[l], x)'
                 PROVE  Finished(x)' \/ \E m \in l + 1 .. Len(stack) - 1 : Entry(m)' = x
    BY <1>1, Zenon DEF Visited
  <2>2. Entry(l)' = Entry(l) /\ Entry(l) \in Indices /\ stack'[l] = stack[l]
        /\ stack[l][1] = Entry(l)
    BY <1>1, <1>2, <2>1, Zenon DEF Entry
  <2>3. Needs(Entry(l), x) /\ Seen(stack[l], x)
    BY <2>1, <2>2, Zenon DEF Seen, Fixed
  <2>4. Finished(x) \/ \E m \in l + 1 .. Len(stack) : Entry(m) = x
    BY <2>1, <2>3 DEF Visited
  <2>5. \A m \in l + 1 .. Len(stack) : m \in l + 1 .. Len(stack) - 1 \/ Entry(m) = Top[1]
    BY <2>1
  <2>6. \A m \in l + 1 .. Len(stack) - 1 : Entry(m)' = Entry(m)
    BY <1>2, <2>1
  <2>7. QED
    BY <1>4, <2>4, <2>5, <2>6, Zenon
<1>6. QED
  BY <1>1, <1>3, <1>4, <1>5, Zenon

-----------------------------------------------------------------------------
(* What the invariant says at the end of a call and at the end of the scan *)

LEMMA AtMountEnd ==
  ASSUME IInv, stack # << >>, What(Top[1]) = "FS", Top[2] > Len(table)
  PROVE  /\ Thing(Top[1]) \in inUse \ refused /\ ~Finished(Top[1])
         /\ \A j \in Indices : Needs(Top[1], j) => Finished(j)
<1> USE StackTypes DEF IInv
<1>1. ~Finished(Top[1]) /\ Top[1] \in Indices
  BY Zenon DEF Finished
<1>2. Thing(Top[1]) \in inUse \ refused
  BY <1>1, Zenon DEF Gone
<1>3. ASSUME NEW j \in Indices, Needs(Top[1], j) PROVE Finished(j)
  <2>1. Seen(stack[Len(stack)], j)
    BY DEF Seen, Indices, TypeOK, Frames
  <2>2. QED
    BY <1>3, <2>1 DEF Visited
<1>4. QED
  BY <1>1, <1>2, <1>3, Zenon

\* umount2() is called for leaves.
LEMMA InvLeavesFirst == IInv => LeavesFirst
<1> SUFFICES ASSUME IInv, stack # << >>, What(Top[1]) = "FS", Top[2] > Len(table)
             PROVE  /\ Thing(Top[1]) \in inUse \ refused
                    /\ \A t \in inUse : Thing(Top[1]) \in Above(t) => t \in refused
  BY Zenon DEF LeavesFirst
<1> USE DEF IInv
<1>1. Thing(Top[1]) \in inUse \ refused
  BY AtMountEnd, Zenon
<1>2. ASSUME NEW t \in inUse, Thing(Top[1]) \in Above(t) PROVE t \in refused
  <2>1. PICK j \in Indices : What(j) = "FS" /\ Thing(j) = t
    BY Zenon DEF TypeOK, TableOK
  <2>2. Needs(Top[1], j)
    BY <1>2, <2>1, Zenon DEF Needs, Underneath
  <2>3. Finished(j)
    BY <2>2, AtMountEnd, Zenon
  <2>4. QED
    BY <2>1, <2>3, Zenon DEF Gone
<1>3. QED
  BY <1>1, <1>2, Zenon

\* Every loop device that has its file on what umount2() takes away has been tried.
LEMMA NoFileOnTop ==
  ASSUME IInv, stack # << >>, What(Top[1]) = "FS", Top[2] > Len(table), NEW t \in attached,
         OnOrUnder(back[t], Thing(Top[1]))
  PROVE  t \in kept
<1> USE DEF IInv
<1>1. PICK j \in Indices : What(j) = "LOOP" /\ Thing(j) = t
  BY Zenon DEF TypeOK, TableOK
<1>2. Needs(Top[1], j)
  BY <1>1, Zenon DEF Needs, Underneath
<1>3. Finished(j)
  BY <1>2, AtMountEnd, Zenon
<1>4. QED
  BY <1>1, <1>3, Zenon DEF Gone

\* LOOP_CLR_FD is called for devices that are not mounted, or refused by umount2().
LEMMA InvClearIdle == IInv => ClearIdle
<1> SUFFICES ASSUME IInv, stack # << >>, What(Top[1]) = "LOOP", Top[2] = 2,
                    Thing(Top[1]) \in inUse
             PROVE  Thing(Top[1]) \in refused
  BY Zenon DEF ClearIdle
<1> USE StackTypes DEF IInv
<1>1. Top[1] \in Indices /\ Thing(Top[1]) \in Loops /\ Thing(Top[1]) \in Fs
  <2>1. Top[1] \in Indices
    BY Zenon
  <2>2. Thing(Top[1]) \in Loops
    <3>1. What(Top[1]) # "FS"
      OBVIOUS
    <3>2. QED
      BY <2>1, <3>1, Zenon DEF TableOK
  <2>3. Thing(Top[1]) \in Fs
    BY Zenon DEF TypeOK
  <2>4. QED
    BY <2>1, <2>2, <2>3, Zenon
<1>2. PICK j \in Indices : What(j) = "FS" /\ Thing(j) = Thing(Top[1])
  BY <1>1, Zenon DEF TableOK
<1>3. kind[Thing(j)] = "loopfs"
  BY <1>1, <1>2, Zenon DEF Loops, Fs
<1>4. Needs(Top[1], j) /\ Seen(stack[Len(stack)], j)
  BY <1>2, <1>3, Zenon DEF Needs, DeviceMounts, Seen, Indices
<1>5. Finished(j)
  BY <1>4 DEF Visited
<1>6. QED
  BY <1>2, <1>5, Zenon DEF Gone

LEMMA InvAllUndone == IInv => AllUndone
<1> SUFFICES ASSUME IInv, scan[1] = "done" PROVE inUse \subseteq refused /\ attached \subseteq kept
  BY Zenon DEF AllUndone
<1>1. \A i \in Indices : Finished(i)
  BY DEF IInv, Scanned, Finished
<1>2. \A t \in Fs : t \in inUse => t \in refused
  BY <1>1 DEF IInv, TableOK, Gone
<1>3. \A t \in Loops : t \in attached => t \in kept
  BY <1>1 DEF IInv, TableOK, Gone
<1>4. QED
  BY <1>2, <1>3, Zenon DEF IInv, TypeOK

-----------------------------------------------------------------------------
(* The table that unmountFilesystems reads *)

LEMMA ListingFacts ==
  ASSUME NEW S, NEW s \in Listings(S)
  PROVE  /\ s \in Seq(S) /\ Len(s) \in Nat
         /\ \A i, j \in 1 .. Len(s) : s[i] = s[j] => i = j
         /\ \A t \in S : \E i \in 1 .. Len(s) : s[i] = t
<1>1. PICK n \in 0 .. N : s \in Bijection(1 .. n, S)
  BY Zenon DEF Listings
<1>2. /\ n \in Nat /\ s \in [1 .. n -> S]
      /\ \A i, j \in 1 .. n : s[i] = s[j] => i = j
      /\ \A t \in S : \E i \in 1 .. n : s[i] = t
  BY <1>1, NAssumption DEF Bijection, Injection, Surjection, IsInjective
<1>3. s \in Seq(S) /\ Len(s) = n
  BY <1>2
<1>4. QED
  BY <1>2, <1>3, Zenon

LEMMA EntriesFacts ==
  ASSUME NEW what \in {"FS", "LOOP"}, NEW S \in SUBSET Things, NEW s \in Seq(S)
  PROVE  /\ Entries(what, s) \in Seq({"FS", "LOOP"} \X Things)
         /\ Len(Entries(what, s)) = Len(s)
         /\ \A i \in 1 .. Len(s) : Entries(what, s)[i] = <<what, s[i]>>
  BY DEF Entries

LEMMA TableRead ==
  ASSUME NEW mounts \in Listings(Fs), NEW loops \in Listings(Loops),
         table = ReadTable(mounts, loops)
  PROVE  table \in Seq({"FS", "LOOP"} \X Things) /\ TableOK
<1> DEFINE m == Len(mounts)
           k == Len(loops)
           fs == Entries("FS", mounts)
           ls == Entries("LOOP", loops)
<1>1. Fs \in SUBSET Things /\ Loops \in SUBSET Things
  BY Zenon DEF Fs, Loops
<1>2. /\ mounts \in Seq(Fs) /\ m \in Nat /\ \A i \in 1 .. m : mounts[i] \in Fs
      /\ \A i, j \in 1 .. m : mounts[i] = mounts[j] => i = j
      /\ \A t \in Fs : \E i \in 1 .. m : mounts[i] = t
  BY ListingFacts
<1>3. /\ loops \in Seq(Loops) /\ k \in Nat /\ \A i \in 1 .. k : loops[i] \in Loops
      /\ \A i, j \in 1 .. k : loops[i] = loops[j] => i = j
      /\ \A t \in Loops : \E i \in 1 .. k : loops[i] = t
  BY ListingFacts
<1>4. /\ fs \in Seq({"FS", "LOOP"} \X Things) /\ Len(fs) = m
      /\ \A i \in 1 .. m : fs[i] = <<"FS", mounts[i]>>
  BY <1>1, <1>2, EntriesFacts, Zenon
<1>5. /\ ls \in Seq({"FS", "LOOP"} \X Things) /\ Len(ls) = k
      /\ \A i \in 1 .. k : ls[i] = <<"LOOP", loops[i]>>
  BY <1>1, <1>3, EntriesFacts, Zenon
<1>6. table = fs \o ls
  BY Zenon DEF ReadTable
<1> HIDE DEF m, k, fs, ls
<1>7. /\ table \in Seq({"FS", "LOOP"} \X Things) /\ Len(table) = m + k
      /\ \A i \in 1 .. m : table[i] = fs[i]
      /\ \A i \in 1 .. k : table[m + i] = ls[i]
  <2>1. /\ table \in Seq({"FS", "LOOP"} \X Things) /\ Len(table) = m + k
        /\ \A i \in 1 .. m + k : table[i] = IF i <= m THEN fs[i] ELSE ls[i - m]
    <3> DEFINE R == {"FS", "LOOP"} \X Things
    <3>1. fs \in Seq(R) /\ ls \in Seq(R)
      BY <1>4, <1>5, Zenon
    <3> HIDE DEF R
    <3>2. /\ fs \o ls \in Seq(R) /\ Len(fs \o ls) = Len(fs) + Len(ls)
          /\ \A i \in 1 .. Len(fs) + Len(ls) :
               (fs \o ls)[i] = IF i <= Len(fs) THEN fs[i] ELSE ls[i - Len(fs)]
      BY <3>1, ConcatProperties, Zenon
    <3>3. QED
      BY <1>4, <1>5, <1>6, <3>2, Zenon DEF R
  <2>2. ASSUME NEW i \in 1 .. m PROVE table[i] = fs[i]
    BY <1>2, <1>3, <2>1
  <2>3. ASSUME NEW i \in 1 .. k PROVE table[m + i] = ls[i]
    <3>1. m + i \in 1 .. m + k /\ ~(m + i <= m) /\ (m + i) - m = i
      BY <1>2, <1>3
    <3>2. QED
      BY <2>1, <3>1, Zenon
  <2>4. QED
    BY <2>1, <2>2, <2>3, Zenon
<1>8. \A i \in 1 .. m : i \in Indices /\ What(i) = "FS" /\ Thing(i) = mounts[i]
  BY <1>2, <1>3, <1>4, <1>7 DEF Indices, What, Thing
<1>9. \A i \in 1 .. k : m + i \in Indices /\ What(m + i) = "LOOP" /\ Thing(m + i) = loops[i]
  BY <1>2, <1>3, <1>5, <1>7 DEF Indices, What, Thing
<1>10. \A i \in Indices : i \in 1 .. m \/ \E j \in 1 .. k : i = m + j
  <2>1. SUFFICES ASSUME NEW i \in Indices, i \notin 1 .. m PROVE \E j \in 1 .. k : i = m + j
    BY Zenon
  <2>2. i - m \in 1 .. k /\ i = m + (i - m)
    BY <1>2, <1>3, <1>7, <2>1 DEF Indices
  <2>3. QED
    BY <2>2, Zenon
<1>11. \A i \in Indices : \/ What(i) = "FS" /\ Thing(i) \in Fs
                          \/ What(i) = "LOOP" /\ Thing(i) \in Loops
  <2>1. \A i \in 1 .. m : What(i) = "FS" /\ Thing(i) \in Fs
    BY <1>2, <1>8, Zenon
  <2>2. \A j \in 1 .. k : What(m + j) = "LOOP" /\ Thing(m + j) \in Loops
    BY <1>3, <1>9
  <2>3. QED
    BY <1>10, <2>1, <2>2, Zenon
<1>12. \A t \in Fs : \E i \in Indices : What(i) = "FS" /\ Thing(i) = t
  BY <1>2, <1>8, Zenon
<1>13. \A t \in Loops : \E i \in Indices : What(i) = "LOOP" /\ Thing(i) = t
  BY <1>3, <1>9, Zenon
<1>14. ASSUME NEW i \in Indices, NEW j \in Indices, What(i) = What(j), Thing(i) = Thing(j)
       PROVE  i = j
  <2>1. CASE What(i) = "FS"
    <3>1. i \in 1 .. m /\ j \in 1 .. m
      BY <1>9, <1>10, <1>14, <2>1, Zenon
    <3>2. QED
      BY <1>2, <1>8, <1>14, <3>1
  <2>2. CASE What(i) # "FS"
    <3>1. PICK a \in 1 .. k : i = m + a
      BY <1>8, <1>10, <2>2, Zenon
    <3>2. PICK b \in 1 .. k : j = m + b
      BY <1>8, <1>10, <1>14, <2>2, Zenon
    <3>3. loops[a] = loops[b]
      BY <1>9, <1>14, <3>1, <3>2, Zenon
    <3>4. QED
      BY <1>3, <3>1, <3>2, <3>3, Zenon
  <2>3. QED
    BY <2>1, <2>2, Zenon
<1>15. QED
  BY <1>7, <1>11, <1>12, <1>13, <1>14, Zenon DEF TableOK

LEMMA InitIInv == Init => IInv
<1> SUFFICES ASSUME Init PROVE IInv
  BY Zenon
<1>1. table \in Seq({"FS", "LOOP"} \X Things) /\ TableOK
  BY TableRead, Zenon DEF Init
<1>2. stack = << >> /\ Len(stack) = 0 /\ mounted = [i \in Indices |-> TRUE]
  BY Zenon DEF Init, Indices
<1>3. TypeOK
  BY <1>1, <1>2 DEF Init, TypeOK, Indices
<1>4. Nested /\ Visited /\ \A i \in Indices : ~Finished(i)
  BY <1>2 DEF Nested, Visited, Finished
<1>5. Gone
  BY <1>1, <1>4, Zenon DEF Init, Gone, TableOK
<1>6. FileBeforeDevice
  <2>1. \A t \in Things : back[t] # 0 => back[t] \in Things /\ kind[back[t]] # "loop"
    BY NAssumption, SMTT(20) DEF Init, History, Things
  <2>2. \A t \in Things : kind[t] # "loop" => t \in Fs
    BY Zenon DEF Init, History, Fs, Kinds
  <2>3. attached \subseteq Things /\ inUse = Fs
    BY Zenon DEF Init, Loops
  <2>4. QED
    BY <2>1, <2>2, <2>3, Zenon DEF FileBeforeDevice
<1>7. Scanned
  BY DEF Init, Scanned
<1>8. QED
  BY <1>1, <1>3, <1>4, <1>5, <1>6, <1>7, Zenon DEF IInv

-----------------------------------------------------------------------------
(* The steps *)

LEMMA KeptIInv ==
  ASSUME IInv, Fixed, Kept, UNCHANGED system,
         scan' \in {"loops", "mounts", "done"} \X Nat, Scanned'
  PROVE  IInv'
<1>1. TypeOK'
  <2>1. History'
    BY Zenon DEF IInv, TypeOK, History, Fixed
  <2>2. table' \in Seq({"FS", "LOOP"} \X Things)
        /\ inUse' \subseteq Fs' /\ attached' \subseteq Loops'
        /\ refused' \subseteq Fs' /\ kept' \subseteq Loops'
    BY Zenon DEF IInv, TypeOK, Fixed, system
  <2>3. mounted' \in [1 .. Len(table') -> BOOLEAN]
        /\ stack' \in Seq((1 .. Len(table')) \X (1 .. Len(table') + 1))
    BY Zenon DEF Kept, Frames, Indices, Fixed
  <2>4. QED
    BY <2>1, <2>2, <2>3, Zenon DEF TypeOK
<1>2. TableOK' /\ Nested' /\ Visited'
  BY Zenon DEF IInv, Fixed, Kept
<1>3. Gone'
  BY Zenon DEF IInv, Fixed, Kept, Gone, system
<1>4. FileBeforeDevice'
  BY Zenon DEF IInv, Fixed, FileBeforeDevice, system
<1>5. QED
  BY <1>1, <1>2, <1>3, <1>4, Zenon DEF IInv

\* A call of unmountFilesystems itself.
LEMMA CalledFirst ==
  ASSUME IInv, Fixed, stack = << >>, NEW j \in Indices, Call(j, << >>)
  PROVE  Kept /\ ~mounted'[j]
<1>1. GoneOn(<< >>, j)
  BY DEF GoneOn
<1>2. QED
  BY <1>1, Called, Zenon DEF IInv

LEMMA Idle ==
  ASSUME IInv, Fixed, UNCHANGED <<mounted, stack>>
  PROVE  Kept
<1>1. GoneOn(stack, 0)
  BY StackTypes, Zenon DEF GoneOn, IInv, Entry
<1>2. QED
  BY <1>1, WentOn, Zenon DEF IInv

LEMMA StepScanLoops == IInv /\ ScanLoops => IInv'
<1> SUFFICES ASSUME IInv, ScanLoops PROVE IInv'
  BY Zenon
<1>1. Fixed /\ UNCHANGED system /\ stack = << >>
  BY WorldFixed, Zenon DEF ScanLoops
<1>2. /\ scan \in {"loops", "mounts", "done"} \X Nat /\ scan[1] = "loops" /\ scan[2] \in Nat \ {0}
      /\ Len(table) \in Nat
  BY DEF IInv, TypeOK, ScanLoops, Scanned
<1>3. CASE scan[2] > Len(table)
  <2>1. scan' = <<"mounts", 1>> /\ Kept
    BY <1>1, <1>3, Idle, Zenon DEF ScanLoops
  <2>2. Scanned'
    BY <1>1, <2>1 DEF Scanned, Indices
  <2>3. QED
    BY <1>1, <2>1, <2>2, KeptIInv, Zenon
<1>4. CASE ~(scan[2] > Len(table))
  <2>1. scan[2] \in Indices /\ scan' = <<"loops", scan[2] + 1>>
    BY <1>2, <1>4 DEF ScanLoops, Indices
  <2>2. Kept
    <3>1. CASE What(scan[2]) = "LOOP"
      BY <1>1, <1>4, <2>1, <3>1, CalledFirst, Zenon DEF ScanLoops
    <3>2. CASE What(scan[2]) # "LOOP"
      BY <1>1, <1>4, <3>2, Idle, Zenon DEF ScanLoops
    <3>3. QED
      BY <3>1, <3>2, Zenon
  <2>3. Scanned'
    BY <1>2, <2>1 DEF Scanned
  <2>4. QED
    BY <1>1, <1>2, <2>1, <2>2, <2>3, KeptIInv
<1>5. QED
  BY <1>3, <1>4, Zenon

LEMMA StepScanMounts == IInv /\ ScanMounts => IInv'
<1> SUFFICES ASSUME IInv, ScanMounts PROVE IInv'
  BY Zenon
<1>1. Fixed /\ UNCHANGED system /\ stack = << >>
  BY WorldFixed, Zenon DEF ScanMounts
<1>2. /\ scan[1] = "mounts" /\ scan[2] \in Nat \ {0} /\ Len(table) \in Nat
      /\ \A i \in Indices : i < scan[2] => ~mounted[i]
  BY DEF IInv, TypeOK, ScanMounts, Scanned
<1>3. CASE scan[2] > Len(table)
  <2>1. scan' = <<"done", 0>> /\ UNCHANGED <<mounted, stack>> /\ Kept
    BY <1>1, <1>3, Idle, Zenon DEF ScanMounts, ScanEnd
  <2>2. \A i \in Indices : ~mounted[i]
    BY <1>2, <1>3 DEF Indices
  <2>3. Scanned'
    BY <1>1, <2>1, <2>2, Zenon DEF Scanned, Fixed
  <2>4. QED
    BY <1>1, <2>1, <2>3, KeptIInv, Zenon
<1>4. CASE ~(scan[2] > Len(table))
  <2>1. scan[2] \in Indices /\ scan' = <<"mounts", scan[2] + 1>> /\ Call(scan[2], << >>)
    BY <1>2, <1>4 DEF ScanMounts, ScanEnd, Indices
  <2>2. Kept /\ ~mounted'[scan[2]]
    BY <1>1, <2>1, CalledFirst, Zenon
  <2>3. \A i \in Indices : i < scan[2] + 1 => i < scan[2] \/ i = scan[2]
    BY <1>2 DEF Indices
  <2>4. Scanned'
    BY <1>1, <1>2, <2>1, <2>2, <2>3 DEF Scanned, Fixed, Kept
  <2>5. QED
    BY <1>1, <1>2, <2>1, <2>2, <2>4, KeptIInv
<1>5. QED
  BY <1>3, <1>4, Zenon

\* Within a call of unmountFilesystems the scan stands still.
LEMMA ScanWaits ==
  ASSUME IInv, Fixed, stack # << >>, UNCHANGED scan,
         \A x \in Indices : ~mounted[x] => ~mounted'[x]
  PROVE  scan' \in {"loops", "mounts", "done"} \X Nat /\ Scanned'
<1>1. scan[1] # "done" /\ scan \in {"loops", "mounts", "done"} \X Nat
  BY Zenon DEF IInv, Scanned, TypeOK
<1>2. QED
  BY <1>1, Zenon DEF IInv, Scanned, Fixed

\* The innermost call goes on to another turn.
LEMMA Replaced ==
  ASSUME IInv, stack # << >>, NEW frame \in Frames, frame[1] = Top[1], NEW j,
         \A x \in Indices : Needs(Top[1], x) /\ Seen(frame, x) => x = j \/ Seen(Top, x)
  PROVE  GoneOn([stack EXCEPT ![Len(stack)] = frame], j)
<1> DEFINE frames == [stack EXCEPT ![Len(stack)] = frame]
<1>1. /\ Len(stack) \in 1 .. Len(stack) /\ stack \in Seq(Frames) /\ Top = stack[Len(stack)]
      /\ Top[1] = Entry(Len(stack))
  BY StackTypes, Zenon DEF IInv
<1>2. /\ frames \in Seq(Frames) /\ Len(frames) = Len(stack) /\ frames[Len(stack)] = frame
      /\ \A l \in 1 .. Len(stack) : l # Len(stack) => frames[l] = stack[l]
  BY <1>1
<1> HIDE DEF frames
<1>3. \A l \in 1 .. Len(stack) : frames[l][1] = Entry(l)
  BY <1>1, <1>2, Zenon DEF Entry
<1>4. \A l \in 1 .. Len(stack) - 1 : frames[l] = stack[l]
  BY <1>1, <1>2
<1>5. GoneOn(frames, j)
  BY <1>2, <1>3, <1>4, Zenon DEF GoneOn
<1>6. QED
  BY <1>5, Zenon DEF frames

LEMMA StepMountLoop == IInv /\ undoMountLoop => IInv'
<1> SUFFICES ASSUME IInv, undoMountLoop PROVE IInv'
  BY Zenon
<1> DEFINE frames == [stack EXCEPT ![Len(stack)] = Advance(Top)]
<1>1. /\ Fixed /\ UNCHANGED <<scan, system>> /\ stack # << >>
      /\ What(Top[1]) = "FS" /\ Top[2] <= Len(table)
      /\ IF Underneath(Top[1], Top[2]) THEN Call(Top[2], frames)
                                       ELSE UNCHANGED mounted /\ stack' = frames
  BY WorldFixed, Zenon DEF undoMountLoop
<1>2. Top \in Frames /\ Len(table) \in Nat
  BY <1>1, StackTypes DEF IInv, TypeOK
<1>3. /\ Top[1] \in Indices /\ Top[2] \in Indices /\ Top[2] \in Nat
      /\ Advance(Top) \in Frames /\ Advance(Top)[1] = Top[1]
  BY <1>1, <1>2 DEF Frames, Indices, Advance
<1>4. \A x \in Indices : Seen(Advance(Top), x) => x = Top[2] \/ Seen(Top, x)
  BY <1>1, <1>3 DEF Seen, Advance, Indices
<1> HIDE DEF frames
<1>5. Kept
  <2>1. CASE Underneath(Top[1], Top[2])
    <3>1. GoneOn(frames, Top[2])
      BY <1>1, <1>3, <1>4, Replaced, Zenon DEF frames
    <3>2. Needs(Top[1], Top[2]) /\ Call(Top[2], frames)
      BY <1>1, <2>1, Zenon DEF Needs
    <3>3. QED
      BY <1>1, <1>3, <3>1, <3>2, Called, Zenon DEF IInv
  <2>2. CASE ~Underneath(Top[1], Top[2])
    <3>1. ~Needs(Top[1], Top[2])
      BY <1>1, <2>2, Zenon DEF Needs
    <3>2. GoneOn(frames, 0)
      BY <1>1, <1>3, <1>4, <3>1, Replaced, Zenon DEF frames
    <3>3. QED
      BY <1>1, <2>2, <3>2, WentOn, Zenon DEF IInv
  <2>3. QED
    BY <2>1, <2>2, Zenon
<1>6. scan' \in {"loops", "mounts", "done"} \X Nat /\ Scanned'
  BY <1>1, <1>5, ScanWaits, Zenon DEF Kept
<1>7. QED
  BY <1>1, <1>5, <1>6, KeptIInv, Zenon

LEMMA StepLoopFind == IInv /\ undoLoopFind => IInv'
<1> SUFFICES ASSUME IInv, undoLoopFind PROVE IInv'
  BY Zenon
<1> DEFINE frame == <<Top[1], 2>>
           frames == [stack EXCEPT ![Len(stack)] = frame]
<1>1. /\ Fixed /\ UNCHANGED <<scan, system>> /\ stack # << >>
      /\ What(Top[1]) = "LOOP"
  <2>1. UNCHANGED world /\ UNCHANGED <<scan, system>>
    BY Zenon DEF undoLoopFind
  <2>2. QED
    BY <2>1, WorldFixed, Zenon DEF undoLoopFind
<1>2. \/ \E j \in DeviceMounts(Top[1]) : Call(j, frames)
      \/ DeviceMounts(Top[1]) = {} /\ stack' = frames /\ UNCHANGED mounted
  BY Zenon DEF undoLoopFind
<1>3. Top \in Frames /\ Len(table) \in Nat
  BY <1>1, StackTypes DEF IInv, TypeOK
<1>4. Top[1] \in Indices /\ frame \in Frames /\ frame[1] = Top[1]
  BY <1>3 DEF Frames, Indices
<1>5. \A x \in Indices : Needs(Top[1], x) <=> x \in DeviceMounts(Top[1])
  BY <1>1, Zenon DEF Needs
<1> HIDE DEF frame, frames
<1>6. Kept
  <2>1. CASE DeviceMounts(Top[1]) = {} /\ stack' = frames /\ UNCHANGED mounted
    <3>1. \A x \in Indices : ~Needs(Top[1], x)
      BY <1>5, <2>1, Zenon
    <3>2. GoneOn(frames, 0)
      BY <1>1, <1>4, <3>1, Replaced, Zenon DEF frames
    <3>3. QED
      BY <1>1, <2>1, <3>2, WentOn, Zenon DEF IInv
  <2>2. ASSUME NEW j \in DeviceMounts(Top[1]), Call(j, frames) PROVE Kept
    <3>1. j \in Indices
      BY Zenon DEF DeviceMounts, Indices
    <3>2. \A x \in Indices : Needs(Top[1], x) => x = j
      BY <1>5, <3>1 DEF DeviceMounts, IInv, TableOK
    <3>3. GoneOn(frames, j)
      BY <1>1, <1>4, <3>2, Replaced, Zenon DEF frames
    <3>4. Needs(Top[1], j)
      BY <1>5, <3>1, Zenon
    <3>5. QED
      BY <1>1, <2>2, <3>1, <3>3, <3>4, Called, Zenon DEF IInv
  <2>3. QED
    BY <1>2, <2>1, <2>2, Zenon
<1>7. scan' \in {"loops", "mounts", "done"} \X Nat /\ Scanned'
  BY <1>1, <1>6, ScanWaits, Zenon DEF Kept
<1>8. QED
  BY <1>1, <1>6, <1>7, KeptIInv, Zenon

\* A call that returns leaves the types of the rest as they were.
LEMMA ReturnTypes ==
  ASSUME IInv, Fixed, UNCHANGED <<mounted, scan>>, stack' \in Seq(Frames)
  PROVE  /\ History' /\ table' \in Seq({"FS", "LOOP"} \X Things)
         /\ mounted' \in [1 .. Len(table') -> BOOLEAN]
         /\ scan' \in {"loops", "mounts", "done"} \X Nat
         /\ stack' \in Seq((1 .. Len(table')) \X (1 .. Len(table') + 1))
<1>1. History'
  BY Zenon DEF IInv, TypeOK, History, Fixed
<1>2. stack' \in Seq((1 .. Len(table')) \X (1 .. Len(table') + 1))
  BY Zenon DEF Frames, Indices, Fixed
<1>3. QED
  BY <1>1, <1>2, Zenon DEF IInv, TypeOK, Fixed

LEMMA StepMountEnd == IInv /\ undoMountEnd => IInv'
<1> SUFFICES ASSUME IInv, undoMountEnd PROVE IInv'
  BY Zenon
<1> DEFINE this == Thing(Top[1])
<1>1. /\ Fixed /\ UNCHANGED <<mounted, scan, attached, kept>> /\ stack # << >>
      /\ stack' = SubSeq(stack, 1, Len(stack) - 1) /\ What(Top[1]) = "FS" /\ Top[2] > Len(table)
  BY WorldFixed, Zenon DEF undoMountEnd
<1>2. Top[1] \in Indices /\ this \in Fs
  BY <1>1, StackTypes, Zenon DEF IInv, TableOK
<1>3. /\ inUse' \subseteq inUse /\ refused \subseteq refused' /\ refused' \subseteq refused \cup {this}
      /\ this \in inUse' => this \in refused'
      /\ \A t \in inUse : t \notin inUse' => OnOrUnder(t, this)
  <2>1. CASE inUse' = {t \in inUse : ~OnOrUnder(t, this)} /\ UNCHANGED refused
    <3>1. this # 0
      BY <1>2, NAssumption DEF Fs, Things
    <3>2. QED
      BY <2>1, <3>1, Zenon DEF OnOrUnder
  <2>2. CASE refused' = refused \cup {this} /\ UNCHANGED inUse
    BY <2>2, Zenon
  <2>3. QED
    BY <2>1, <2>2, Zenon DEF undoMountEnd
<1>4. /\ stack' \in Seq(Frames) /\ Nested' /\ Visited'
      /\ \A x \in Indices : Finished(x)' <=> Finished(x) \/ x = Top[1]
  BY <1>1, Returned, Zenon DEF IInv
<1>5. TypeOK'
  BY <1>1, <1>2, <1>3, <1>4, ReturnTypes, Zenon DEF IInv, TypeOK, Fixed
<1>6. Gone'
  <2>1. ASSUME NEW i \in Indices, What(i) = "FS", ~Finished(i)'
        PROVE  Thing(i) \in inUse' \ refused'
    <3>1. ~Finished(i) /\ i # Top[1]
      BY <1>4, <2>1, Zenon
    <3>2. Thing(i) \in inUse \ refused
      BY <2>1, <3>1, Zenon DEF IInv, Gone
    <3>3. Thing(i) # this
      BY <1>1, <1>2, <2>1, <3>1, Zenon DEF IInv, TableOK
    <3>4. ~OnOrUnder(Thing(i), this)
      BY <1>1, <3>2, <3>3, InvLeavesFirst, Zenon DEF LeavesFirst, OnOrUnder
    <3>5. QED
      BY <1>3, <3>2, <3>3, <3>4, Zenon
  <2>2. ASSUME NEW i \in Indices, What(i) = "FS", Finished(i)', Thing(i) \in inUse'
        PROVE  Thing(i) \in refused'
    BY <1>3, <1>4, <2>2, Zenon DEF IInv, Gone
  <2>3. ASSUME NEW i \in Indices, What(i) # "FS"
        PROVE  /\ ~Finished(i)' => Thing(i) \in attached \ kept
               /\ Finished(i)' /\ Thing(i) \in attached => Thing(i) \in kept
    BY <1>1, <1>4, <2>3, Zenon DEF IInv, Gone
  <2>4. QED
    BY <1>1, <2>1, <2>2, <2>3, Zenon DEF Gone, Fixed
<1>7. FileBeforeDevice'
  BY <1>1, <1>3, NoFileOnTop, Zenon DEF IInv, FileBeforeDevice, Fixed
<1>8. Scanned'
  BY <1>1, ScanWaits, Zenon
<1>9. QED
  BY <1>1, <1>4, <1>5, <1>6, <1>7, <1>8, Zenon DEF IInv, Fixed

LEMMA StepLoopEnd == IInv /\ undoLoopEnd => IInv'
<1> SUFFICES ASSUME IInv, undoLoopEnd PROVE IInv'
  BY Zenon
<1> DEFINE this == Thing(Top[1])
<1>1. /\ Fixed /\ UNCHANGED <<mounted, scan, inUse, refused>> /\ stack # << >>
      /\ stack' = SubSeq(stack, 1, Len(stack) - 1) /\ What(Top[1]) = "LOOP" /\ Top[2] = 2
  BY WorldFixed, Zenon DEF undoLoopEnd
<1>2. Top[1] \in Indices /\ this \in Loops
  <2>1. Top[1] \in Indices
    BY <1>1, StackTypes, Zenon DEF IInv
  <2>2. QED
    BY <1>1, <2>1 DEF IInv, TableOK
<1>3. /\ attached \ {this} \subseteq attached' /\ attached' \subseteq attached
      /\ kept \subseteq kept' /\ kept' \subseteq kept \cup {this}
      /\ this \in attached' => this \in kept'
  BY Zenon DEF undoLoopEnd
<1>4. /\ stack' \in Seq(Frames) /\ Nested' /\ Visited'
      /\ \A x \in Indices : Finished(x)' <=> Finished(x) \/ x = Top[1]
  BY <1>1, Returned, Zenon DEF IInv
<1>5. TypeOK'
  BY <1>1, <1>2, <1>3, <1>4, ReturnTypes, Zenon DEF IInv, TypeOK, Fixed
<1>6. Gone'
  <2>1. ASSUME NEW i \in Indices, What(i) # "FS", ~Finished(i)'
        PROVE  Thing(i) \in attached' \ kept'
    <3>1. ~Finished(i) /\ i # Top[1] /\ What(i) = "LOOP"
      BY <1>4, <2>1, EntryTypes, Zenon DEF IInv
    <3>2. Thing(i) \in attached \ kept
      BY <2>1, <3>1, Zenon DEF IInv, Gone
    <3>3. Thing(i) # this
      BY <1>1, <1>2, <3>1, Zenon DEF IInv, TableOK
    <3>4. QED
      BY <1>3, <3>2, <3>3, Zenon
  <2>2. ASSUME NEW i \in Indices, What(i) # "FS", Finished(i)', Thing(i) \in attached'
        PROVE  Thing(i) \in kept'
    BY <1>3, <1>4, <2>2, Zenon DEF IInv, Gone
  <2>3. ASSUME NEW i \in Indices, What(i) = "FS"
        PROVE  /\ ~Finished(i)' => Thing(i) \in inUse \ refused
               /\ Finished(i)' /\ Thing(i) \in inUse => Thing(i) \in refused
    <3>1. i # Top[1]
      BY <1>1, <2>3, Zenon
    <3>2. QED
      BY <1>4, <2>3, <3>1, Zenon DEF IInv, Gone
  <2>4. QED
    BY <1>1, <2>1, <2>2, <2>3, Zenon DEF Gone, Fixed
<1>7. FileBeforeDevice'
  BY <1>1, <1>3, Zenon DEF IInv, FileBeforeDevice, Fixed
<1>8. Scanned'
  BY <1>1, ScanWaits, Zenon
<1>9. QED
  BY <1>1, <1>4, <1>5, <1>6, <1>7, <1>8, Zenon DEF IInv, Fixed

-----------------------------------------------------------------------------
LEMMA NextIInv == IInv /\ [Next]_vars => IInv'
<1> SUFFICES ASSUME IInv, [Next]_vars PROVE IInv'
  BY Zenon
<1>1. CASE Next
  BY <1>1, StepScanLoops, StepScanMounts, StepMountLoop, StepMountEnd, StepLoopFind,
     StepLoopEnd, Zenon DEF Next
<1>2. CASE UNCHANGED vars
  <2>1. Fixed /\ UNCHANGED <<mounted, stack, scan, system>>
    BY <1>2, WorldFixed, Zenon DEF vars, world, system
  <2>2. Kept /\ scan' \in {"loops", "mounts", "done"} \X Nat /\ Scanned'
    BY <2>1, Idle, Zenon DEF IInv, TypeOK, Scanned, Fixed
  <2>3. QED
    BY <2>1, <2>2, KeptIInv, Zenon
<1>3. QED
  BY <1>1, <1>2, Zenon

LEMMA Invariant == Spec => []IInv
  BY InitIInv, NextIInv, PTL DEF Spec

\* The table, the stack of calls and what is mounted keep their types, for every
\* layout of mounts and loop devices.
THEOREM TypeCorrect == Spec => []TypeOK
<1>1. IInv => TypeOK
  BY Zenon DEF IInv
<1>2. QED
  BY <1>1, Invariant, PTL

\* However many mounts there are, however they lie on one another and whichever of
\* them umount2() refuses, undoMount calls umount2() for a filesystem that is mounted
\* and has nothing mounted below it but what was refused before.
THEOREM UndoesLeavesFirst == Spec => []LeavesFirst
  BY Invariant, InvLeavesFirst, PTL

\* No filesystem goes before the loop devices whose files lie on it, but for a device
\* that could not be opened or cleared: undoMount comes to undoLoop for each of them
\* first, and goes on when it fails.
THEOREM KeepsFiles == Spec => []FileBeforeDevice
<1>1. IInv => FileBeforeDevice
  BY Zenon DEF IInv
<1>2. QED
  BY <1>1, Invariant, PTL

\* undoLoop calls LOOP_CLR_FD for no device that is mounted, unless umount2() has
\* refused to unmount it.
THEOREM ClearsIdle == Spec => []ClearIdle
  BY Invariant, InvClearIdle, PTL

\* When unmountFilesystems returns, nothing it read into its table is left but what a
\* call of umount2(), open or LOOP_CLR_FD has failed on.
THEOREM UndoesAll == Spec => []AllUndone
  BY Invariant, InvAllUndone, PTL
-----------------------------------------------------------------------------
(* The end of the recursion *)

\* The scan stops one entry behind the table.
ScanBound == scan[1] # "done" => scan[2] <= Len(table) + 1

LEMMA TurnsFinite ==
  ASSUME TypeOK, NEW frames \in Seq(Frames)
  PROVE  /\ IsFiniteSet(Turns(frames)) /\ Cardinality(Turns(frames)) \in Nat
         /\ IsFiniteSet(Pending) /\ Cardinality(Pending) \in Nat /\ Len(table) \in Nat
<1> DEFINE all == (1 .. Len(frames)) \X (1 .. Len(table) + 1)
<1>1. Len(frames) \in Nat /\ Len(table) \in Nat
  BY DEF TypeOK
<1>2. IsFiniteSet(1 .. Len(frames)) /\ IsFiniteSet(1 .. Len(table) + 1) /\ IsFiniteSet(1 .. Len(table))
  BY <1>1, FS_Interval
<1>3. IsFiniteSet(all)
  BY <1>2, FS_Product, Zenon
<1>4. Turns(frames) \in SUBSET all
  BY Zenon DEF Turns
<1>5. Pending \in SUBSET (1 .. Len(table))
  BY Zenon DEF Pending
<1> HIDE DEF all
<1>6. IsFiniteSet(Turns(frames)) /\ IsFiniteSet(Pending)
  BY <1>2, <1>3, <1>4, <1>5, FS_Subset, Zenon
<1>7. QED
  BY <1>1, <1>6, FS_CardinalityType, Zenon

LEMMA FrameNat ==
  ASSUME Len(table) \in Nat, NEW frame \in Frames
  PROVE  frame[2] \in Nat
  BY DEF Frames

LEMMA LastReplaced ==
  ASSUME NEW S, NEW s \in Seq(S), s # << >>, NEW x \in S
  PROVE  LET t == [s EXCEPT ![Len(s)] = x]
         IN  /\ t \in Seq(S) /\ Len(t) = Len(s) /\ t[Len(s)] = x
             /\ \A l \in 1 .. Len(s) : l # Len(s) => t[l] = s[l]
  OBVIOUS

LEMMA LastRemoved ==
  ASSUME NEW S, NEW s \in Seq(S), s # << >>
  PROVE  LET t == SubSeq(s, 1, Len(s) - 1)
         IN  /\ t \in Seq(S) /\ Len(t) = Len(s) - 1
             /\ \A l \in 1 .. Len(s) - 1 : t[l] = s[l]
<1> DEFINE n == Len(s) - 1
           t == SubSeq(s, 1, n)
<1>1. n \in Nat /\ \A l \in 1 .. n : s[l] \in S
  OBVIOUS
<1>2. /\ t \in Seq(S) /\ Len(t) = IF 1 <= n THEN n - 1 + 1 ELSE 0
      /\ \A l \in 1 .. n - 1 + 1 : t[l] = s[1 + l - 1]
  BY <1>1, SubSeqProperties
<1> HIDE DEF t, n
<1>3. Len(t) = n /\ \A l \in 1 .. n : t[l] = s[l]
  BY <1>1, <1>2
<1>4. QED
  BY <1>2, <1>3, Zenon DEF t, n

\* A new call has a turn for every entry of the table and one at its end.
LEMMA TurnsCalled ==
  ASSUME TypeOK, NEW frames \in Seq(Frames), NEW i \in Indices
  PROVE  LET more == Append(frames, <<i, 1>>)
         IN  /\ more \in Seq(Frames)
             /\ Cardinality(Turns(more)) <= Cardinality(Turns(frames)) + Len(table) + 1
<1> DEFINE more == Append(frames, <<i, 1>>)
           new == {Len(frames) + 1} \X (1 .. Len(table) + 1)
<1>1. Len(frames) \in Nat /\ Len(table) \in Nat
  BY DEF TypeOK
<1>2. <<i, 1>> \in Frames
  BY <1>1 DEF Frames
<1>3. /\ more \in Seq(Frames) /\ Len(more) = Len(frames) + 1
      /\ more[Len(frames) + 1] = <<i, 1>> /\ \A l \in 1 .. Len(frames) : more[l] = frames[l]
  BY <1>1, <1>2
<1> HIDE DEF more
<1>4. Turns(more) \subseteq Turns(frames) \cup new
  <2>1. SUFFICES ASSUME NEW p \in Turns(more), p \notin new PROVE p \in Turns(frames)
    BY Zenon
  <2>2. /\ p \in (1 .. Len(frames) + 1) \X (1 .. Len(table) + 1) /\ more[p[1]][2] <= p[2]
    BY <1>3, Zenon DEF Turns
  <2>3. p[1] \in 1 .. Len(frames)
    BY <1>1, <2>1, <2>2
  <2>4. QED
    BY <1>3, <2>2, <2>3, Zenon DEF Turns
<1>5. IsFiniteSet(new) /\ Cardinality(new) = Len(table) + 1
  <2>1. IsFiniteSet({Len(frames) + 1}) /\ Cardinality({Len(frames) + 1}) = 1
    BY FS_Singleton, Zenon
  <2>2. IsFiniteSet(1 .. Len(table) + 1) /\ Cardinality(1 .. Len(table) + 1) = Len(table) + 1
    BY <1>1, FS_Interval
  <2>3. /\ IsFiniteSet(new)
        /\ Cardinality(new) = Cardinality({Len(frames) + 1}) * Cardinality(1 .. Len(table) + 1)
    BY <2>1, <2>2, FS_Product, Zenon
  <2>4. QED
    BY <1>1, <2>1, <2>2, <2>3
<1> HIDE DEF new
<1>6. IsFiniteSet(Turns(frames)) /\ Cardinality(Turns(frames)) \in Nat
  BY TurnsFinite, Zenon
<1>7. /\ IsFiniteSet(Turns(frames) \cup new)
      /\ Cardinality(Turns(frames) \cup new)
           = Cardinality(Turns(frames)) + Cardinality(new) - Cardinality(Turns(frames) \cap new)
  BY <1>5, <1>6, FS_Union, Zenon
<1>8. Cardinality(Turns(frames) \cap new) \in Nat
  BY <1>6, FS_Intersection, FS_CardinalityType, Zenon
<1>9. Cardinality(Turns(more)) <= Cardinality(Turns(frames) \cup new)
  BY <1>4, <1>7, FS_Subset, Zenon
<1>10. Cardinality(Turns(more)) \in Nat
  BY <1>3, TurnsFinite, Zenon
<1>11. QED
  BY <1>1, <1>3, <1>5, <1>6, <1>7, <1>8, <1>9, <1>10 DEF more

\* The innermost call has a turn less when it goes on, and none when it returns.
LEMMA TurnTaken ==
  ASSUME TypeOK, stack # << >>, NEW frames \in Seq(Frames),
         \A l \in 1 .. Len(frames) :
           l <= Len(stack) /\ frames[l][2] >= stack[l][2] /\ (l = Len(stack) => frames[l][2] > Top[2])
  PROVE  Cardinality(Turns(frames)) < Cardinality(Turns(stack))
<1> DEFINE turn == <<Len(stack), Top[2]>>
<1>1. /\ Len(stack) \in 1 .. Len(stack) /\ Len(stack) \in Nat /\ stack \in Seq(Frames)
      /\ Top = stack[Len(stack)] /\ Top \in Frames /\ Len(table) \in Nat /\ Len(frames) \in Nat
  BY StackTypes DEF TypeOK
<1>2. Top[2] \in 1 .. Len(table) + 1 /\ Top[2] \in Nat
  BY <1>1 DEF Frames
<1>3. turn \in Turns(stack)
  BY <1>1, <1>2 DEF Turns
<1>4. Turns(frames) \subseteq Turns(stack) \ {turn}
  <2>1. SUFFICES ASSUME NEW p \in Turns(frames) PROVE p \in Turns(stack) /\ p # turn
    BY Zenon
  <2>2. /\ p \in (1 .. Len(frames)) \X (1 .. Len(table) + 1) /\ frames[p[1]][2] <= p[2]
    BY Zenon DEF Turns
  <2>3. p[1] \in 1 .. Len(frames) /\ p[1] \in 1 .. Len(stack) /\ p[2] \in Nat
    BY <1>1, <2>2
  <2>4. frames[p[1]] \in Frames /\ stack[p[1]] \in Frames
    BY <1>1, <2>3
  <2>5. frames[p[1]][2] \in Nat /\ stack[p[1]][2] \in Nat
    BY <1>1, <2>4, FrameNat, Zenon
  <2>6. stack[p[1]][2] <= p[2]
    BY <2>2, <2>3, <2>5
  <2>7. p[1] = Len(stack) => p[2] > Top[2]
    BY <1>2, <2>2, <2>3, <2>5
  <2>8. p \in Turns(stack)
    BY <2>2, <2>3, <2>6, Zenon DEF Turns
  <2>9. p # turn
    BY <1>2, <2>3, <2>7
  <2>10. QED
    BY <2>8, <2>9, Zenon
<1> HIDE DEF turn
<1>5. IsFiniteSet(Turns(stack)) /\ Cardinality(Turns(stack)) \in Nat
  BY <1>1, TurnsFinite, Zenon
<1>6. IsFiniteSet(Turns(stack) \ {turn}) /\ Cardinality(Turns(stack) \ {turn}) = Cardinality(Turns(stack)) - 1
  BY <1>3, <1>5, FS_RemoveElement, Zenon
<1>7. Cardinality(Turns(frames)) <= Cardinality(Turns(stack) \ {turn})
  BY <1>4, <1>6, FS_Subset, Zenon
<1>8. Cardinality(Turns(frames)) \in Nat
  BY TurnsFinite, Zenon
<1>9. QED
  BY <1>5, <1>6, <1>7, <1>8

\* The turns left, if those of the calls under way are frames.
Calls(frames) == Cardinality(Pending) * (Len(table) + 2) + Cardinality(Turns(frames))

LEMMA FlagCleared ==
  ASSUME NEW a \in Nat, NEW n \in Nat, a > 0
  PROVE  (a - 1) * (n + 2) = a * (n + 2) - (n + 2)
  OBVIOUS

LEMMA SumsInt ==
  ASSUME NEW a \in Nat, NEW b \in Nat, NEW n \in Nat
  PROVE  a * (n + 2) + b \in Int
  OBVIOUS

\* A call is paid for by the flag it clears.
LEMMA CallPaid ==
  ASSUME TypeOK, Fixed, NEW frames \in Seq(Frames), NEW i \in Indices, Call(i, frames)
  PROVE  Calls(stack)' <= Calls(frames) /\ Calls(stack)' \in Int
<1>0. /\ Cardinality(Pending) \in Nat /\ IsFiniteSet(Pending) /\ Len(table) \in Nat
      /\ Cardinality(Turns(frames)) \in Nat
  BY TurnsFinite, Zenon
<1>1. table' = table /\ Turns(stack)' = Turns(stack')
  BY Zenon DEF Fixed, Turns
<1>2. CASE mounted[i]
  <2> DEFINE more == Append(frames, <<i, 1>>)
  <2>1. mounted' = [mounted EXCEPT ![i] = FALSE] /\ stack' = more
    BY <1>2, Zenon DEF Call
  <2>2. Pending' = Pending \ {i} /\ i \in Pending
    BY <1>1, <1>2, <2>1, Zenon DEF Pending, TypeOK, Indices
  <2>3. Cardinality(Pending') = Cardinality(Pending) - 1
    BY <1>0, <2>2, FS_RemoveElement, Zenon
  <2>4. Cardinality(Pending) > 0
    BY <1>0, <2>2, FS_EmptySet
  <2>5. /\ Cardinality(Turns(more)) <= Cardinality(Turns(frames)) + Len(table) + 1
        /\ Cardinality(Turns(more)) \in Nat
    BY TurnsCalled, TurnsFinite, Zenon
  <2> HIDE DEF more
  <2> DEFINE a == Cardinality(Pending)
             n == Len(table)
             b == Cardinality(Turns(frames))
             c == Cardinality(Turns(more))
  <2>6. Calls(stack)' = (a - 1) * (n + 2) + c /\ Calls(frames) = a * (n + 2) + b
    BY <1>1, <2>1, <2>3, Zenon DEF Calls
  <2>7. a \in Nat /\ n \in Nat /\ b \in Nat /\ c \in Nat /\ a > 0 /\ c <= b + n + 1
    BY <1>0, <2>4, <2>5, Zenon
  <2> HIDE DEF a, n, b, c
  <2>8. (a - 1) * (n + 2) = a * (n + 2) - (n + 2) /\ a * (n + 2) \in Int
    BY <2>7, FlagCleared
  <2>9. QED
    BY <2>6, <2>7, <2>8
<1>3. CASE ~mounted[i]
  <2>1. UNCHANGED mounted /\ stack' = frames
    BY <1>3, Zenon DEF Call
  <2>2. Pending' = Pending
    BY <1>1, <2>1, Zenon DEF Pending
  <2>3. Calls(stack)' = Calls(frames)
    BY <1>1, <2>1, <2>2, Zenon DEF Calls
  <2>4. Calls(frames) \in Int
    BY <1>0, SumsInt, Zenon DEF Calls
  <2>5. QED
    BY <2>3, <2>4
<1>4. QED
  BY <1>2, <1>3, Zenon

LEMMA CallsKept ==
  ASSUME TypeOK, Fixed, NEW frames \in Seq(Frames), UNCHANGED mounted, stack' = frames
  PROVE  Calls(stack)' = Calls(frames) /\ Calls(stack)' \in Int
<1>1. table' = table /\ Turns(stack)' = Turns(frames) /\ Pending' = Pending
  BY Zenon DEF Fixed, Turns, Pending
<1>2. Calls(stack)' = Calls(frames)
  BY <1>1, Zenon DEF Calls
<1>3. Calls(frames) \in Int
  BY TurnsFinite, SumsInt, Zenon DEF Calls
<1>4. QED
  BY <1>2, <1>3, Zenon

\* In a step of a call, its turn pays.
LEMMA CallsLess ==
  ASSUME TypeOK, NEW frames \in Seq(Frames), Cardinality(Turns(frames)) < Cardinality(Turns(stack))
  PROVE  Calls(frames) < Calls(stack) /\ Calls(frames) \in Int /\ Calls(stack) \in Int
<1> DEFINE a == Cardinality(Pending) * (Len(table) + 2)
<1>1. a \in Int /\ Cardinality(Turns(frames)) \in Nat /\ Cardinality(Turns(stack)) \in Nat
  BY StackTypes, TurnsFinite
<1>2. Calls(frames) = a + Cardinality(Turns(frames)) /\ Calls(stack) = a + Cardinality(Turns(stack))
  BY Zenon DEF Calls
<1> HIDE DEF a
<1>3. QED
  BY <1>1, <1>2

-----------------------------------------------------------------------------
LEMMA ScansTypes ==
  ASSUME TypeOK
  PROVE  /\ Len(table) \in Nat /\ scan[2] \in Nat /\ Scans \in Int
         /\ scan[1] = "loops" => Scans = 2 * Len(table) + 3 - scan[2]
         /\ scan[1] = "mounts" => Scans = Len(table) + 2 - scan[2]
<1>1. Len(table) \in Nat /\ scan \in {"loops", "mounts", "done"} \X Nat
  BY DEF TypeOK
<1>2. QED
  BY <1>1 DEF Scans

LEMMA LeftSum == Left = Calls(stack) + Scans /\ Left' = Calls(stack)' + Scans'
  BY Zenon DEF Left, Calls

\* A step of unmountFilesystems itself.
LEMMA ScanLess ==
  ASSUME IInv, ScanBound, IInv', ScanLoops \/ ScanMounts
  PROVE  Left' < Left /\ ScanBound'
<1>1. Fixed /\ stack = << >> /\ scan[1] \in {"loops", "mounts"}
  BY WorldFixed, Zenon DEF ScanLoops, ScanMounts
<1>2. /\ TypeOK /\ << >> \in Seq(Frames) /\ scan[2] \in Nat \ {0} /\ scan[2] <= Len(table) + 1
      /\ Len(table) \in Nat
  BY <1>1, ScansTypes DEF IInv, Scanned, ScanBound
<1>3. Calls(stack)' <= Calls(stack) /\ Calls(stack)' \in Int /\ Calls(stack) \in Int
  <2>1. CASE UNCHANGED <<mounted, stack>>
    <3>1. stack \in Seq(Frames)
      BY <1>1, <1>2, Zenon
    <3>2. Calls(stack)' = Calls(stack) /\ Calls(stack)' \in Int
      BY <1>1, <1>2, <2>1, <3>1, CallsKept, Zenon
    <3>3. QED
      BY <3>2
  <2>2. CASE scan[2] <= Len(table) /\ Call(scan[2], << >>)
    <3>1. scan[2] \in Indices
      BY <1>2, <2>2 DEF Indices
    <3>2. Calls(stack) \in Int
      BY <1>1, <1>2, TurnsFinite, SumsInt, Zenon DEF Calls
    <3>3. QED
      BY <1>1, <1>2, <2>2, <3>1, <3>2, CallPaid, Zenon
  <2>3. QED
    BY <1>2, <2>1, <2>2 DEF ScanLoops, ScanMounts, ScanEnd
<1>4. Scans' < Scans /\ Scans' \in Int /\ ScanBound'
  <2>1. table' = table
    BY <1>1, Zenon DEF Fixed
  <2>2. CASE scan' = <<"mounts", 1>> /\ scan[1] = "loops"
    BY <1>2, <2>1, <2>2 DEF Scans, ScanBound
  <2>3. CASE scan' = <<"done", 0>> /\ scan[1] = "mounts"
    BY <1>2, <2>1, <2>3 DEF Scans, ScanBound
  <2>4. CASE scan' = <<scan[1], scan[2] + 1>> /\ scan[2] <= Len(table)
    BY <1>1, <1>2, <2>1, <2>4, SMTT(20) DEF Scans, ScanBound
  <2>5. QED
    BY <1>2, <2>2, <2>3, <2>4 DEF ScanLoops, ScanMounts, ScanEnd
<1>5. Scans \in Int
  BY <1>2, ScansTypes, Zenon
<1>6. QED
  BY <1>3, <1>4, <1>5, LeftSum

\* The innermost call has gone on, and may have called.
LEMMA TurnLess ==
  ASSUME TypeOK, Fixed, stack # << >>, NEW frames \in Seq(Frames), Len(frames) = Len(stack),
         frames[Len(stack)][2] > Top[2],
         \A l \in 1 .. Len(stack) : l # Len(stack) => frames[l] = stack[l],
         (\E j \in Indices : Call(j, frames)) \/ (UNCHANGED mounted /\ stack' = frames)
  PROVE  Calls(stack)' < Calls(stack) /\ Calls(stack)' \in Int /\ Calls(stack) \in Int
<1>1. stack \in Seq(Frames) /\ Len(stack) \in Nat /\ Top = stack[Len(stack)]
  BY StackTypes, Zenon
<1>2. ASSUME NEW l \in 1 .. Len(frames)
      PROVE  /\ l <= Len(stack) /\ frames[l][2] >= stack[l][2]
             /\ l = Len(stack) => frames[l][2] > Top[2]
  <2>1. l \in 1 .. Len(stack) /\ l <= Len(stack) /\ stack[l] \in Frames /\ frames[l] \in Frames
    BY <1>1
  <2>2. stack[l][2] \in Nat /\ frames[l][2] \in Nat
    BY <2>1 DEF Frames
  <2>3. CASE l = Len(stack)
    BY <1>1, <2>1, <2>2, <2>3
  <2>4. CASE l # Len(stack)
    BY <2>1, <2>2, <2>4
  <2>5. QED
    BY <2>3, <2>4, Zenon
<1>3. Cardinality(Turns(frames)) < Cardinality(Turns(stack))
  BY <1>2, TurnTaken, Zenon
<1>4. Calls(frames) < Calls(stack) /\ Calls(frames) \in Int /\ Calls(stack) \in Int
  BY <1>3, CallsLess, Zenon
<1>5. Calls(stack)' <= Calls(frames) /\ Calls(stack)' \in Int
  <2>1. CASE \E j \in Indices : Call(j, frames)
    BY <2>1, CallPaid, Zenon
  <2>2. CASE UNCHANGED mounted /\ stack' = frames
    <3>1. Calls(stack)' = Calls(frames)
      BY <2>2, CallsKept, Zenon
    <3>2. QED
      BY <1>4, <3>1
  <2>3. QED
    BY <2>1, <2>2, Zenon
<1>6. QED
  BY <1>4, <1>5

\* A step within a call.
LEMMA CallLess ==
  ASSUME IInv, ScanBound, undoMountLoop \/ undoMountEnd \/ undoLoopFind \/ undoLoopEnd
  PROVE  Left' < Left /\ ScanBound'
<1>1. Fixed /\ stack # << >> /\ UNCHANGED scan /\ TypeOK
  BY WorldFixed, Zenon DEF undoMountLoop, undoMountEnd, undoLoopFind, undoLoopEnd, IInv
<1>2. Scans' = Scans /\ ScanBound' /\ Scans \in Int
  BY <1>1, ScansTypes, Zenon DEF Scans, ScanBound, Fixed
<1>3. /\ Len(stack) \in 1 .. Len(stack) /\ Len(stack) \in Nat /\ stack \in Seq(Frames)
      /\ Top = stack[Len(stack)] /\ Top \in Frames /\ Len(table) \in Nat
      /\ \A l \in 1 .. Len(stack) : stack[l] \in Frames /\ stack[l][2] \in Nat
  BY <1>1, StackTypes, ScansTypes DEF Frames
<1>4. Top[1] \in Indices /\ Top[2] \in Nat
  BY <1>3, Zenon DEF Frames
<1>5. CASE undoMountLoop
  <2> DEFINE frames == [stack EXCEPT ![Len(stack)] = Advance(Top)]
  <2>1. Advance(Top) \in Frames /\ Advance(Top)[2] > Top[2] /\ Top[2] \in Indices
    BY <1>3, <1>4, <1>5 DEF undoMountLoop, Advance, Frames, Indices
  <2>2. Call(Top[2], frames) \/ (UNCHANGED mounted /\ stack' = frames)
    BY <1>5, Zenon DEF undoMountLoop
  <2>3. /\ frames \in Seq(Frames) /\ Len(frames) = Len(stack) /\ frames[Len(stack)] = Advance(Top)
        /\ \A l \in 1 .. Len(stack) : l # Len(stack) => frames[l] = stack[l]
    BY <1>1, <1>3, <2>1, LastReplaced
  <2> HIDE DEF frames
  <2>4. Calls(stack)' < Calls(stack) /\ Calls(stack)' \in Int /\ Calls(stack) \in Int
    BY <1>1, <2>1, <2>2, <2>3, TurnLess, Zenon
  <2>5. QED
    BY <1>2, <2>4, LeftSum
<1>6. CASE undoLoopFind
  <2> DEFINE frames == [stack EXCEPT ![Len(stack)] = <<Top[1], 2>>]
  <2>1. <<Top[1], 2>> \in Frames /\ <<Top[1], 2>>[2] > Top[2]
    BY <1>3, <1>4, <1>6 DEF undoLoopFind, Frames, Indices
  <2>2. (\E j \in Indices : Call(j, frames)) \/ (UNCHANGED mounted /\ stack' = frames)
    BY <1>6, Zenon DEF undoLoopFind, DeviceMounts, Indices
  <2>3. /\ frames \in Seq(Frames) /\ Len(frames) = Len(stack) /\ frames[Len(stack)] = <<Top[1], 2>>
        /\ \A l \in 1 .. Len(stack) : l # Len(stack) => frames[l] = stack[l]
    BY <1>1, <1>3, <2>1, LastReplaced
  <2> HIDE DEF frames
  <2>4. Calls(stack)' < Calls(stack) /\ Calls(stack)' \in Int /\ Calls(stack) \in Int
    BY <1>1, <2>1, <2>2, <2>3, TurnLess, Zenon
  <2>5. QED
    BY <1>2, <2>4, LeftSum
<1>7. CASE undoMountEnd \/ undoLoopEnd
  <2> DEFINE frames == SubSeq(stack, 1, Len(stack) - 1)
  <2>1. UNCHANGED mounted /\ stack' = frames
    BY <1>7, Zenon DEF undoMountEnd, undoLoopEnd
  <2>2. /\ frames \in Seq(Frames) /\ Len(frames) = Len(stack) - 1
        /\ \A l \in 1 .. Len(stack) - 1 : frames[l] = stack[l]
    BY <1>1, <1>3, LastRemoved, Zenon
  <2> HIDE DEF frames
  <2>3. \A l \in 1 .. Len(frames) :
          l <= Len(stack) /\ frames[l][2] >= stack[l][2] /\ (l = Len(stack) => frames[l][2] > Top[2])
    BY <1>3, <2>2
  <2>4. Cardinality(Turns(frames)) < Cardinality(Turns(stack))
    BY <1>1, <2>2, <2>3, TurnTaken, Zenon
  <2>5. Calls(stack)' < Calls(stack) /\ Calls(stack)' \in Int /\ Calls(stack) \in Int
    <3>1. Calls(frames) < Calls(stack) /\ Calls(frames) \in Int /\ Calls(stack) \in Int
      BY <1>1, <2>2, <2>4, CallsLess, Zenon
    <3>2. Calls(stack)' = Calls(frames)
      BY <1>1, <2>1, <2>2, CallsKept, Zenon
    <3>3. QED
      BY <3>1, <3>2, Zenon
  <2>6. QED
    BY <1>2, <2>5, LeftSum
<1>8. QED
  BY <1>5, <1>6, <1>7, Zenon

LEMMA LeftNat ==
  ASSUME IInv, ScanBound
  PROVE  Left \in Nat
<1>1. /\ Cardinality(Pending) \in Nat /\ Cardinality(Turns(stack)) \in Nat /\ Len(table) \in Nat
  BY StackTypes, TurnsFinite, Zenon DEF IInv
<1>2. Cardinality(Pending) * (Len(table) + 2) \in Nat
  BY <1>1
<1>3. Scans \in Nat
  <2>1. scan \in {"loops", "mounts", "done"} \X Nat
    BY Zenon DEF IInv, TypeOK
  <2>2. QED
    BY <1>1, <2>1 DEF Scans, ScanBound
<1>4. QED
  BY <1>1, <1>2, <1>3 DEF Left

\* The mutual recursion of undoMount and undoLoop ends for every layout of mounts and
\* loop devices: what is left to be done is a natural number, and each step leaves less
\* of it, since the flag that a call clears pays for all the turns of that call.
THEOREM Terminates == Spec => [](Left \in Nat) /\ ComesToAnEnd
<1>1. Init => ScanBound
  BY DEF Init, ScanBound
<1>2. IInv /\ ScanBound /\ IInv' /\ [Next]_vars => ScanBound' /\ [Left' < Left]_vars
  <2>1. ASSUME IInv, ScanBound, IInv', Next PROVE ScanBound' /\ Left' < Left
    BY <2>1, ScanLess, CallLess, Zenon DEF Next
  <2>2. ASSUME ScanBound, UNCHANGED vars PROVE ScanBound'
    BY <2>2, Zenon DEF ScanBound, vars
  <2>3. QED
    BY <2>1, <2>2, Zenon
<1>3. IInv /\ ScanBound => Left \in Nat
  BY LeftNat, Zenon
<1>4. QED
  BY <1>1, <1>2, <1>3, Invariant, PTL DEF Spec, ComesToAnEnd
=============================================================================

--------------------------- MODULE FrontEndProofs ---------------------------
(***************************************************************************)
(* FrontEndInv is inductive, for both builds and any number of cores,      *)
(* lines, ways, ROB slots and dispatch slots.  The argument: a core that   *)
(* has run leaves at least CORE_WIDTH instructions in its ROB or sleeps on *)
(* the youngest one, which is waiting; so retirement stops in time, only   *)
(* finished instructions leave the ROB, and every miss register keeps      *)
(* pointing at the waiting instruction that owns it (RobInOrder).  A stray *)
(* answer ends that argument; the rest of FrontEndInv, the books kept of   *)
(* requests, answers and stores, needs nothing of it and goes on holding.  *)
(***************************************************************************)
EXTENDS FrontEnd, TLAPS

-----------------------------------------------------------------------------
(* The ring.                                                               *)

\* The index of the n-th entry of the ring is a slot, also when n has wrapped.
LEMMA RobIndexType ==
    ASSUME NEW p \in Slot, NEW n \in 0 .. UnsModulus - 1
    PROVE  RobIndex(p, n) \in Slot
<1>1. RobSize \in Nat \ {0} /\ UnsModulus \in Nat \ {0} /\ p \in 0 .. RobSize - 1
      /\ n \in Nat
  BY FrontEndConstants DEF Slot
<1>2. CASE n > RobSize
  <2>1. PICK m \in Nat : m = (p + n) % UnsModulus
    BY <1>1
  <2>2. m % RobSize \in 0 .. RobSize - 1
    BY <1>1
  <2>3. QED
    BY <1>2, <2>1, <2>2 DEF RobIndex, Slot
<1>3. CASE ~(n > RobSize)
  BY <1>1, <1>3 DEF RobIndex, Slot
<1>4. QED
  BY <1>2, <1>3

\* Different entries of a full ring are in different slots.
LEMMA RobIndexInjective ==
    ASSUME NEW p \in Slot, NEW i \in 0 .. RobSize - 1, NEW j \in 0 .. RobSize - 1,
           RobIndex(p, i) = RobIndex(p, j)
    PROVE  i = j
BY FrontEndConstants DEF RobIndex, Slot

\* Advancing ptr by n renumbers the entries.
LEMMA RobIndexAdd ==
    ASSUME NEW p \in Slot, NEW n \in Nat, NEW i \in Nat, n + i <= RobSize
    PROVE  RobIndex(RobIndex(p, n), i) = RobIndex(p, n + i)
<1>1. /\ RobSize \in Nat /\ p \in 0 .. RobSize - 1
      /\ n <= RobSize /\ i <= RobSize /\ n + i <= RobSize
  BY FrontEndConstants DEF Slot
<1>2. RobIndex(p, n) = IF p + n < RobSize THEN p + n ELSE p + n - RobSize
  BY <1>1 DEF RobIndex
<1>3. RobIndex(p, n + i) = IF p + n + i < RobSize THEN p + n + i ELSE p + n + i - RobSize
  BY <1>1 DEF RobIndex
<1>4. \A q \in 0 .. RobSize - 1 :
         RobIndex(q, i) = IF q + i < RobSize THEN q + i ELSE q + i - RobSize
  BY <1>1 DEF RobIndex
<1>5. RobIndex(p, n) \in 0 .. RobSize - 1
  BY <1>1, <1>2
<1>6. QED
  BY <1>1, <1>2, <1>3, <1>4, <1>5

-----------------------------------------------------------------------------
(* Where the main loop goes.                                               *)

\* index = (offset + ii) % num_threads is a core.
LEMMA CurType == ASSUME TypeOK PROVE Cur \in Core
<1>1. offset \in 0 .. NumCores - 1 /\ pc.ii \in 0 .. NumCores - 1 /\ NumCores \in Nat
  BY FrontEndConstants DEF TypeOK, Position, Core
<1>2. QED
  BY <1>1 DEF Cur, Core

\* A core that returns from mcore_cycle hands over to the next or the memory.
LEMMA AfterCoreCycle ==
    ASSUME TypeOK, CoreCycleEnds
    PROVE  /\ offset' \in Core /\ pc' \in Position
           /\ pc'.stage \in {"retire", "mem"}
<1>1. /\ offset \in Core /\ pc.ii \in 0 .. NumCores - 1
      /\ NumCores \in Nat \ {0} /\ 0 \in 0 .. CoreWidth - 1
  BY FrontEndConstants DEF TypeOK, Position, Core
<1>2. CASE pc.ii + 1 < NumCores
  <2>1. pc' = [ii |-> pc.ii + 1, stage |-> "retire", k |-> 0] /\ pc.ii + 1 \in Core
    BY <1>1, <1>2 DEF CoreCycleEnds, Core
  <2>2. QED
    BY <1>1, <2>1 DEF CoreCycleEnds, Position
<1>3. CASE ~(pc.ii + 1 < NumCores)
  <2>1. pc' = [ii |-> 0, stage |-> "mem", k |-> 0] /\ 0 \in Core
    BY <1>1, <1>3 DEF CoreCycleEnds, Core
  <2>2. QED
    BY <1>1, <2>1 DEF CoreCycleEnds, Position
<1>4. QED
  BY <1>2, <1>3

\* Within mcore_cycle the core stays the same.
LEMMA AfterGoTo ==
    ASSUME TypeOK, NEW stage \in {"retry", "dispatch"}, GoTo(stage)
    PROVE  /\ offset' \in Core /\ pc' \in Position
           /\ pc'.stage = stage /\ pc'.k = 0
           /\ Cur' = Cur
<1>1. 0 \in 0 .. CoreWidth - 1
  BY FrontEndConstants
<1>2. /\ pc' \in Position /\ pc'.stage = stage /\ pc'.k = 0 /\ pc'.ii = pc.ii
      /\ offset' = offset
  BY <1>1 DEF TypeOK, GoTo, Position
<1>3. QED
  BY <1>2 DEF TypeOK, Cur

\* The dispatch loop runs CORE_WIDTH times for the same core.
LEMMA AfterLoop ==
    ASSUME TypeOK, LoopAgain, pc.stage = "dispatch"
    PROVE  /\ offset' \in Core /\ pc' \in Position
           /\ \/ pc'.stage \in {"retire", "mem"} /\ pc.k + 1 >= CoreWidth
              \/ pc'.stage = "dispatch" /\ pc'.k = pc.k + 1 /\ Cur' = Cur
<1>1. CASE pc.k + 1 < CoreWidth
  BY <1>1, FrontEndConstants DEF TypeOK, LoopAgain, Position, Cur
<1>2. CASE ~(pc.k + 1 < CoreWidth)
  <2>1. CoreCycleEnds
    BY <1>2 DEF LoopAgain
  <2>2. pc.k \in Int /\ CoreWidth \in Int
    BY FrontEndConstants DEF TypeOK, Position
  <2>3. QED
    BY <2>1, <2>2, <1>2, AfterCoreCycle
<1>3. QED
  BY <1>1, <1>2

\* calloc leaves empty ROBs and no sleeping core.
LEMMA InitEstablishes == Init => FrontEndInv
<1> SUFFICES ASSUME Init PROVE FrontEndInv
  OBVIOUS
<1>1. 0 \in Core /\ 0 \in Slot /\ 0 \in 0 .. TraceLen /\ 0 \in 0 .. CoreWidth - 1
      /\ 0 \in 0 .. RobSize /\ 0 \in 0 .. UnsModulus - 1
  BY FrontEndConstants DEF Core, Slot
<1>2. TypeOK
  BY <1>1 DEF Init, TypeOK, Entry, Position, Death
<1>3. RegistersMatch /\ SleepersAreYoungest /\ RequestsDistinct
  BY DEF Init, RegistersMatch, SleepersAreYoungest, RequestsDistinct
<1>4. WaitersAreRegistered /\ NoStrayCallback /\ StoresReachMemory
  BY DEF Init, WaitersAreRegistered, NoStrayCallback, StoresReachMemory
<1>5. EnoughToRetire
  BY DEF Init, EnoughToRetire, Busy
<1>6. OneAnswerPerMiss
  BY DEF Init, OneAnswerPerMiss, Present
<1>7. size \in [Core -> 0 .. RobSize]
  BY <1>1 DEF Init
<1>8. QED
  BY <1>2, <1>3, <1>4, <1>5, <1>6, <1>7 DEF FrontEndInv, RobInOrder

-----------------------------------------------------------------------------
(* Retirement.                                                             *)

\* Retirement never runs past the youngest instruction.
LEMMA RetireBound ==
    ASSUME TypeOK, SleepersAreYoungest, EnoughToRetire,
           NEW c \in Core, ~Busy(c), size[c] # 0,
           NEW n \in 0 .. CoreWidth, Retirable(c, n)
    PROVE  /\ n <= size[c]
           /\ \A r \in sleeping : r.core = c => n < size[c]
<1>1. size[c] \in Nat /\ n \in Nat /\ CoreWidth \in Nat
  BY FrontEndConstants DEF TypeOK
<1>2. ASSUME NEW r \in sleeping, r.core = c PROVE n < size[c]
  <2>1. rob[c][RobIndex(ptr[c], size[c] - 1)].st = "mem"
    <3>1. /\ r.slot = RobIndex(ptr[c], size[c] - 1)
          /\ rob[c][r.slot] = [inst |-> r.inst, st |-> "mem"]
      BY <1>2, Zenon DEF SleepersAreYoungest
    <3>2. QED
      BY <3>1
  <2>2. SUFFICES ASSUME ~(n < size[c]) PROVE FALSE
    OBVIOUS
  <2>3. size[c] - 1 \in 0 .. n - 1
    BY <1>1, <2>2
  <2>4. RetiresEntry(c, size[c] - 1)
    BY <2>3 DEF Retirable
  <2>5. QED
    BY <2>1, <2>4 DEF RetiresEntry, EntryAt
<1>3. size[c] >= CoreWidth \/ \E r \in sleeping : r.core = c
  BY DEF EnoughToRetire
<1>4. n <= size[c]
  BY <1>1, <1>2, <1>3
<1>5. QED
  BY <1>2, <1>4

\* Retirement takes only finished entries of the ROB.
LEMMA RetireInOrder ==
    ASSUME TypeOK, RobInOrder, mcore_rob_retire
    PROVE  RobInOrder'
<1> DEFINE c == Cur
<1>0. /\ RegistersMatch /\ SleepersAreYoungest /\ RequestsDistinct /\ EnoughToRetire
      /\ size \in [Core -> 0 .. RobSize]
  BY DEF RobInOrder
<1>1. c \in Core
  BY CurType
<1>2. /\ pc.stage = "retire" /\ GoTo("retry")
      /\ UNCHANGED <<rob, sleeping, mshr>>
  BY DEF mcore_rob_retire, At, memVars, readVars
<1>3. PICK n \in 0 .. CoreWidth :
          /\ IF size[c] = 0 THEN n = 0 ELSE Retirable(c, n)
          /\ ptr' = [ptr EXCEPT ![c] = RobIndex(@, n)]
          /\ size' = [size EXCEPT ![c] =
                         IF n <= @ THEN @ - n ELSE @ - n + UnsModulus]
  BY DEF mcore_rob_retire
<1> HIDE DEF c
<1>4. size[c] \in 0 .. RobSize /\ ptr[c] \in Slot /\ n \in Nat /\ RobSize \in Nat
  BY <1>0, <1>1, FrontEndConstants DEF TypeOK
<1>5. ~Busy(c)
  BY <1>2 DEF Busy
<1>6. /\ n <= size[c]
      /\ \A r \in sleeping : r.core = c => n < size[c]
  <2>1. CASE size[c] = 0
    <3>1. \A r \in sleeping : r.core # c
      <4>1. \A r \in sleeping : size[r.core] > 0
        BY <1>0, Zenon DEF SleepersAreYoungest
      <4>2. QED
        BY <4>1, <2>1
    <3>2. QED
      BY <2>1, <3>1, <1>3, <1>4
  <2>2. CASE size[c] # 0
    BY <2>2, <1>0, <1>1, <1>3, <1>5, RetireBound
  <2>3. QED
    BY <2>1, <2>2
<1>7. /\ ptr'[c] = RobIndex(ptr[c], n) /\ size'[c] = size[c] - n
      /\ \A d \in Core : d # c => ptr'[d] = ptr[d] /\ size'[d] = size[d]
  BY <1>0, <1>1, <1>3, <1>4, <1>6 DEF TypeOK
<1>8. /\ pc'.stage = "retry" /\ Cur' = Cur
  BY <1>2, AfterGoTo
<1>9. size' \in [Core -> 0 .. RobSize]
  <2>1. size[c] - n \in 0 .. RobSize
    BY <1>4, <1>6
  <2>2. size' = [size EXCEPT ![c] = size[c] - n]
    BY <1>3, <1>6
  <2>3. QED
    BY <2>1, <2>2, <1>0
\* The slots from the n-th on stay where they are.
<1>10. \A i \in n .. size[c] - 1 :
          i - n \in 0 .. size'[c] - 1
          /\ RobIndex(ptr'[c], i - n) = RobIndex(ptr[c], i)
  <2> SUFFICES ASSUME NEW i \in n .. size[c] - 1
               PROVE  i - n \in 0 .. size'[c] - 1
                      /\ RobIndex(ptr'[c], i - n) = RobIndex(ptr[c], i)
    OBVIOUS
  <2>1. i - n \in Nat /\ n + (i - n) = i /\ n + (i - n) <= RobSize
    BY <1>4
  <2>2. RobIndex(RobIndex(ptr[c], n), i - n) = RobIndex(ptr[c], n + (i - n))
    BY <2>1, <1>4, RobIndexAdd
  <2>3. QED
    BY <2>1, <2>2, <1>4, <1>7
<1>11. RegistersMatch'
  <2> SUFFICES ASSUME NEW e \in mshr
               PROVE  e.slot \in Live(e.core)'
    BY <1>0, <1>2 DEF RegistersMatch
  <2>1. /\ e.slot \in Live(e.core) /\ e.core \in Core
        /\ rob[e.core][e.slot] = [inst |-> e.inst, st |-> "mem"]
    BY <1>0 DEF RegistersMatch, TypeOK, Request
  <2>2. CASE e.core # c
    BY <2>1, <2>2, <1>7 DEF Live
  <2>3. CASE e.core = c
    <3>1. PICK i \in 0 .. size[c] - 1 : e.slot = RobIndex(ptr[c], i)
      BY <2>1, <2>3 DEF Live
    <3>2. ~(i < n)
      <4>1. SUFFICES ASSUME i < n PROVE FALSE
        OBVIOUS
      <4>2. i \in 0 .. n - 1 /\ size[c] # 0
        BY <4>1, <1>4
      <4>3. RetiresEntry(c, i)
        BY <4>2, <1>3 DEF Retirable
      <4>4. QED
        BY <4>3, <3>1, <2>1, <2>3 DEF RetiresEntry, EntryAt
    <3>3. i \in n .. size[c] - 1
      BY <3>2, <1>4
    <3>4. QED
      BY <3>1, <3>3, <2>3, <1>10 DEF Live
  <2>4. QED
    BY <2>2, <2>3
<1>12. SleepersAreYoungest'
  <2> SUFFICES ASSUME NEW r \in sleeping
               PROVE  /\ size'[r.core] > 0
                      /\ r.slot = RobIndex(ptr'[r.core], size'[r.core] - 1)
    BY <1>0, <1>2, <1>8 DEF SleepersAreYoungest
  <2>1. /\ r.core \in Core /\ size[r.core] > 0
        /\ r.slot = RobIndex(ptr[r.core], size[r.core] - 1)
    BY <1>0 DEF SleepersAreYoungest, TypeOK, Request
  <2>2. CASE r.core # c
    BY <2>1, <2>2, <1>7
  <2>3. CASE r.core = c
    <3>1. n < size[c]
      BY <2>3, <1>6
    <3>2. size[c] - 1 \in n .. size[c] - 1 /\ size'[c] - 1 = size[c] - 1 - n
          /\ size'[c] > 0
      BY <3>1, <1>4, <1>7
    <3>3. RobIndex(ptr'[c], size[c] - 1 - n) = RobIndex(ptr[c], size[c] - 1)
      BY <3>2, <1>10
    <3>4. QED
      BY <3>2, <3>3, <2>1, <2>3
  <2>4. QED
    BY <2>2, <2>3
<1>13. EnoughToRetire'
  <2> SUFFICES ASSUME NEW d \in Core, ~Busy(d)'
               PROVE  \/ size'[d] = 0
                      \/ size'[d] >= CoreWidth
                      \/ \E r \in sleeping : r.core = d
    BY <1>2, <1>8 DEF EnoughToRetire, Busy
  <2>1. d # c
    BY <1>8 DEF Busy, c
  <2>2. ~Busy(d)
    BY <1>2 DEF Busy
  <2>3. QED
    BY <2>1, <2>2, <1>0, <1>7 DEF EnoughToRetire
<1>14. RequestsDistinct'
  BY <1>0, <1>2 DEF RequestsDistinct
<1>15. QED
  BY <1>9, <1>11, <1>12, <1>13, <1>14 DEF RobInOrder
-----------------------------------------------------------------------------
(* Dispatch.                                                               *)

\* What mcore_rob_insert does to the ROB: the new slot t was not in it, so no
\* request owns it; every other entry stays.
Inserted(c, t, inst, st) ==
    /\ rob' \in [Core -> [Slot -> Entry]]
    /\ size' \in [Core -> 0 .. RobSize]
    /\ ptr' = ptr
    /\ size'[c] = size[c] + 1
    /\ \A d \in Core : d # c => size'[d] = size[d]
    /\ rob'[c][t] = [inst |-> inst, st |-> st]
    /\ t \in Live(c)'
    /\ \A d \in Core, s \in Slot :
          ~(d = c /\ s = t) => rob'[d][s] = rob[d][s]
    /\ \A e \in mshr \cup sleeping :
          /\ ~(e.core = c /\ e.slot = t)
          /\ rob'[e.core][e.slot] = [inst |-> e.inst, st |-> "mem"]
    /\ \A e \in mshr : e.slot \in Live(e.core)'
    /\ \A r \in sleeping : r.core # c

\* mcore_rob_insert writes a slot no waiting instruction owns.
LEMMA InsertKeeps ==
    ASSUME TypeOK, RobInOrder, pc.stage = "dispatch",
           NEW c \in Core, c = Cur, size[c] # RobSize,
           NEW t \in Slot, t = RobTail(c),
           NEW inst \in 0 .. TraceLen, NEW st \in {"done", "l3", "mem"},
           mcore_rob_insert(c, inst, st)
    PROVE  Inserted(c, t, inst, st)
<1>0. TypeOK /\ RegistersMatch /\ SleepersAreYoungest
  BY DEF RobInOrder
<1>2. /\ size[c] \in 0 .. RobSize - 1 /\ ptr[c] \in Slot /\ RobSize \in Nat
      /\ size[c] + 1 < UnsModulus
  <2>1. size[c] \in 0 .. RobSize /\ ptr[c] \in Slot /\ RobSize \in Nat
        /\ UnsModulus \in Nat /\ UnsModulus >= 2 * RobSize /\ RobSize > 0
    BY <1>0, FrontEndConstants DEF TypeOK, RobInOrder
  <2>2. QED
    BY <2>1
<1>3. t = RobIndex(ptr[c], size[c])
  BY DEF RobTail
<1>4. /\ rob' = [rob EXCEPT ![c][t] = [inst |-> inst, st |-> st]]
      /\ size' = [size EXCEPT ![c] = @ + 1]
      /\ ptr' = ptr
  BY <1>2 DEF mcore_rob_insert
<1>5. [inst |-> inst, st |-> st] \in Entry
  BY DEF Entry
<1>6. /\ rob' \in [Core -> [Slot -> Entry]]
      /\ rob'[c][t] = [inst |-> inst, st |-> st]
      /\ \A d \in Core, s \in Slot : ~(d = c /\ s = t) => rob'[d][s] = rob[d][s]
  BY <1>0, <1>3, <1>4, <1>5 DEF TypeOK
<1>7. /\ size' \in [Core -> 0 .. RobSize]
      /\ size'[c] = size[c] + 1
      /\ \A d \in Core : d # c => size'[d] = size[d]
  BY <1>2, <1>4 DEF RobInOrder
<1>8. t \in Live(c)'
  <2>1. size[c] \in 0 .. size'[c] - 1
    BY <1>2, <1>7
  <2>2. QED
    BY <2>1, <1>3, <1>4 DEF Live
<1>9. t \notin Live(c)
  <2> SUFFICES ASSUME NEW i \in 0 .. size[c] - 1, t = RobIndex(ptr[c], i)
               PROVE  FALSE
    BY DEF Live
  <2>1. i \in 0 .. RobSize - 1
    BY <1>2
  <2>2. i = size[c]
    BY <2>1, <1>2, <1>3, RobIndexInjective
  <2>3. QED
    BY <2>2, <1>2
<1>10. \A r \in sleeping : r.core # c
  BY <1>0, Zenon DEF SleepersAreYoungest
<1>11. \A e \in mshr \cup sleeping :
          /\ e.core \in Core /\ e.slot \in Slot
          /\ ~(e.core = c /\ e.slot = t)
          /\ rob[e.core][e.slot] = [inst |-> e.inst, st |-> "mem"]
  <2>1. ASSUME NEW e \in mshr
        PROVE  /\ e.core \in Core /\ e.slot \in Slot
               /\ ~(e.core = c /\ e.slot = t)
               /\ rob[e.core][e.slot] = [inst |-> e.inst, st |-> "mem"]
    <3>1. e.slot \in Live(e.core)
          /\ rob[e.core][e.slot] = [inst |-> e.inst, st |-> "mem"]
      BY <1>0, Zenon DEF RegistersMatch
    <3>2. e.core \in Core /\ e.slot \in Slot
      BY <1>0 DEF TypeOK, Request
    <3>3. QED
      BY <3>1, <3>2, <1>9
  <2>2. ASSUME NEW e \in sleeping
        PROVE  /\ e.core \in Core /\ e.slot \in Slot
               /\ ~(e.core = c /\ e.slot = t)
               /\ rob[e.core][e.slot] = [inst |-> e.inst, st |-> "mem"]
    <3>1. rob[e.core][e.slot] = [inst |-> e.inst, st |-> "mem"]
      BY <1>0, Zenon DEF SleepersAreYoungest
    <3>2. e.core \in Core /\ e.slot \in Slot
      BY <1>0 DEF TypeOK, Request
    <3>3. QED
      BY <3>1, <3>2, <1>10
  <2>3. QED
    BY <2>1, <2>2
<1>12. \A e \in mshr \cup sleeping :
          rob'[e.core][e.slot] = [inst |-> e.inst, st |-> "mem"]
  BY <1>6, <1>11
<1>13. \A e \in mshr : e.slot \in Live(e.core)'
  <2> SUFFICES ASSUME NEW e \in mshr PROVE e.slot \in Live(e.core)'
    OBVIOUS
  <2>1. PICK i \in 0 .. size[e.core] - 1 : e.slot = RobIndex(ptr[e.core], i)
    BY <1>0 DEF RegistersMatch, Live
  <2>2. e.core \in Core
    BY <1>11
  <2>3. i \in 0 .. size'[e.core] - 1
    <3>1. size'[e.core] = size[e.core] \/ size'[e.core] = size[e.core] + 1
      BY <2>2, <1>7
    <3>2. size[e.core] \in Nat
      BY <2>2, <1>0 DEF TypeOK
    <3>3. QED
      BY <3>1, <3>2, <2>1
  <2>4. QED
    BY <2>1, <2>3, <1>4 DEF Live
<1>14. QED
  BY <1>3, <1>4, <1>6, <1>7, <1>8, <1>10, <1>11, <1>12, <1>13 DEF Inserted

\* After a dispatched instruction the core has as many as it has dispatched,
\* and CORE_WIDTH of them when its cycle is over.
LEMMA EnoughAfterDispatch ==
    ASSUME TypeOK, EnoughToRetire, pc.stage = "dispatch", LoopAgain,
           NEW c \in Core, c = Cur, size'[c] = size[c] + 1,
           \A d \in Core : d # c => size'[d] = size[d],
           sleeping' = sleeping
    PROVE  EnoughToRetire'
<1>1. /\ size[c] \in Nat /\ size[c] >= pc.k /\ pc.k \in Nat /\ CoreWidth \in Nat
  <2>1. Busy(c)
    BY DEF Busy
  <2>2. size[c] \in Nat /\ pc.k \in Nat /\ CoreWidth \in Nat
    BY FrontEndConstants DEF TypeOK, Position
  <2>3. QED
    BY <2>1, <2>2 DEF EnoughToRetire
<1>2. \/ pc'.stage \in {"retire", "mem"} /\ pc.k + 1 >= CoreWidth
      \/ pc'.stage = "dispatch" /\ pc'.k = pc.k + 1 /\ Cur' = Cur
  BY AfterLoop
<1>3. ASSUME NEW d \in Core, Busy(d)' PROVE size'[d] >= pc'.k
  BY <1>1, <1>2, <1>3 DEF Busy
<1>4. ASSUME NEW d \in Core, ~Busy(d)'
      PROVE  \/ size'[d] = 0
             \/ size'[d] >= CoreWidth
             \/ \E r \in sleeping : r.core = d
  <2>1. CASE d = c
    <3>1. pc'.stage \in {"retire", "mem"}
      BY <1>2, <1>4, <2>1 DEF Busy
    <3>2. QED
      BY <3>1, <1>1, <1>2, <2>1
  <2>2. CASE d # c
    <3>1. ~Busy(d)
      BY <2>2 DEF Busy
    <3>2. QED
      BY <3>1, <2>2 DEF EnoughToRetire
  <2>3. QED
    BY <2>1, <2>2
<1>5. QED
  BY <1>3, <1>4 DEF EnoughToRetire

\* When a core's cycle ends, only that core has to be looked at.
LEMMA EnoughAfterCycle ==
    ASSUME TypeOK, EnoughToRetire, CoreCycleEnds,
           NEW c \in Core, c = Cur,
           size'[c] >= CoreWidth \/ \E r \in sleeping' : r.core = c,
           \A d \in Core : d # c => size'[d] = size[d],
           sleeping \subseteq sleeping'
    PROVE  EnoughToRetire'
<1>1. pc'.stage \in {"retire", "mem"}
  BY AfterCoreCycle
<1> SUFFICES ASSUME NEW d \in Core
             PROVE  \/ size'[d] = 0
                    \/ size'[d] >= CoreWidth
                    \/ \E r \in sleeping' : r.core = d
  BY <1>1 DEF EnoughToRetire, Busy
<1>2. CASE d = c
  BY <1>2
<1>3. CASE d # c
  <2>1. ~Busy(d)
    BY <1>3 DEF Busy
  <2>2. \/ size[d] = 0
        \/ size[d] >= CoreWidth
        \/ \E r \in sleeping : r.core = d
    BY <2>1 DEF EnoughToRetire
  <2>3. QED
    BY <2>2, <1>3
<1>4. QED
  BY <1>2, <1>3

\* The slot a new instruction gets is one of the ROB.
LEMMA TailType ==
    ASSUME TypeOK, NEW c \in Core
    PROVE  RobTail(c) \in Slot
<1>1. ptr[c] \in Slot /\ size[c] \in 0 .. UnsModulus - 1
  BY DEF TypeOK
<1>2. QED
  BY <1>1, RobIndexType DEF RobTail

\* A plain instruction, a write or a cache hit: no request is added.
LEMMA DispatchQuietInOrder ==
    ASSUME TypeOK, RobInOrder, NEW inst \in 0 .. TraceLen, NEW st \in {"done", "l3"},
           Dispatch(inst, st), LoopAgain,
           UNCHANGED <<sleeping, mshr>>
    PROVE  RobInOrder'
<1>0. /\ RegistersMatch /\ SleepersAreYoungest /\ RequestsDistinct /\ EnoughToRetire
      /\ size \in [Core -> 0 .. RobSize]
  BY DEF RobInOrder
<1>1. PICK c \in Core : c = Cur
  BY CurType
<1>2. /\ pc.stage = "dispatch" /\ size[c] # RobSize
      /\ mcore_rob_insert(c, inst, st)
  BY <1>1 DEF Dispatch, At
<1>3. PICK t \in Slot : t = RobTail(c)
  BY TailType
<1>4. /\ size' \in [Core -> 0 .. RobSize]
      /\ ptr' = ptr
      /\ size'[c] = size[c] + 1
      /\ \A d \in Core : d # c => size'[d] = size[d]
      /\ \A e \in mshr \cup sleeping :
            rob'[e.core][e.slot] = [inst |-> e.inst, st |-> "mem"]
      /\ \A e \in mshr : e.slot \in Live(e.core)'
      /\ \A r \in sleeping : r.core # c
  <2>1. st \in {"done", "l3", "mem"}
    OBVIOUS
  <2>2. Inserted(c, t, inst, st)
    BY <2>1, <1>1, <1>2, <1>3, InsertKeeps
  <2>3. QED
    BY <2>2 DEF Inserted
<1>5. \/ pc'.stage \in {"retire", "mem"}
      \/ pc'.stage = "dispatch" /\ Cur' = Cur
  BY <1>2, AfterLoop
<1>7. RegistersMatch'
  <2>1. mshr' = mshr
    OBVIOUS
  <2>2. QED
    BY <2>1, <1>4, Zenon DEF RegistersMatch
<1>9. SleepersAreYoungest'
  <2> SUFFICES ASSUME NEW r \in sleeping
               PROVE  /\ size'[r.core] > 0
                      /\ r.slot = RobIndex(ptr'[r.core], size'[r.core] - 1)
                      /\ ~(r.core = Cur' /\ pc'.stage = "dispatch")
    BY <1>4 DEF SleepersAreYoungest
  <2>1. r.core \in Core /\ r.core # c
    BY <1>4 DEF TypeOK, Request
  <2>2. size[r.core] > 0 /\ r.slot = RobIndex(ptr[r.core], size[r.core] - 1)
    BY <1>0, Zenon DEF SleepersAreYoungest
  <2>3. QED
    BY <2>1, <2>2, <1>1, <1>4, <1>5
<1>10. RequestsDistinct'
  BY <1>0 DEF RequestsDistinct
<1>11. EnoughToRetire'
  BY <1>0, <1>1, <1>2, <1>4, EnoughAfterDispatch
<1>12. QED
  BY <1>4, <1>7, <1>9, <1>10, <1>11 DEF RobInOrder

-----------------------------------------------------------------------------
(* Misses.                                                                 *)

\* The three outcomes of memsys_access, and what each leaves of the books.
Registered(req) ==
    /\ mshr' = (mshr \ Present(req.line)) \cup {req}
    /\ overwritten' = overwritten \cup {<<e.line, e.core, e.slot>> : e \in Present(req.line)}
    /\ died' = died

Asserted == mshr' = mshr /\ overwritten' = overwritten /\ died' = "MSHR_PRESENT"

Refused == UNCHANGED <<rdOut, mshr, overwritten, died>>

\* A read is registered, meets the assertion or is refused.
LEMMA AccessOutcomes ==
    ASSUME TypeOK, NEW req \in Request, NEW ok \in BOOLEAN, memsys_access(req, ok)
    PROVE  /\ IF ok THEN Registered(req) \/ Asserted ELSE Refused
           /\ rdOut' \in [Line -> Nat]
           /\ strayed' = strayed
<1>1. strayed' = strayed
  BY DEF memsys_access
<1>2. CASE ~ok
  BY <1>1, <1>2 DEF memsys_access, Refused, TypeOK
<1>3. CASE ok
  <2>1. req.line \in Line
    BY DEF Request
  <2>2. rdOut' = [rdOut EXCEPT ![req.line] = @ + 1]
    BY <1>3 DEF memsys_access
  <2>3. rdOut' \in [Line -> Nat]
    BY <2>1, <2>2 DEF TypeOK
  <2>4. Registered(req) \/ Asserted
    BY <1>3 DEF memsys_access, Registered, Asserted
  <2>5. QED
    BY <1>1, <1>3, <2>3, <2>4
<1>4. QED
  BY <1>2, <1>3

\* The requests after an access.
LEMMA AccessRequests ==
    ASSUME TypeOK, NEW req \in Request, NEW ok \in BOOLEAN, memsys_access(req, ok),
           died = "running"
    PROVE  /\ mshr' \subseteq mshr \cup {req}
           /\ mshr' \subseteq Request
           /\ overwritten \subseteq overwritten'
           /\ overwritten' \subseteq Line \X Core \X Slot
           /\ \A e \in mshr : e \in mshr' \/ <<e.line, e.core, e.slot>> \in overwritten'
           /\ ok /\ died' = "running" => req \in mshr'
           /\ ~ok => mshr' = mshr /\ died' = died
           /\ died' \in {"running", "MSHR_PRESENT"}
<1>1. IF ok THEN Registered(req) \/ Asserted ELSE Refused
  BY AccessOutcomes
<1>2. \A e \in mshr : <<e.line, e.core, e.slot>> \in Line \X Core \X Slot
  BY DEF TypeOK, Request
<1>3. Present(req.line) \subseteq mshr
  BY DEF Present
<1>4. mshr \subseteq Request /\ overwritten \subseteq Line \X Core \X Slot
  BY DEF TypeOK
<1>5. CASE ok /\ Registered(req)
  <2>1. /\ mshr' = (mshr \ Present(req.line)) \cup {req}
        /\ overwritten' =
              overwritten \cup {<<e.line, e.core, e.slot>> : e \in Present(req.line)}
        /\ died' = "running" /\ ok
    BY <1>5 DEF Registered
  <2>2. QED
    BY <2>1, <1>2, <1>3, <1>4
<1>6. CASE ok /\ Asserted
  <2>1. mshr' = mshr /\ overwritten' = overwritten /\ died' = "MSHR_PRESENT" /\ ok
    BY <1>6 DEF Asserted
  <2>2. QED
    BY <2>1, <1>4
<1>7. CASE ~ok
  <2>1. mshr' = mshr /\ overwritten' = overwritten /\ died' = died /\ ~ok
    BY <1>1, <1>7 DEF Refused
  <2>2. QED
    BY <2>1, <1>4
<1>8. QED
  BY <1>1, <1>5, <1>6, <1>7

\* The books kept of registers and answers survive an access.
LEMMA AccessBooks ==
    ASSUME TypeOK, OneAnswerPerMiss, NoStrayCallback, died = "running",
           NEW req \in Request, NEW ok \in BOOLEAN, memsys_access(req, ok),
           asserts' = asserts
    PROVE  OneAnswerPerMiss' /\ NoStrayCallback'
<1>1. /\ IF ok THEN Registered(req) \/ Asserted ELSE Refused
      /\ strayed' = strayed
  BY AccessOutcomes
<1>2. overwritten \subseteq overwritten' /\ died' \in {"running", "MSHR_PRESENT"}
  BY AccessRequests
<1>3. \A l \in Line : Doubled(l) => Doubled(l)'
  BY <1>2 DEF Doubled
<1>4. asserts' => overwritten' = {}
  <2>1. CASE asserts
    <3>1. CASE ok /\ Present(req.line) = {}
      BY <2>1, <3>1 DEF memsys_access, NoStrayCallback
    <3>2. CASE ~(ok /\ Present(req.line) = {})
      BY <2>1, <3>2 DEF memsys_access, NoStrayCallback
    <3>3. QED
      BY <3>1, <3>2
  <2>2. QED
    BY <2>1
<1>5. NoStrayCallback'
  BY <1>1, <1>2, <1>3, <1>4 DEF NoStrayCallback, TypeOK
<1>6. OneAnswerPerMiss'
  <2>1. CASE ~Registered(req)
    BY <1>1, <2>1 DEF Asserted, Refused, OneAnswerPerMiss, Present, Doubled
  <2>2. CASE Registered(req)
    <3>1. /\ mshr' = (mshr \ Present(req.line)) \cup {req}
          /\ overwritten' =
                overwritten \cup {<<e.line, e.core, e.slot>> : e \in Present(req.line)}
      BY <2>2 DEF Registered
    <3>2. \A e, f \in mshr' : e.line = f.line => e = f
      BY <3>1 DEF OneAnswerPerMiss, Present
    <3>3. ASSUME NEW l \in Line, died' = "running"
          PROVE  Doubled(l)' \/ rdOut'[l] = IF Present(l)' # {} THEN 1 ELSE 0
      <4>1. Doubled(l) \/ rdOut[l] = IF Present(l) # {} THEN 1 ELSE 0
        BY DEF OneAnswerPerMiss
      <4>2. CASE l # req.line
        <5>1. Present(l)' = Present(l)
          BY <3>1, <4>2 DEF Present
        <5>2. rdOut'[l] = rdOut[l]
          BY <4>2 DEF memsys_access, TypeOK
        <5>3. QED
          BY <4>1, <5>1, <5>2, <1>3
      <4>3. CASE l = req.line /\ Present(l) # {}
        <5>1. PICK e \in mshr : e.line = l
          BY <4>3 DEF Present
        <5>2. <<l, e.core, e.slot>> \in overwritten'
          BY <5>1, <4>3, <3>1 DEF Present
        <5>3. e.core \in Core /\ e.slot \in Slot
          BY DEF TypeOK, Request
        <5>4. QED
          BY <5>2, <5>3 DEF Doubled
      <4>4. CASE l = req.line /\ Present(l) = {}
        <5>1. CASE ok
          <6>1. rdOut'[l] = rdOut[l] + 1
            BY <5>1, <4>4 DEF memsys_access, TypeOK
          <6>2. req \in Present(l)'
            BY <3>1, <4>4 DEF Present
          <6>3. Present(l)' # {}
            BY <6>2
          <6>4. Doubled(l) \/ rdOut[l] = 0
            BY <4>1, <4>4
          <6>5. QED
            BY <6>1, <6>3, <6>4, <1>3
        <5>2. CASE ~ok
          BY <5>2, <1>1, <4>1, <1>3 DEF Refused, Present
        <5>3. QED
          BY <5>1, <5>2
      <4>5. QED
        BY <4>2, <4>3, <4>4
    <3>4. QED
      BY <3>2, <3>3 DEF OneAnswerPerMiss
  <2>3. QED
    BY <2>1, <2>2
<1>7. QED
  BY <1>5, <1>6

\* A waiting instruction of another slot keeps what it has.
LEMMA AccessWaiters ==
    ASSUME TypeOK, WaitersAreRegistered, died = "running",
           NEW req \in Request, NEW ok \in BOOLEAN, memsys_access(req, ok),
           sleeping \subseteq sleeping' \cup {req},
           \A d \in Core, s \in Slot :
              ~(d = req.core /\ s = req.slot) => rob'[d][s] = rob[d][s],
           ~ok => req \in sleeping'
    PROVE  WaitersAreRegistered'
<1> SUFFICES ASSUME NEW d \in Core, NEW s \in Slot, rob'[d][s].st = "mem",
                    died' = "running"
             PROVE  \/ \E e \in mshr' \cup sleeping' : e.core = d /\ e.slot = s
                    \/ \E l \in Line : <<l, d, s>> \in overwritten'
  BY DEF WaitersAreRegistered
<1>1. /\ overwritten \subseteq overwritten'
      /\ \A e \in mshr : e \in mshr' \/ <<e.line, e.core, e.slot>> \in overwritten'
      /\ ok => req \in mshr'
  BY AccessRequests
<1>2. CASE d = req.core /\ s = req.slot
  <2>1. req \in mshr' \cup sleeping'
    BY <1>1
  <2>2. QED
    BY <1>2, <2>1
<1>3. CASE ~(d = req.core /\ s = req.slot)
  <2>1. rob[d][s].st = "mem"
    BY <1>3
  <2>2. \/ \E e \in mshr \cup sleeping : e.core = d /\ e.slot = s
        \/ \E l \in Line : <<l, d, s>> \in overwritten
    BY <2>1 DEF WaitersAreRegistered
  <2>3. CASE \E l \in Line : <<l, d, s>> \in overwritten
    BY <2>3, <1>1
  <2>4. CASE \E e \in mshr \cup sleeping : e.core = d /\ e.slot = s
    <3>1. PICK e \in mshr \cup sleeping : e.core = d /\ e.slot = s
      BY <2>4
    <3>2. e \in Request
      BY DEF TypeOK
    <3>3. e.line \in Line /\ e # req
      BY <3>1, <3>2, <1>3 DEF Request
    <3>4. e \in mshr' \cup sleeping' \/ <<e.line, d, s>> \in overwritten'
      BY <3>1, <3>3, <1>1
    <3>5. QED
      BY <3>1, <3>3, <3>4
  <2>5. QED
    BY <2>2, <2>3, <2>4
<1>4. QED
  BY <1>2, <1>3

\* What a miss does, with its parts named.
LEMMA MissParts ==
    ASSUME TypeOK, DispatchMiss
    PROVE  \E c \in Core, inst \in 0 .. TraceLen, l \in Line \ cached, ok \in BOOLEAN,
              t \in Slot, req \in Request, victim \in SUBSET Line :
              /\ c = Cur /\ t = RobTail(c)
              /\ req.line = l /\ req.core = c /\ req.slot = t /\ req.inst = inst
              /\ Dispatch(inst, "mem")
              /\ mcache_install(l, victim)
              /\ memsys_access(req, ok)
              /\ AddWriteback(victim \cap dirty)
              /\ IF ok THEN LoopAgain /\ UNCHANGED sleeping
                 ELSE CoreCycleEnds /\ sleeping' = sleeping \cup {req}
<1>1. PICK c \in Core : c = Cur
  BY CurType
<1>2. PICK t \in Slot : t = RobTail(c)
  BY TailType
<1>3. PICK inst \in 0 .. TraceLen, l \in LinesOf[c] \ cached, ok \in BOOLEAN :
      \E victim \in Victim(l) :
       LET req == [line |-> l, core |-> c, slot |-> t, inst |-> inst] IN
       /\ Dispatch(inst, "mem")
       /\ mcache_install(l, victim)
       /\ memsys_access(req, ok)
       /\ AddWriteback(victim \cap dirty)
       /\ IF ok THEN LoopAgain /\ UNCHANGED sleeping
          ELSE CoreCycleEnds /\ sleeping' = sleeping \cup {req}
  BY <1>1, <1>2 DEF DispatchMiss
<1>4. PICK req : req = [line |-> l, core |-> c, slot |-> t, inst |-> inst]
  OBVIOUS
<1>5. l \in Line \ cached
  BY FrontEndConstants
<1>6. /\ req \in Request
      /\ req.line = l /\ req.core = c /\ req.slot = t /\ req.inst = inst
  BY <1>4, <1>5 DEF Request
<1>7. PICK victim \in Victim(l) :
       /\ Dispatch(inst, "mem")
       /\ mcache_install(l, victim)
       /\ memsys_access(req, ok)
       /\ AddWriteback(victim \cap dirty)
       /\ IF ok THEN LoopAgain /\ UNCHANGED sleeping
          ELSE CoreCycleEnds /\ sleeping' = sleeping \cup {req}
  BY <1>3, <1>4
<1>8. victim \in SUBSET Line
  BY DEF Victim, TypeOK
<1>9. QED
  BY <1>1, <1>2, <1>5, <1>6, <1>7, <1>8

\* A miss owns its new slot, whether it got in or its core sleeps.
LEMMA DispatchMissInOrder ==
    ASSUME TypeOK, RobInOrder, OneAnswerPerMiss, DispatchMiss
    PROVE  RobInOrder'
<1>0. /\ RegistersMatch /\ SleepersAreYoungest /\ RequestsDistinct /\ EnoughToRetire
      /\ size \in [Core -> 0 .. RobSize]
  BY DEF RobInOrder
<1>1. PICK c \in Core, inst \in 0 .. TraceLen, l \in Line \ cached, ok \in BOOLEAN,
              t \in Slot, req \in Request, victim \in SUBSET Line :
              /\ c = Cur /\ t = RobTail(c)
              /\ req.line = l /\ req.core = c /\ req.slot = t /\ req.inst = inst
              /\ Dispatch(inst, "mem")
              /\ mcache_install(l, victim)
              /\ memsys_access(req, ok)
              /\ AddWriteback(victim \cap dirty)
              /\ IF ok THEN LoopAgain /\ UNCHANGED sleeping
                 ELSE CoreCycleEnds /\ sleeping' = sleeping \cup {req}
  BY MissParts
<1>2. /\ pc.stage = "dispatch" /\ died = "running" /\ size[c] # RobSize
      /\ mcore_rob_insert(c, inst, "mem")
  BY <1>1 DEF Dispatch, At
<1>3. Inserted(c, t, inst, "mem")
  BY <1>1, <1>2, InsertKeeps
<1>9. /\ size' \in [Core -> 0 .. RobSize]
      /\ ptr' = ptr
      /\ size'[c] = size[c] + 1
      /\ \A d \in Core : d # c => size'[d] = size[d]
      /\ rob'[c][t] = [inst |-> inst, st |-> "mem"]
      /\ t \in Live(c)'
      /\ \A e \in mshr \cup sleeping :
            /\ ~(e.core = c /\ e.slot = t)
            /\ rob'[e.core][e.slot] = [inst |-> e.inst, st |-> "mem"]
      /\ \A e \in mshr : e.slot \in Live(e.core)'
      /\ \A r \in sleeping : r.core # c
  BY <1>3 DEF Inserted
<1>12. IF ok THEN \/ pc'.stage \in {"retire", "mem"}
                  \/ pc'.stage = "dispatch" /\ Cur' = Cur
       ELSE pc'.stage \in {"retire", "mem"}
  BY <1>1, <1>2, AfterLoop, AfterCoreCycle
<1>13. sleeping' = IF ok THEN sleeping ELSE sleeping \cup {req}
  BY <1>1
<1>14. mshr' \subseteq mshr \cup {req} /\ (~ok => mshr' = mshr)
  BY <1>1, <1>2, AccessRequests
<1>16. RegistersMatch'
  <2> SUFFICES ASSUME NEW e \in mshr'
               PROVE  /\ e.slot \in Live(e.core)'
                      /\ rob'[e.core][e.slot] = [inst |-> e.inst, st |-> "mem"]
    BY DEF RegistersMatch
  <2>1. CASE e \in mshr
    BY <2>1, <1>9
  <2>2. CASE e = req
    BY <2>2, <1>1, <1>9
  <2>3. QED
    BY <2>1, <2>2, <1>14
<1>18. SleepersAreYoungest'
  <2> SUFFICES ASSUME NEW r \in sleeping'
               PROVE  /\ size'[r.core] > 0
                      /\ r.slot = RobIndex(ptr'[r.core], size'[r.core] - 1)
                      /\ rob'[r.core][r.slot] = [inst |-> r.inst, st |-> "mem"]
                      /\ ~(r.core = Cur' /\ pc'.stage = "dispatch")
    BY DEF SleepersAreYoungest
  <2>1. CASE r \in sleeping
    <3>1. r.core \in Core /\ r.core # c
      BY <2>1, <1>9 DEF TypeOK, Request
    <3>2. size[r.core] > 0 /\ r.slot = RobIndex(ptr[r.core], size[r.core] - 1)
      BY <2>1, <1>0, Zenon DEF SleepersAreYoungest
    <3>3. rob'[r.core][r.slot] = [inst |-> r.inst, st |-> "mem"]
      BY <2>1, <1>9
    <3>4. QED
      BY <3>1, <3>2, <3>3, <1>1, <1>9, <1>12
  <2>2. CASE r = req /\ ~ok
    <3>1. size[c] \in Nat
      BY <1>0
    <3>2. size'[c] > 0 /\ size'[c] - 1 = size[c]
      <4>1. size'[c] = size[c] + 1
        BY <1>9
      <4>2. QED
        BY <3>1, <4>1
    <3>3. t = RobIndex(ptr'[c], size[c])
      BY <1>1, <1>9 DEF RobTail
    <3>4. QED
      BY <2>2, <3>2, <3>3, <1>1, <1>9, <1>12
  <2>3. QED
    BY <2>1, <2>2, <1>13
<1>19. RequestsDistinct'
  <2>2. mshr' \cup sleeping' \subseteq mshr \cup sleeping \cup {req}
    BY <1>13, <1>14
  <2>3. \A e, f \in mshr' \cup sleeping' :
           e.core = f.core /\ e.slot = f.slot => e = f
    <3> SUFFICES ASSUME NEW e \in mshr \cup sleeping \cup {req},
                        NEW f \in mshr \cup sleeping \cup {req},
                        e.core = f.core, e.slot = f.slot
                 PROVE  e = f
      BY <2>2
    <3>1. CASE e = req /\ f = req
      BY <3>1
    <3>2. CASE e = req /\ f # req
      BY <3>2, <1>1, <1>9
    <3>3. CASE e # req /\ f = req
      BY <3>3, <1>1, <1>9
    <3>4. CASE e # req /\ f # req
      BY <3>4, <1>0 DEF RequestsDistinct
    <3>5. QED
      BY <3>1, <3>2, <3>3, <3>4
  <2>4. req \notin mshr \cup sleeping
    BY <1>1, <1>9
  <2>5. mshr' \cap sleeping' = {}
    BY <2>4, <1>0, <1>13, <1>14 DEF RequestsDistinct
  <2>6. QED
    BY <2>3, <2>5 DEF RequestsDistinct
<1>20. EnoughToRetire'
  <2>1. CASE ok
    BY <2>1, <1>0, <1>1, <1>2, <1>9, EnoughAfterDispatch
  <2>2. CASE ~ok
    <3>1. req \in sleeping' /\ req.core = c
      BY <2>2, <1>1, <1>13
    <3>2. QED
      BY <2>2, <3>1, <1>0, <1>1, <1>9, <1>13, EnoughAfterCycle
  <2>3. QED
    BY <2>1, <2>2
<1>22. QED
  BY <1>9, <1>16, <1>18, <1>19, <1>20 DEF RobInOrder

\* A sleeping core's request: its ROB entry is rewritten to what it was.
LEMMA RetryInOrder ==
    ASSUME TypeOK, RobInOrder, mcore_retry_sleeping_request
    PROVE  RobInOrder'
<1>0. /\ RegistersMatch /\ SleepersAreYoungest /\ RequestsDistinct /\ EnoughToRetire
      /\ size \in [Core -> 0 .. RobSize]
  BY DEF RobInOrder
<1>1. PICK c \in Core : c = Cur
  BY CurType
<1>2. PICK req \in sleeping, ok \in BOOLEAN :
         /\ req.core = c
         /\ memsys_access(req, ok)
         /\ IF ok
            THEN /\ rob' = [rob EXCEPT ![c][req.slot] =
                               [inst |-> req.inst, st |-> "mem"]]
                 /\ sleeping' = sleeping \ {req}
                 /\ GoTo("dispatch")
            ELSE CoreCycleEnds /\ UNCHANGED <<rob, sleeping>>
  BY <1>1 DEF mcore_retry_sleeping_request
<1>3. /\ pc.stage = "retry" /\ died = "running"
      /\ UNCHANGED <<ptr, size>>
  BY DEF mcore_retry_sleeping_request, At
<1>4. /\ req \in Request /\ req.slot \in Slot
      /\ size[c] > 0 /\ req.slot = RobIndex(ptr[c], size[c] - 1)
      /\ rob[c][req.slot] = [inst |-> req.inst, st |-> "mem"]
  <2>1. req \in Request /\ req.slot \in Slot
    BY DEF TypeOK, Request
  <2>2. QED
    BY <2>1, <1>0, <1>2, Zenon DEF SleepersAreYoungest
<1>5. rob' = rob
  BY <1>2, <1>4 DEF TypeOK
<1>7. IF ok THEN pc'.stage = "dispatch" /\ pc'.k = 0 /\ Cur' = Cur
      ELSE pc'.stage \in {"retire", "mem"}
  BY <1>2, AfterGoTo, AfterCoreCycle
<1>8. sleeping' = IF ok THEN sleeping \ {req} ELSE sleeping
  BY <1>2
<1>9. mshr' \subseteq mshr \cup {req} /\ (~ok => mshr' = mshr)
  BY <1>2, <1>3, <1>4, AccessRequests
<1>11. RegistersMatch'
  <2> SUFFICES ASSUME NEW e \in mshr'
               PROVE  /\ e.slot \in Live(e.core)'
                      /\ rob[e.core][e.slot] = [inst |-> e.inst, st |-> "mem"]
    BY <1>5 DEF RegistersMatch
  <2>1. CASE e \in mshr
    BY <2>1, <1>0, <1>3 DEF RegistersMatch, Live
  <2>2. CASE e = req
    <3>1. size[c] - 1 \in 0 .. size[c] - 1
      BY <1>0, <1>4
    <3>2. req.slot \in Live(c)'
      BY <3>1, <1>3, <1>4 DEF Live
    <3>3. QED
      BY <2>2, <3>2, <1>2, <1>4
  <2>3. QED
    BY <2>1, <2>2, <1>9
\* A core sleeps on at most one request.
<1>13. \A r \in sleeping : r.core = c => r = req
  <2> SUFFICES ASSUME NEW r \in sleeping, r.core = c PROVE r = req
    OBVIOUS
  <2>1. r.slot = RobIndex(ptr[c], size[c] - 1)
    BY <1>0, Zenon DEF SleepersAreYoungest
  <2>2. QED
    BY <2>1, <1>0, <1>2, <1>4 DEF RequestsDistinct
<1>14. SleepersAreYoungest'
  <2> SUFFICES ASSUME NEW r \in sleeping'
               PROVE  ~(r.core = Cur' /\ pc'.stage = "dispatch")
    <3>1. sleeping' \subseteq sleeping
      BY <1>8
    <3>2. QED
      BY <3>1, <1>0, <1>3, <1>5, Zenon DEF SleepersAreYoungest
  <2>1. QED
    BY <1>1, <1>7, <1>8, <1>13
<1>15. RequestsDistinct'
  <2>2. mshr' \cup sleeping' \subseteq mshr \cup sleeping
    BY <1>2, <1>8, <1>9
  <2>3. mshr' \cap sleeping' = {}
    BY <1>0, <1>8, <1>9 DEF RequestsDistinct
  <2>4. QED
    BY <2>2, <2>3, <1>0 DEF RequestsDistinct
<1>16. EnoughToRetire'
  <2>1. CASE ok
    <3>1. ASSUME NEW d \in Core, ~Busy(d)'
          PROVE  \/ size[d] = 0
                 \/ size[d] >= CoreWidth
                 \/ \E r \in sleeping' : r.core = d
      <4>1. d # c
        BY <2>1, <3>1, <1>1, <1>7 DEF Busy
      <4>2. ~Busy(d)
        BY <4>1, <1>1 DEF Busy
      <4>3. \A r \in sleeping : r.core = d => r \in sleeping'
        BY <4>1, <1>2, <1>8
      <4>4. QED
        BY <4>2, <4>3, <1>0 DEF EnoughToRetire
    <3>2. \A d \in Core : size[d] >= 0
      BY <1>0
    <3>3. QED
      BY <2>1, <3>1, <3>2, <1>3, <1>7 DEF EnoughToRetire
  <2>2. CASE ~ok
    <3>1. req \in sleeping' /\ req.core = c
      BY <2>2, <1>2, <1>8
    <3>2. QED
      BY <2>2, <3>1, <1>0, <1>1, <1>2, <1>3, <1>8, EnoughAfterCycle
  <2>3. QED
    BY <2>1, <2>2
<1>18. QED
  BY <1>0, <1>3, <1>11, <1>14, <1>15, <1>16 DEF RobInOrder

-----------------------------------------------------------------------------
(* Answers and the passing of time.                                        *)

\* What a new state of one entry does to the ROBs.
LEMMA EntryChanges ==
    ASSUME TypeOK, NEW c \in Core, NEW t \in Slot, NEW new \in {"done", "late"},
           rob' = [rob EXCEPT ![c][t].st = new]
    PROVE  /\ rob' \in [Core -> [Slot -> Entry]]
           /\ rob'[c][t].st = new
           /\ \A d \in Core, s \in Slot : ~(d = c /\ s = t) => rob'[d][s] = rob[d][s]
<1>1. rob \in [Core -> [Slot -> Entry]] /\ rob[c][t] \in Entry
  BY DEF TypeOK
<1>2. [rob[c][t] EXCEPT !.st = new] \in Entry
      /\ [rob[c][t] EXCEPT !.st = new].st = new
  BY <1>1 DEF Entry
<1>3. rob' = [rob EXCEPT ![c] = [rob[c] EXCEPT ![t] = [rob[c][t] EXCEPT !.st = new]]]
  BY <1>1
<1>4. QED
  BY <1>1, <1>2, <1>3

\* An entry that no request points to may change its state.
LEMMA EntryInOrder ==
    ASSUME TypeOK, RobInOrder, NEW c \in Core, NEW t \in Slot, NEW new \in {"done", "late"},
           rob' = [rob EXCEPT ![c][t].st = new],
           UNCHANGED <<offset, pc, ptr, size, sleeping>>,
           mshr' \subseteq mshr,
           \A e \in mshr' \cup sleeping : ~(e.core = c /\ e.slot = t)
    PROVE  RobInOrder'
<1>0. /\ RegistersMatch /\ SleepersAreYoungest /\ RequestsDistinct /\ EnoughToRetire
      /\ size \in [Core -> 0 .. RobSize]
  BY DEF RobInOrder
<1>1. \A d \in Core, s \in Slot : ~(d = c /\ s = t) => rob'[d][s] = rob[d][s]
  BY EntryChanges
<1>2. \A e \in mshr' \cup sleeping : rob'[e.core][e.slot] = rob[e.core][e.slot]
  <2> SUFFICES ASSUME NEW e \in mshr' \cup sleeping
               PROVE  rob'[e.core][e.slot] = rob[e.core][e.slot]
    OBVIOUS
  <2>1. e.core \in Core /\ e.slot \in Slot
    BY DEF TypeOK, Request
  <2>2. QED
    BY <2>1, <1>1
<1>3. RegistersMatch'
  <2> SUFFICES ASSUME NEW f \in mshr'
               PROVE  /\ f.slot \in Live(f.core)'
                      /\ rob'[f.core][f.slot] = [inst |-> f.inst, st |-> "mem"]
    BY DEF RegistersMatch
  <2>1. f.slot \in Live(f.core) /\ rob[f.core][f.slot] = [inst |-> f.inst, st |-> "mem"]
    BY <1>0, Zenon DEF RegistersMatch
  <2>2. f.slot \in Live(f.core)'
    BY <2>1 DEF Live
  <2>3. QED
    BY <2>1, <2>2, <1>2
<1>4. SleepersAreYoungest'
  <2> SUFFICES ASSUME NEW r \in sleeping
               PROVE  rob'[r.core][r.slot] = [inst |-> r.inst, st |-> "mem"]
    BY <1>0, Zenon DEF SleepersAreYoungest, Cur
  <2>1. rob[r.core][r.slot] = [inst |-> r.inst, st |-> "mem"]
    BY <1>0, Zenon DEF SleepersAreYoungest
  <2>2. QED
    BY <2>1, <1>2
<1>5. RequestsDistinct'
  BY <1>0 DEF RequestsDistinct
<1>6. EnoughToRetire'
  BY <1>0 DEF EnoughToRetire, Busy, Cur
<1>7. QED
  BY <1>0, <1>3, <1>4, <1>5, <1>6 DEF RobInOrder

\* The waiters an entry that changes its state leaves.
LEMMA EntryWaiters ==
    ASSUME TypeOK, WaitersAreRegistered, NEW c \in Core, NEW t \in Slot,
           NEW new \in {"done", "late"}, rob' = [rob EXCEPT ![c][t].st = new],
           died' = died, sleeping' = sleeping, overwritten' = overwritten,
           \A e \in mshr : e \in mshr' \/ (e.core = c /\ e.slot = t)
    PROVE  WaitersAreRegistered'
<1> SUFFICES ASSUME NEW d \in Core, NEW s \in Slot, rob'[d][s].st = "mem",
                    died = "running"
             PROVE  \/ \E e \in mshr' \cup sleeping : e.core = d /\ e.slot = s
                    \/ \E l \in Line : <<l, d, s>> \in overwritten
  BY DEF WaitersAreRegistered
<1>1. /\ rob'[c][t].st = new
      /\ ~(d = c /\ s = t) => rob'[d][s] = rob[d][s]
  BY EntryChanges
<1>2. ~(d = c /\ s = t) /\ rob[d][s].st = "mem"
  BY <1>1
<1>3. \/ \E e \in mshr \cup sleeping : e.core = d /\ e.slot = s
      \/ \E l \in Line : <<l, d, s>> \in overwritten
  BY <1>2 DEF WaitersAreRegistered
<1>4. QED
  BY <1>2, <1>3

\* An answer that finds its register: the line had one answer outstanding, or
\* one of its registers was overwritten.
LEMMA CallbackBooks ==
    ASSUME TypeOK, OneAnswerPerMiss, NoStrayCallback, strayed = {} => RobInOrder,
           NEW l \in Line, memsys_callback(l), asserts' = asserts
    PROVE  OneAnswerPerMiss' /\ NoStrayCallback'
<1>1. /\ died = "running" /\ rdOut[l] > 0
      /\ rdOut' = [rdOut EXCEPT ![l] = @ - 1]
      /\ overwritten' = overwritten
  BY DEF memsys_callback, At
<1>2. \A m \in Line : Doubled(m) \/ rdOut[m] = IF Present(m) # {} THEN 1 ELSE 0
  BY <1>1 DEF OneAnswerPerMiss
<1>3. \A m \in Line : Doubled(m)' <=> Doubled(m)
  BY <1>1 DEF Doubled
<1>4. CASE Present(l) = {}
  <2>1. Doubled(l)
    BY <1>1, <1>2, <1>4
  <2>2. strayed' = strayed \cup {l} /\ mshr' = mshr
    BY <1>4 DEF memsys_callback
  <2>3. NoStrayCallback'
    <3>1. \A m \in strayed' : Doubled(m)'
      BY <2>1, <2>2, <1>3 DEF NoStrayCallback, TypeOK
    <3>2. strayed' # {}
      BY <2>2
    <3>3. QED
      BY <3>1, <3>2, <1>1 DEF NoStrayCallback
  <2>4. OneAnswerPerMiss'
    <3>1. \A m \in Line : Present(m)' = Present(m)
      BY <2>2 DEF Present
    <3>2. \A m \in Line : m # l => rdOut'[m] = rdOut[m]
      BY <1>1 DEF TypeOK
    <3>3. \A m \in Line : Doubled(m)' \/ rdOut'[m] = IF Present(m)' # {} THEN 1 ELSE 0
      BY <2>1, <3>1, <3>2, <1>2, <1>3
    <3>4. QED
      BY <2>2, <3>3 DEF OneAnswerPerMiss
  <2>5. QED
    BY <2>3, <2>4
<1>5. CASE Present(l) # {}
  <2>1. PICK e \in mshr : /\ e.line = l
                          /\ mcore_rob_wakeup(e.core, e.slot, e.inst)
                          /\ mshr' = mshr \ {e}
                          /\ strayed' = strayed
    BY <1>5 DEF memsys_callback, Present
  <2>2. NoStrayCallback'
    <3>1. \A m \in strayed' : Doubled(m)'
      BY <2>1, <1>3 DEF NoStrayCallback, TypeOK
    <3>2. died' = "ZOMBIEWAKEUP" => strayed' # {}
      <4> SUFFICES ASSUME strayed = {} PROVE died' = died
        BY <2>1, <1>1
      <4>1. rob[e.core][e.slot] = [inst |-> e.inst, st |-> "mem"]
        BY Zenon DEF RobInOrder, RegistersMatch
      <4>2. QED
        BY <2>1, <4>1 DEF mcore_rob_wakeup
    <3>3. QED
      BY <3>1, <3>2, <1>1 DEF NoStrayCallback
  <2>3. OneAnswerPerMiss'
    <3>1. \A f, g \in mshr' : f.line = g.line => f = g
      BY <2>1 DEF OneAnswerPerMiss
    <3>2. ASSUME NEW m \in Line
          PROVE  Doubled(m)' \/ rdOut'[m] = IF Present(m)' # {} THEN 1 ELSE 0
      <4>1. CASE m = l
        <5>1. Present(l)' = {}
          BY <2>1 DEF OneAnswerPerMiss, Present
        <5>2. Doubled(l) \/ rdOut[l] = 1
          BY <1>2, <1>5
        <5>3. rdOut'[l] = rdOut[l] - 1
          BY <1>1 DEF TypeOK
        <5>4. QED
          BY <4>1, <5>1, <5>2, <5>3, <1>3
      <4>2. CASE m # l
        <5>1. Present(m)' = Present(m)
          BY <4>2, <2>1 DEF Present
        <5>2. rdOut'[m] = rdOut[m]
          BY <4>2, <1>1 DEF TypeOK
        <5>3. QED
          BY <5>1, <5>2, <1>2, <1>3
      <4>3. QED
        BY <4>1, <4>2
    <3>3. QED
      BY <3>1, <3>2 DEF OneAnswerPerMiss
  <2>4. QED
    BY <2>2, <2>3
<1>6. QED
  BY <1>4, <1>5

\* memsys_callback wakes the owner of the register and frees it; a stray
\* answer wakes entry 0 of core 0.
LEMMA CallbackKeeps ==
    ASSUME FrontEndInv, NEW l \in Line, memsys_callback(l), asserts' = asserts
    PROVE  FrontEndInv'
<1>0. /\ TypeOK /\ WaitersAreRegistered /\ OneAnswerPerMiss /\ NoStrayCallback
      /\ StoresReachMemory /\ (strayed = {} => RobInOrder)
  BY DEF FrontEndInv
<1>1. /\ rdOut' = [rdOut EXCEPT ![l] = @ - 1] /\ rdOut[l] > 0
      /\ UNCHANGED <<offset, pc, ptr, size, instNum, sleeping, cached, dirty, wrWait,
                     overwritten, unwritten, lostWb>>
  BY DEF memsys_callback, cacheVars, writeVars
\* The entry that is woken, and what happens to the registers.
<1>2. \E c \in Core, t \in Slot :
         /\ \/ rob' = [rob EXCEPT ![c][t].st = "done"] /\ died' = died
            \/ rob' = rob /\ died' \in {"NO_MSHR", "ZOMBIEWAKEUP"}
         /\ \/ mshr' = mshr /\ strayed' = strayed \cup {l}
            \/ strayed' = strayed
               /\ \E e \in mshr : mshr' = mshr \ {e} /\ e.core = c /\ e.slot = t
                                  /\ mcore_rob_wakeup(c, t, e.inst)
  <2>1. CASE Present(l) = {}
    <3>1. 0 \in Core /\ 0 \in Slot
      BY FrontEndConstants DEF Core, Slot
    <3>2. /\ IF asserts THEN died' = "NO_MSHR" /\ UNCHANGED rob
             ELSE mcore_rob_wakeup(0, 0, 0)
          /\ strayed' = strayed \cup {l} /\ mshr' = mshr
      BY <2>1 DEF memsys_callback
    <3>3. \/ rob' = [rob EXCEPT ![0][0].st = "done"] /\ died' = died
          \/ rob' = rob /\ died' \in {"NO_MSHR", "ZOMBIEWAKEUP"}
      BY <3>2 DEF mcore_rob_wakeup
    <3>4. QED
      BY <3>1, <3>2, <3>3
  <2>2. CASE Present(l) # {}
    <3>1. PICK e \in mshr : /\ mcore_rob_wakeup(e.core, e.slot, e.inst)
                            /\ mshr' = mshr \ {e}
                            /\ strayed' = strayed
      BY <2>2 DEF memsys_callback, Present
    <3>2. PICK c \in Core, t \in Slot : e.core = c /\ e.slot = t
      BY <1>0 DEF TypeOK, Request
    <3>3. mcore_rob_wakeup(c, t, e.inst)
      BY <3>1, <3>2
    <3>4. \/ rob' = [rob EXCEPT ![c][t].st = "done"] /\ died' = died
          \/ rob' = rob /\ died' \in {"NO_MSHR", "ZOMBIEWAKEUP"}
      BY <3>3 DEF mcore_rob_wakeup
    <3>5. QED
      BY <3>1, <3>2, <3>3, <3>4
  <2>3. QED
    BY <2>1, <2>2
<1>3. PICK c \in Core, t \in Slot :
         /\ \/ rob' = [rob EXCEPT ![c][t].st = "done"] /\ died' = died
            \/ rob' = rob /\ died' \in {"NO_MSHR", "ZOMBIEWAKEUP"}
         /\ \/ mshr' = mshr /\ strayed' = strayed \cup {l}
            \/ strayed' = strayed
               /\ \E e \in mshr : mshr' = mshr \ {e} /\ e.core = c /\ e.slot = t
                                  /\ mcore_rob_wakeup(c, t, e.inst)
  BY <1>2
<1>4. "done" \in {"done", "late"}
  OBVIOUS
<1>5. TypeOK'
  <2>1. rob' \in [Core -> [Slot -> Entry]]
    <3>1. CASE rob' = rob
      BY <3>1, <1>0 DEF TypeOK
    <3>2. CASE rob' = [rob EXCEPT ![c][t].st = "done"]
      BY <3>2, <1>0, <1>4, EntryChanges
    <3>3. QED
      BY <3>1, <3>2, <1>3
  <2>2. rdOut' \in [Line -> Nat]
    BY <1>0, <1>1 DEF TypeOK
  <2>3. mshr' \subseteq Request /\ strayed' \subseteq Line
    BY <1>0, <1>3 DEF TypeOK
  <2>4. died' \in Death
    BY <1>0, <1>3 DEF TypeOK, Death
  <2>5. QED
    BY <2>1, <2>2, <2>3, <2>4, <1>0, <1>1 DEF TypeOK
<1>6. WaitersAreRegistered'
  <2>1. CASE died' \in {"NO_MSHR", "ZOMBIEWAKEUP"}
    BY <2>1 DEF WaitersAreRegistered
  <2>2. CASE rob' = [rob EXCEPT ![c][t].st = "done"] /\ died' = died
    <3>1. \A e \in mshr : e \in mshr' \/ (e.core = c /\ e.slot = t)
      BY <1>3
    <3>2. QED
      BY <2>2, <3>1, <1>0, <1>1, <1>4, EntryWaiters
  <2>3. QED
    BY <2>1, <2>2, <1>3
<1>7. OneAnswerPerMiss' /\ NoStrayCallback'
  BY <1>0, CallbackBooks
<1>8. StoresReachMemory'
  BY <1>0, <1>1 DEF StoresReachMemory
<1>9. ASSUME strayed' = {} PROVE RobInOrder'
  <2>1. strayed = {} /\ RobInOrder
    BY <1>0, <1>3, <1>9
  <2>2. PICK e \in mshr : /\ mshr' = mshr \ {e} /\ e.core = c /\ e.slot = t
                          /\ mcore_rob_wakeup(c, t, e.inst)
    BY <1>3, <1>9
  <2>3. RequestsDistinct
    BY <2>1 DEF RobInOrder
  <2>4. \A f \in mshr' \cup sleeping : ~(f.core = c /\ f.slot = t)
    <3> SUFFICES ASSUME NEW f \in mshr' \cup sleeping
                 PROVE  ~(f.core = c /\ f.slot = t)
      OBVIOUS
    <3>1. f \in mshr \cup sleeping /\ f # e
      BY <2>2, <2>3 DEF RequestsDistinct
    <3>2. QED
      BY <3>1, <2>2, <2>3 DEF RequestsDistinct
  <2>5. rob[c][t] = [inst |-> e.inst, st |-> "mem"]
    <3>1. rob[e.core][e.slot] = [inst |-> e.inst, st |-> "mem"]
      BY <2>1, Zenon DEF RobInOrder, RegistersMatch
    <3>2. QED
      BY <3>1, <2>2
  <2>6. rob' = [rob EXCEPT ![c][t].st = "done"]
    BY <2>2, <2>5 DEF mcore_rob_wakeup
  <2>7. mshr' \subseteq mshr
    BY <2>2
  <2>8. QED
    BY <2>1, <2>4, <2>6, <2>7, <1>0, <1>1, <1>4, EntryInOrder
<1>10. QED
  BY <1>5, <1>6, <1>7, <1>8, <1>9 DEF FrontEndInv

\* A step that leaves registers, answers and stores alone keeps the books.
LEMMA FrameBooks ==
    ASSUME OneAnswerPerMiss, NoStrayCallback, StoresReachMemory,
           UNCHANGED <<dirty, memVars, asserts>>,
           died' = died \/ died' = "LOST_PACKET"
    PROVE  OneAnswerPerMiss' /\ NoStrayCallback' /\ StoresReachMemory'
<1>1. UNCHANGED <<mshr, rdOut, overwritten, strayed, wrWait, unwritten, lostWb>>
  BY DEF memVars, readVars, writeVars
<1>2. OneAnswerPerMiss'
  BY <1>1 DEF OneAnswerPerMiss, Present, Doubled
<1>3. NoStrayCallback' /\ StoresReachMemory'
  BY <1>1 DEF NoStrayCallback, StoresReachMemory, Doubled
<1>4. QED
  BY <1>2, <1>3

\* The latencies that elapse touch no entry a request points to.
LEMMA TimeKeeps ==
    ASSUME FrontEndInv, NEW c \in Core, NEW t \in Slot,
           L3LatencyElapses(c, t) \/ DefaultDelayElapses(c, t), asserts' = asserts
    PROVE  FrontEndInv'
<1>0. /\ TypeOK /\ WaitersAreRegistered /\ OneAnswerPerMiss /\ NoStrayCallback
      /\ StoresReachMemory /\ (strayed = {} => RobInOrder)
  BY DEF FrontEndInv
<1>1. PICK st \in {"l3", "mem"}, new \in {"done", "late"} :
         /\ TimeElapses(c, t, st, new)
         /\ st = "mem" => \A e \in mshr \cup sleeping : ~(e.core = c /\ e.slot = t)
  BY DEF L3LatencyElapses, DefaultDelayElapses
<1>2. /\ rob[c][t].st = st
      /\ rob' = [rob EXCEPT ![c][t].st = new]
      /\ UNCHANGED <<offset, pc, ptr, size, instNum, sleeping, cached, dirty, memVars,
                     died>>
  BY <1>1 DEF TimeElapses, cacheVars
<1>3. UNCHANGED <<mshr, rdOut, overwritten, strayed, wrWait, unwritten, lostWb>>
  BY <1>2 DEF memVars, readVars, writeVars
<1>4. TypeOK'
  <2>1. rob' \in [Core -> [Slot -> Entry]]
    BY <1>0, <1>2, EntryChanges
  <2>2. QED
    BY <2>1, <1>0, <1>2, <1>3 DEF TypeOK
<1>5. WaitersAreRegistered'
  BY <1>0, <1>2, <1>3, EntryWaiters
<1>6. OneAnswerPerMiss' /\ NoStrayCallback' /\ StoresReachMemory'
  BY <1>0, <1>2, FrameBooks
<1>7. ASSUME strayed' = {} PROVE RobInOrder'
  <2>1. RobInOrder
    BY <1>0, <1>3, <1>7
  <2>2. \A e \in mshr \cup sleeping : ~(e.core = c /\ e.slot = t)
    <3>1. CASE st = "mem"
      BY <3>1, <1>1
    <3>2. CASE st = "l3"
      <4> SUFFICES ASSUME NEW e \in mshr \cup sleeping, e.core = c, e.slot = t
                   PROVE  FALSE
        OBVIOUS
      <4>1. rob[e.core][e.slot] = [inst |-> e.inst, st |-> "mem"]
        BY <2>1, Zenon DEF RobInOrder, RegistersMatch, SleepersAreYoungest
      <4>2. QED
        BY <4>1, <3>2, <1>2
    <3>3. QED
      BY <3>1, <3>2
  <2>3. QED
    BY <2>1, <2>2, <1>0, <1>2, <1>3, EntryInOrder
<1>8. QED
  BY <1>4, <1>5, <1>6, <1>7 DEF FrontEndInv

-----------------------------------------------------------------------------
(* The steps of a core, whole.                                             *)

\* Retirement changes no request and no book.
LEMMA RetireKeeps ==
    ASSUME FrontEndInv, mcore_rob_retire, asserts' = asserts
    PROVE  FrontEndInv'
<1>0. /\ TypeOK /\ WaitersAreRegistered /\ OneAnswerPerMiss /\ NoStrayCallback
      /\ StoresReachMemory /\ (strayed = {} => RobInOrder)
  BY DEF FrontEndInv
<1>1. PICK c \in Core : c = Cur
  BY <1>0, CurType
<1>2. /\ GoTo("retry") /\ died = "running"
      /\ UNCHANGED <<rob, instNum, sleeping, cached, dirty, memVars>>
  BY DEF mcore_rob_retire, At, cacheVars
<1>3. UNCHANGED <<mshr, rdOut, overwritten, strayed, wrWait, unwritten, lostWb>>
  BY <1>2 DEF memVars, readVars, writeVars
<1>4. PICK n \in 0 .. CoreWidth :
         /\ ptr' = [ptr EXCEPT ![c] = RobIndex(@, n)]
         /\ size' = [size EXCEPT ![c] =
                        IF n <= @ THEN @ - n ELSE @ - n + UnsModulus]
         /\ died' \in {"running", "LOST_PACKET"}
  BY <1>1, <1>2 DEF mcore_rob_retire
<1>5. TypeOK'
  <2>1. n \in 0 .. UnsModulus - 1 /\ n \in Nat /\ UnsModulus \in Nat
    BY FrontEndConstants
  <2>2. ptr' \in [Core -> Slot]
    <3>1. ptr[c] \in Slot
      BY <1>0 DEF TypeOK
    <3>2. RobIndex(ptr[c], n) \in Slot
      BY <2>1, <3>1, RobIndexType
    <3>3. QED
      BY <3>2, <1>0, <1>4 DEF TypeOK
  <2>3. size' \in [Core -> 0 .. UnsModulus - 1]
    <3>1. size[c] \in 0 .. UnsModulus - 1
      BY <1>0 DEF TypeOK
    <3>2. (IF n <= size[c] THEN size[c] - n ELSE size[c] - n + UnsModulus)
             \in 0 .. UnsModulus - 1
      BY <2>1, <3>1
    <3>3. QED
      BY <3>2, <1>0, <1>4 DEF TypeOK
  <2>4. offset' \in Core /\ pc' \in Position
    BY <1>0, <1>2, AfterGoTo
  <2>5. died' \in Death
    BY <1>4 DEF Death
  <2>6. QED
    BY <2>2, <2>3, <2>4, <2>5, <1>0, <1>2, <1>3 DEF TypeOK
<1>6. WaitersAreRegistered'
  BY <1>0, <1>2, <1>3 DEF WaitersAreRegistered
<1>7. OneAnswerPerMiss' /\ NoStrayCallback' /\ StoresReachMemory'
  BY <1>0, <1>2, <1>4, FrameBooks
<1>8. ASSUME strayed' = {} PROVE RobInOrder'
  BY <1>0, <1>3, <1>8, RetireInOrder
<1>9. QED
  BY <1>5, <1>6, <1>7, <1>8 DEF FrontEndInv

\* What mcore_rob_insert does to the ROBs, in order or not.
Placed(c, t, inst, st) ==
    /\ rob' \in [Core -> [Slot -> Entry]]
    /\ size' \in [Core -> 0 .. UnsModulus - 1]
    /\ ptr' = ptr
    /\ rob'[c][t] = [inst |-> inst, st |-> st]
    /\ \A d \in Core, s \in Slot : ~(d = c /\ s = t) => rob'[d][s] = rob[d][s]

\* mcore_rob_insert writes one entry, of the right type.
LEMMA InsertTypes ==
    ASSUME TypeOK, NEW c \in Core, NEW t \in Slot, t = RobTail(c),
           NEW inst \in 0 .. TraceLen, NEW st \in {"done", "l3", "mem"},
           mcore_rob_insert(c, inst, st)
    PROVE  Placed(c, t, inst, st)
<1>1. /\ rob' = [rob EXCEPT ![c][t] = [inst |-> inst, st |-> st]]
      /\ size' = [size EXCEPT ![c] = IF @ + 1 < UnsModulus THEN @ + 1 ELSE 0]
      /\ ptr' = ptr
  BY DEF mcore_rob_insert
<1>2. [inst |-> inst, st |-> st] \in Entry
  BY DEF Entry
<1>3. size[c] \in 0 .. UnsModulus - 1 /\ UnsModulus \in Nat \ {0}
  BY FrontEndConstants DEF TypeOK
<1>4. (IF size[c] + 1 < UnsModulus THEN size[c] + 1 ELSE 0) \in 0 .. UnsModulus - 1
  BY <1>3
<1>5. size' \in [Core -> 0 .. UnsModulus - 1]
  BY <1>1, <1>4 DEF TypeOK
<1>6. QED
  BY <1>1, <1>2, <1>5 DEF TypeOK, Placed

\* A plain instruction, a write or a cache hit.
LEMMA DispatchQuietKeeps ==
    ASSUME FrontEndInv, NEW inst \in 0 .. TraceLen, NEW st \in {"done", "l3"},
           Dispatch(inst, st), LoopAgain,
           cached' = cached, dirty' \subseteq cached,
           UNCHANGED <<sleeping, readVars, wrWait, died, asserts>>,
           unwritten' \subseteq Line, lostWb' \subseteq Line, StoresReachMemory'
    PROVE  FrontEndInv'
<1>0. /\ TypeOK /\ WaitersAreRegistered /\ OneAnswerPerMiss /\ NoStrayCallback
      /\ (strayed = {} => RobInOrder)
  BY DEF FrontEndInv
<1>1. PICK c \in Core : c = Cur
  BY <1>0, CurType
<1>2. PICK t \in Slot : t = RobTail(c)
  BY <1>0, TailType
<1>3. /\ pc.stage = "dispatch"
      /\ instNum' = [instNum EXCEPT ![c] = inst]
      /\ mcore_rob_insert(c, inst, st)
  BY <1>1 DEF Dispatch, At
<1>4. UNCHANGED <<mshr, rdOut, overwritten, strayed>>
  BY DEF readVars
<1>5. /\ rob' \in [Core -> [Slot -> Entry]]
      /\ size' \in [Core -> 0 .. UnsModulus - 1]
      /\ ptr' = ptr
      /\ rob'[c][t] = [inst |-> inst, st |-> st]
      /\ \A d \in Core, s \in Slot : ~(d = c /\ s = t) => rob'[d][s] = rob[d][s]
  <2>1. st \in {"done", "l3", "mem"}
    OBVIOUS
  <2>2. Placed(c, t, inst, st)
    BY <2>1, <1>0, <1>2, <1>3, InsertTypes
  <2>3. QED
    BY <2>2 DEF Placed
<1>6. TypeOK'
  <2>1. instNum' \in [Core -> 0 .. TraceLen]
    BY <1>0, <1>3 DEF TypeOK
  <2>2. ptr' \in [Core -> Slot]
    BY <1>0, <1>5 DEF TypeOK
  <2>3. offset' \in Core /\ pc' \in Position
    BY <1>0, <1>3, AfterLoop
  <2>4. QED
    BY <2>1, <2>2, <2>3, <1>0, <1>4, <1>5 DEF TypeOK
<1>7. WaitersAreRegistered'
  BY <1>0, <1>4, <1>5 DEF WaitersAreRegistered
<1>8. OneAnswerPerMiss' /\ NoStrayCallback'
  BY <1>0, <1>4 DEF OneAnswerPerMiss, NoStrayCallback, Present, Doubled
<1>9. ASSUME strayed' = {} PROVE RobInOrder'
  BY <1>0, <1>4, <1>9, DispatchQuietInOrder
<1>10. QED
  BY <1>6, <1>7, <1>8, <1>9 DEF FrontEndInv

\* A miss: the victim's data leaves the cache for the memory or is lost.
LEMMA DispatchMissKeeps ==
    ASSUME FrontEndInv, DispatchMiss, asserts' = asserts
    PROVE  FrontEndInv'
<1>0. /\ TypeOK /\ WaitersAreRegistered /\ OneAnswerPerMiss /\ NoStrayCallback
      /\ StoresReachMemory /\ (strayed = {} => RobInOrder)
  BY DEF FrontEndInv
<1>1. PICK c \in Core, inst \in 0 .. TraceLen, l \in Line \ cached, ok \in BOOLEAN,
              t \in Slot, req \in Request, victim \in SUBSET Line :
              /\ c = Cur /\ t = RobTail(c)
              /\ req.line = l /\ req.core = c /\ req.slot = t /\ req.inst = inst
              /\ Dispatch(inst, "mem")
              /\ mcache_install(l, victim)
              /\ memsys_access(req, ok)
              /\ AddWriteback(victim \cap dirty)
              /\ IF ok THEN LoopAgain /\ UNCHANGED sleeping
                 ELSE CoreCycleEnds /\ sleeping' = sleeping \cup {req}
  BY <1>0, MissParts
<1>2. /\ pc.stage = "dispatch" /\ died = "running"
      /\ instNum' = [instNum EXCEPT ![c] = inst]
      /\ mcore_rob_insert(c, inst, "mem")
  BY <1>1 DEF Dispatch, At
<1>3. /\ rob' \in [Core -> [Slot -> Entry]]
      /\ size' \in [Core -> 0 .. UnsModulus - 1]
      /\ ptr' = ptr
      /\ \A d \in Core, s \in Slot : ~(d = c /\ s = t) => rob'[d][s] = rob[d][s]
  <2>1. Placed(c, t, inst, "mem")
    BY <1>0, <1>1, <1>2, InsertTypes
  <2>2. QED
    BY <2>1 DEF Placed
<1>4. /\ mshr' \subseteq Request /\ overwritten' \subseteq Line \X Core \X Slot
      /\ died' \in {"running", "MSHR_PRESENT"}
  BY <1>0, <1>1, <1>2, AccessRequests
<1>5. rdOut' \in [Line -> Nat] /\ strayed' = strayed
  BY <1>0, <1>1, AccessOutcomes
<1>6. sleeping' = IF ok THEN sleeping ELSE sleeping \cup {req}
  BY <1>1
<1>7. /\ cached' = (cached \ victim) \cup {l}
      /\ dirty' = dirty \ (victim \cup {l})
  BY <1>1 DEF mcache_install
<1>8. /\ \/ wrWait' = wrWait \cup (victim \cap dirty) /\ lostWb' = lostWb
         \/ lostWb' = lostWb \cup (victim \cap dirty) /\ wrWait' = wrWait
      /\ unwritten' = unwritten
  BY <1>1 DEF AddWriteback
<1>9. TypeOK'
  <2>1. instNum' \in [Core -> 0 .. TraceLen] /\ ptr' \in [Core -> Slot]
    BY <1>0, <1>2, <1>3 DEF TypeOK
  <2>2. sleeping' \subseteq Request
    BY <1>0, <1>6 DEF TypeOK
  <2>3. cached' \subseteq Line /\ dirty' \subseteq cached'
    BY <1>0, <1>7 DEF TypeOK
  <2>4. wrWait' \subseteq Line /\ lostWb' \subseteq Line /\ unwritten' \subseteq Line
    BY <1>0, <1>8 DEF TypeOK
  <2>5. died' \in Death
    BY <1>4 DEF Death
  <2>6. offset' \in Core /\ pc' \in Position
    BY <1>0, <1>1, <1>2, AfterLoop, AfterCoreCycle
  <2>7. strayed' \subseteq Line /\ asserts' \in BOOLEAN
    BY <1>0, <1>5 DEF TypeOK
  <2>8. QED
    BY <2>1, <2>2, <2>3, <2>4, <2>5, <2>6, <2>7, <1>3, <1>4, <1>5 DEF TypeOK
<1>10. WaitersAreRegistered'
  <2>1. sleeping \subseteq sleeping' \cup {req} /\ (~ok => req \in sleeping')
    BY <1>6
  <2>2. \A d \in Core, s \in Slot :
           ~(d = req.core /\ s = req.slot) => rob'[d][s] = rob[d][s]
    BY <1>1, <1>3
  <2>3. QED
    BY <2>1, <2>2, <1>0, <1>1, <1>2, AccessWaiters
<1>11. OneAnswerPerMiss' /\ NoStrayCallback'
  BY <1>0, <1>1, <1>2, AccessBooks
<1>12. StoresReachMemory'
  <2>1. l \notin dirty
    BY <1>0 DEF TypeOK
  <2>2. QED
    BY <2>1, <1>0, <1>7, <1>8 DEF StoresReachMemory
<1>13. ASSUME strayed' = {} PROVE RobInOrder'
  BY <1>0, <1>5, <1>13, DispatchMissInOrder
<1>14. QED
  BY <1>9, <1>10, <1>11, <1>12, <1>13 DEF FrontEndInv

\* The retry of a sleeping core's request.
LEMMA RetryKeeps ==
    ASSUME FrontEndInv, mcore_retry_sleeping_request, asserts' = asserts
    PROVE  FrontEndInv'
<1>0. /\ TypeOK /\ WaitersAreRegistered /\ OneAnswerPerMiss /\ NoStrayCallback
      /\ StoresReachMemory /\ (strayed = {} => RobInOrder)
  BY DEF FrontEndInv
<1>1. PICK c \in Core : c = Cur
  BY <1>0, CurType
<1>2. PICK req \in sleeping, ok \in BOOLEAN :
         /\ req.core = c
         /\ memsys_access(req, ok)
         /\ IF ok
            THEN /\ rob' = [rob EXCEPT ![c][req.slot] =
                               [inst |-> req.inst, st |-> "mem"]]
                 /\ sleeping' = sleeping \ {req}
                 /\ GoTo("dispatch")
            ELSE CoreCycleEnds /\ UNCHANGED <<rob, sleeping>>
  BY <1>1 DEF mcore_retry_sleeping_request
<1>3. /\ pc.stage = "retry" /\ died = "running"
      /\ UNCHANGED <<ptr, size, instNum, cached, dirty, wrWait, unwritten, lostWb>>
  BY DEF mcore_retry_sleeping_request, At, cacheVars, writeVars
<1>4. req \in Request /\ req.slot \in Slot /\ req.inst \in 0 .. TraceLen
  BY <1>0 DEF TypeOK, Request
<1>5. /\ rob' \in [Core -> [Slot -> Entry]]
      /\ \A d \in Core, s \in Slot :
            ~(d = req.core /\ s = req.slot) => rob'[d][s] = rob[d][s]
  <2>1. CASE ok
    <3>1. [inst |-> req.inst, st |-> "mem"] \in Entry
      BY <1>4 DEF Entry
    <3>2. QED
      BY <2>1, <3>1, <1>0, <1>2, <1>4 DEF TypeOK
  <2>2. CASE ~ok
    BY <2>2, <1>0, <1>2 DEF TypeOK
  <2>3. QED
    BY <2>1, <2>2
<1>6. /\ mshr' \subseteq Request /\ overwritten' \subseteq Line \X Core \X Slot
      /\ died' \in {"running", "MSHR_PRESENT"}
  BY <1>0, <1>2, <1>3, <1>4, AccessRequests
<1>7. rdOut' \in [Line -> Nat] /\ strayed' = strayed
  BY <1>0, <1>2, <1>4, AccessOutcomes
<1>8. /\ sleeping' \subseteq sleeping /\ sleeping \subseteq sleeping' \cup {req}
      /\ ~ok => req \in sleeping'
  BY <1>2
<1>9. TypeOK'
  <2>1. offset' \in Core /\ pc' \in Position
    BY <1>0, <1>2, AfterGoTo, AfterCoreCycle
  <2>2. died' \in Death
    BY <1>6 DEF Death
  <2>3. QED
    BY <2>1, <2>2, <1>0, <1>3, <1>5, <1>6, <1>7, <1>8 DEF TypeOK
<1>10. WaitersAreRegistered'
  BY <1>0, <1>2, <1>3, <1>4, <1>5, <1>8, AccessWaiters
<1>11. OneAnswerPerMiss' /\ NoStrayCallback'
  BY <1>0, <1>2, <1>3, <1>4, AccessBooks
<1>12. StoresReachMemory'
  BY <1>0, <1>3 DEF StoresReachMemory
<1>13. ASSUME strayed' = {} PROVE RobInOrder'
  BY <1>0, <1>7, <1>13, RetryInOrder
<1>14. QED
  BY <1>9, <1>10, <1>11, <1>12, <1>13 DEF FrontEndInv

\* A step that moves the main loop on keeps the ROBs in order.
LEMMA LoopInOrder ==
    ASSUME TypeOK, RobInOrder, UNCHANGED <<rob, ptr, size, sleeping, mshr>>,
           \/ NotSleeping \/ RobFull \/ CycleEnds
           \/ offset' = offset /\ pc' = pc
    PROVE  RobInOrder'
<1>0. /\ RegistersMatch /\ SleepersAreYoungest /\ RequestsDistinct /\ EnoughToRetire
      /\ size \in [Core -> 0 .. RobSize]
  BY DEF RobInOrder
\* The new position, and what makes it sound for the core that moved.
<1>3. /\ \A r \in sleeping : ~(r.core = Cur' /\ pc'.stage = "dispatch")
      /\ EnoughToRetire'
  <2>1. CASE NotSleeping
    <3>1. pc'.stage = "dispatch" /\ pc'.k = 0 /\ Cur' = Cur
      BY <2>1, AfterGoTo DEF NotSleeping
    <3>2. \A r \in sleeping : r.core # Cur
      BY <2>1 DEF NotSleeping
    <3>3. pc.stage = "retry"
      BY <2>1 DEF NotSleeping, At
    <3>4. \A d \in Core : size[d] >= 0
      BY <1>0
    <3>5. \A d \in Core : Busy(d)' <=> Busy(d)
      BY <3>1, <3>3 DEF Busy
    <3>6. EnoughToRetire'
      BY <3>1, <3>4, <3>5, <1>0 DEF EnoughToRetire
    <3>7. QED
      BY <3>1, <3>2, <3>6
  <2>2. CASE RobFull
    <3>1. PICK c \in Core : c = Cur
      BY CurType
    <3>2. CoreCycleEnds /\ size'[c] >= CoreWidth
      BY <2>2, <3>1, FrontEndConstants DEF RobFull
    <3>3. EnoughToRetire'
      BY <3>1, <3>2, <1>0, EnoughAfterCycle
    <3>4. QED
      BY <3>2, <3>3, AfterCoreCycle
  <2>3. CASE CycleEnds
    <3>1. pc'.stage = "retire" /\ pc.stage = "mem"
      BY <2>3 DEF CycleEnds, At
    <3>2. EnoughToRetire'
      BY <3>1, <1>0 DEF EnoughToRetire, Busy
    <3>3. QED
      BY <3>1, <3>2
  <2>4. CASE offset' = offset /\ pc' = pc
    <3>1. EnoughToRetire'
      BY <2>4, <1>0 DEF EnoughToRetire, Busy, Cur
    <3>2. QED
      BY <2>4, <3>1, <1>0, Zenon DEF SleepersAreYoungest, Cur
  <2>5. QED
    BY <2>1, <2>2, <2>3, <2>4
<1>4. SleepersAreYoungest'
  BY <1>0, <1>3, Zenon DEF SleepersAreYoungest
<1>5. RegistersMatch' /\ RequestsDistinct'
  BY <1>0 DEF RegistersMatch, RequestsDistinct, Live
<1>6. QED
  BY <1>0, <1>3, <1>4, <1>5 DEF RobInOrder

\* The steps that only move the main loop on.
LEMMA LoopStepsKeep ==
    ASSUME FrontEndInv, asserts' = asserts,
           NotSleeping \/ RobFull \/ CycleEnds \/ UNCHANGED vars
    PROVE  FrontEndInv'
<1>0. /\ TypeOK /\ WaitersAreRegistered /\ OneAnswerPerMiss /\ NoStrayCallback
      /\ StoresReachMemory /\ (strayed = {} => RobInOrder)
  BY DEF FrontEndInv
<1>1. UNCHANGED <<rob, ptr, size, instNum, sleeping, cached, dirty, memVars, died>>
  BY DEF NotSleeping, RobFull, CycleEnds, vars, coreVars, cacheVars, memVars, readVars,
         writeVars
<1>2. UNCHANGED <<mshr, rdOut, overwritten, strayed, wrWait, unwritten, lostWb>>
  BY <1>1 DEF memVars, readVars, writeVars
<1>3. offset' \in Core /\ pc' \in Position
  <2>1. CASE NotSleeping
    BY <2>1, <1>0, AfterGoTo DEF NotSleeping
  <2>2. CASE RobFull
    BY <2>2, <1>0, AfterCoreCycle DEF RobFull
  <2>3. CASE CycleEnds
    <3>1. 0 \in Core /\ 0 \in 0 .. CoreWidth - 1
      BY FrontEndConstants DEF Core
    <3>2. pc' \in Position
      BY <2>3, <3>1 DEF CycleEnds, Position
    <3>3. offset' \in Core
      BY <2>3, <1>0, FrontEndConstants DEF CycleEnds, TypeOK, Core
    <3>4. QED
      BY <3>2, <3>3
  <2>4. CASE UNCHANGED vars
    BY <2>4, <1>0 DEF vars, TypeOK
  <2>5. QED
    BY <2>1, <2>2, <2>3, <2>4
<1>4. TypeOK'
  BY <1>0, <1>1, <1>2, <1>3 DEF TypeOK
<1>5. WaitersAreRegistered'
  BY <1>0, <1>1, <1>2 DEF WaitersAreRegistered
<1>6. OneAnswerPerMiss' /\ NoStrayCallback' /\ StoresReachMemory'
  BY <1>0, <1>1, FrameBooks
<1>7. ASSUME strayed' = {} PROVE RobInOrder'
  BY <1>0, <1>1, <1>2, <1>7, LoopInOrder DEF vars
<1>8. QED
  BY <1>4, <1>5, <1>6, <1>7 DEF FrontEndInv

\* A write in the memory: what was stored last is written, dirty again, or lost.
LEMMA WriteKeeps ==
    ASSUME FrontEndInv, NEW l \in Line, WritePerformed(l), asserts' = asserts
    PROVE  FrontEndInv'
<1>0. /\ TypeOK /\ WaitersAreRegistered /\ OneAnswerPerMiss /\ NoStrayCallback
      /\ StoresReachMemory /\ (strayed = {} => RobInOrder)
  BY DEF FrontEndInv
<1>1. /\ UNCHANGED <<offset, pc, rob, ptr, size, instNum, sleeping, cached, dirty, mshr,
                     rdOut, overwritten, strayed, lostWb, died>>
      /\ wrWait' = wrWait \ {l}
      /\ unwritten' = unwritten \ ({l} \ (dirty \cup lostWb))
  BY DEF WritePerformed, coreVars, cacheVars, readVars
<1>2. TypeOK'
  BY <1>0, <1>1 DEF TypeOK
<1>3. WaitersAreRegistered'
  BY <1>0, <1>1 DEF WaitersAreRegistered
<1>4. OneAnswerPerMiss' /\ NoStrayCallback'
  BY <1>0, <1>1 DEF OneAnswerPerMiss, NoStrayCallback, Present, Doubled
<1>5. StoresReachMemory'
  BY <1>0, <1>1 DEF StoresReachMemory
<1>6. ASSUME strayed' = {} PROVE RobInOrder'
  BY <1>0, <1>1, <1>6, LoopInOrder
<1>7. QED
  BY <1>2, <1>3, <1>4, <1>5, <1>6 DEF FrontEndInv

\* Every step of the front end keeps the invariant.
LEMMA NextKeeps == FrontEndInv /\ [Next]_<<vars, asserts>> => FrontEndInv'
<1> SUFFICES ASSUME FrontEndInv, [Next]_<<vars, asserts>> PROVE FrontEndInv'
  OBVIOUS
<1>0. asserts' = asserts
  BY DEF Next
<1>1. CASE mcore_rob_retire
  BY <1>0, <1>1, RetireKeeps
<1>2. CASE mcore_retry_sleeping_request
  BY <1>0, <1>2, RetryKeeps
<1>3. CASE DispatchPlain
  <2>1. PICK inst \in 0 .. TraceLen :
           /\ Dispatch(inst, "done")
           /\ LoopAgain
           /\ \/ UNCHANGED <<dirty, unwritten, lostWb>>
              \/ \E l \in LinesOf[Cur] \cap cached :
                    /\ dirty' = dirty \cup {l}
                    /\ unwritten' = unwritten \cup {l}
                    /\ lostWb' = lostWb \ {l}
           /\ UNCHANGED <<sleeping, cached, readVars, wrWait, died>>
    BY <1>3 DEF DispatchPlain
  <2>2. TypeOK /\ StoresReachMemory
    BY DEF FrontEndInv
  <2>3. dirty' \subseteq cached /\ unwritten' \subseteq Line /\ lostWb' \subseteq Line
    BY <2>1, <2>2 DEF TypeOK
  <2>4. StoresReachMemory'
    BY <2>1, <2>2 DEF StoresReachMemory
  <2>5. QED
    BY <2>1, <2>3, <2>4, <1>0, DispatchQuietKeeps
<1>4. CASE DispatchHit
  <2>1. PICK inst \in 0 .. TraceLen :
           /\ Dispatch(inst, "l3")
           /\ LoopAgain
           /\ UNCHANGED <<sleeping, cached, dirty, readVars, wrWait, unwritten, lostWb, died>>
    BY <1>4 DEF DispatchHit, cacheVars, memVars, writeVars
  <2>2. TypeOK /\ StoresReachMemory
    BY DEF FrontEndInv
  <2>3. dirty' \subseteq cached /\ unwritten' \subseteq Line /\ lostWb' \subseteq Line
    BY <2>1, <2>2 DEF TypeOK
  <2>4. StoresReachMemory'
    BY <2>1, <2>2 DEF StoresReachMemory
  <2>5. QED
    BY <2>1, <2>3, <2>4, <1>0, DispatchQuietKeeps
<1>5. CASE DispatchMiss
  BY <1>0, <1>5, DispatchMissKeeps
<1>6. CASE \E l \in Line : memsys_callback(l)
  BY <1>0, <1>6, CallbackKeeps
<1>7. CASE \E c \in Core, t \in Slot :
              L3LatencyElapses(c, t) \/ DefaultDelayElapses(c, t)
  BY <1>0, <1>7, TimeKeeps
<1>8. CASE NotSleeping \/ RobFull \/ CycleEnds \/ UNCHANGED vars
  BY <1>0, <1>8, LoopStepsKeep
<1>9. CASE \E l \in Line : WritePerformed(l)
  BY <1>0, <1>9, WriteKeeps
<1>10. QED
  BY <1>1, <1>2, <1>3, <1>4, <1>5, <1>6, <1>7, <1>8, <1>9 DEF Next, mcore_cycle

-----------------------------------------------------------------------------
(* The theorems.                                                           *)

\* The inductive invariant holds in every reachable state.
THEOREM FrontEndInvariant == Spec => []FrontEndInv
BY InitEstablishes, NextKeeps, PTL DEF Spec

\* A callback finds the instruction that caused the miss, in the ROB and
\* waiting, in both builds and up to the first stray answer.
THEOREM Wakeups == Spec => []WakeupsMatch
<1>1. FrontEndInv => WakeupsMatch
  BY DEF FrontEndInv, RobInOrder, WakeupsMatch
<1>2. QED
  BY FrontEndInvariant, <1>1, PTL

\* However the answers are ordered, memsys_callback finds a register, and
\* mcore_rob_wakeup the instruction, unless a second miss of the same line
\* has overwritten a register of that line, which only a Release build lives
\* to do: with assertions neither NO_MSHR nor ZOMBIEWAKEUP is reachable.
THEOREM Callbacks == Spec => []NoStrayCallback
<1>1. FrontEndInv => NoStrayCallback
  BY DEF FrontEndInv
<1>2. QED
  BY FrontEndInvariant, <1>1, PTL

\* No waiting instruction is forgotten, but for one whose register was
\* overwritten.
THEOREM Waiters == Spec => []WaitersAreRegistered
<1>1. FrontEndInv => WaitersAreRegistered
  BY DEF FrontEndInv
<1>2. QED
  BY FrontEndInvariant, <1>1, PTL

\* A store is lost only where memsys_access ignores that its write-back was
\* refused, in both builds and also after stray answers.
THEOREM Stores == Spec => []StoresReachMemory
<1>1. FrontEndInv => StoresReachMemory
  BY DEF FrontEndInv
<1>2. QED
  BY FrontEndInvariant, <1>1, PTL

\* mcore_rob_retire never takes more than the ROB holds, though it tests for
\* an empty ROB only once per cycle: the unsigned rob.size does not wrap
\* before a stray answer comes.
THEOREM RetireInRob == Spec => []RetireStaysInRob
<1>1. FrontEndInv => RetireStaysInRob
  <2> SUFFICES ASSUME FrontEndInv, strayed = {}, NEW c \in Core, ~Busy(c), size[c] # 0,
                      NEW n \in 0 .. CoreWidth, Retirable(c, n)
               PROVE  n <= size[c]
    BY DEF RetireStaysInRob
  <2>1. QED
    BY RetireBound DEF FrontEndInv, RobInOrder
<1>2. QED
  BY FrontEndInvariant, <1>1, PTL
=============================================================================

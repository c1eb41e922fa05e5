------------------------------ MODULE FrontEnd ------------------------------
(***************************************************************************)
(* The trace-driven cores and what they share: the reorder buffer of each  *)
(* MCore (mcore.cpp), the last-level cache (mcache.cpp) and the miss       *)
(* registers of MemSys (memsys_dramsim3.cpp), in the order in which the    *)
(* main loop of sim.cpp runs them.  The memory behind memsys_access is the *)
(* port that Controller implements: it may refuse only when its queue can  *)
(* be full, and answers an accepted read once, in any order.               *)
(*                                                                         *)
(* Time is abstract: a ROB entry is "done" (ready_time has come), "l3"     *)
(* (waiting for L3_LATENCY), "mem" (waiting for the wakeup) or "late" (no  *)
(* wakeup came in DEFAULT_MEM_DELAY; the memory is assumed to be faster).  *)
(* The trace is any sequence of plain instructions, reads and writes of    *)
(* the core's lines.                                                       *)
(*                                                                         *)
(* Both builds are modelled: with assertions, and the Release build that   *)
(* defines NDEBUG, in which a second miss of a line overwrites its         *)
(* register and a stray answer wakes entry 0 of core 0.                    *)
(***************************************************************************)
EXTENDS Integers, FiniteSets

CONSTANTS
    NumCores,       \* num_threads
    Line,           \* physical line addresses
    LinesOf,        \* the lines os_v2p_lineaddr gives to each core
    SetOf,          \* mcache_get_index
    Assoc,          \* MCache::assocs
    RobSize,        \* ROB_SIZE
    CoreWidth,      \* CORE_WIDTH
    TransQueueSize, \* Config::trans_queue_size of the memory
    TraceLen,       \* bound: instructions in a trace before it wraps
    MaxReads,       \* bound: reads of each line the trace has outstanding
    UnsModulus      \* 2^32, where the unsigned rob.size wraps

Core == 0 .. NumCores - 1
Slot == 0 .. RobSize - 1

ASSUME FrontEndConstants ==
    /\ NumCores \in Nat \ {0}
    /\ LinesOf \in [Core -> SUBSET Line]
    /\ \A c, d \in Core : c # d => LinesOf[c] \cap LinesOf[d] = {}
    /\ Assoc \in Nat \ {0}
    /\ CoreWidth \in Nat \ {0}
    /\ RobSize \in Nat /\ RobSize >= CoreWidth
    /\ TransQueueSize \in Nat \ {0}
    /\ TraceLen \in Nat \ {0}
    /\ MaxReads \in [Line -> Nat]
    /\ UnsModulus \in Nat /\ UnsModulus >= 2 * RobSize

VARIABLES
    offset,     \* cycle % num_threads: the core that goes first
    pc,         \* where the main loop is: ii-th core, its stage and loop index
    rob,        \* ROB::entries of each core
    ptr, size,  \* ROB::ptr and ROB::size
    instNum,    \* MCore::inst_num
    sleeping,   \* sleep_* of the cores whose sleep flag is set
    cached,     \* the valid tags of the cache
    dirty,      \* the dirty ones among them
    mshr,       \* MemSys::mshr
    rdOut,      \* reads the memory has accepted and not called back
    wrWait,     \* lines with a write waiting in the memory
    died,       \* which assertion or exit ended the program
    asserts,    \* the build: FALSE if NDEBUG is defined
    overwritten,\* history: line, core and slot of the registers overwritten
    strayed,    \* history: the lines whose answer found no register
    unwritten,  \* history: the lines with a store the memory does not have
    lostWb      \* history: the lines whose last write-back the memory refused

vars == <<offset, pc, rob, ptr, size, instNum, sleeping, cached, dirty, mshr,
          rdOut, wrWait, died, overwritten, strayed, unwritten, lostWb>>

coreVars == <<rob, ptr, size, instNum>>
cacheVars == <<cached, dirty>>
readVars == <<mshr, rdOut, overwritten, strayed>>
writeVars == <<wrWait, unwritten, lostWb>>
memVars == <<readVars, writeVars>>

Entry == [inst : 0 .. TraceLen, st : {"done", "l3", "mem", "late"}]
Request == [line : Line, core : Core, slot : Slot, inst : 0 .. TraceLen]
Death == {"running", "MSHR_PRESENT", "NO_MSHR", "ZOMBIEWAKEUP", "LOST_PACKET"}
Position == [ii : Core, stage : {"retire", "retry", "dispatch", "mem"},
             k : 0 .. CoreWidth - 1]

TypeOK ==
    /\ offset \in Core
    /\ pc \in Position
    /\ rob \in [Core -> [Slot -> Entry]]
    /\ ptr \in [Core -> Slot]
    /\ size \in [Core -> 0 .. UnsModulus - 1]
    /\ instNum \in [Core -> 0 .. TraceLen]
    /\ sleeping \subseteq Request
    /\ cached \subseteq Line
    /\ dirty \subseteq cached
    /\ mshr \subseteq Request
    /\ rdOut \in [Line -> Nat]
    /\ wrWait \subseteq Line
    /\ died \in Death
    /\ asserts \in BOOLEAN
    /\ overwritten \subseteq Line \X Core \X Slot
    /\ strayed \subseteq Line
    /\ unwritten \subseteq Line
    /\ lostWb \subseteq Line

Init ==
    /\ offset = 0
    /\ pc = [ii |-> 0, stage |-> "retire", k |-> 0]
    /\ rob = [c \in Core |-> [s \in Slot |-> [inst |-> 0, st |-> "done"]]]
    /\ ptr = [c \in Core |-> 0]
    /\ size = [c \in Core |-> 0]
    /\ instNum = [c \in Core |-> 0]
    /\ sleeping = {}
    /\ cached = {}
    /\ dirty = {}
    /\ mshr = {}
    /\ rdOut = [l \in Line |-> 0]
    /\ wrWait = {}
    /\ died = "running"
    /\ asserts \in BOOLEAN
    /\ overwritten = {}
    /\ strayed = {}
    /\ unwritten = {}
    /\ lostWb = {}

-----------------------------------------------------------------------------
(* The main loop: cores in rotated order, then the memory.                 *)

Cur == IF offset + pc.ii < NumCores THEN offset + pc.ii
       ELSE offset + pc.ii - NumCores

At(stage) == died = "running" /\ pc.stage = stage

CoreCycleEnds ==
    /\ pc' = IF pc.ii + 1 < NumCores
             THEN [ii |-> pc.ii + 1, stage |-> "retire", k |-> 0]
             ELSE [ii |-> 0, stage |-> "mem", k |-> 0]
    /\ UNCHANGED offset

GoTo(stage) == pc' = [pc EXCEPT !.stage = stage, !.k = 0] /\ UNCHANGED offset

-----------------------------------------------------------------------------
(* The reorder buffer.                                                     *)

\* (p + n) % ROB_SIZE for p < ROB_SIZE; the unsigned sum wraps only once size
\* has.
RobIndex(p, n) ==
    IF n > RobSize THEN ((p + n) % UnsModulus) % RobSize
    ELSE IF p + n < RobSize THEN p + n
    ELSE p + n - RobSize

\* The i-th entry of core c after ptr.
EntryAt(c, i) == rob[c][RobIndex(ptr[c], i)]

\* Its ready_time has come; an entry that is late is let go only if the core
\* sleeps on an instruction of the same number.
RetiresEntry(c, i) ==
    \/ EntryAt(c, i).st = "done"
    \/ /\ EntryAt(c, i).st = "late"
       /\ \E r \in sleeping : r.core = c /\ r.inst = EntryAt(c, i).inst

\* n entries are retired: the next ones are ready, whatever size says.
Retirable(c, n) ==
    /\ n \in 0 .. CoreWidth
    /\ \A i \in 0 .. n - 1 : RetiresEntry(c, i)
    /\ n < CoreWidth => ~RetiresEntry(c, n)

mcore_rob_retire ==
    /\ At("retire")
    /\ \E n \in 0 .. CoreWidth :
          /\ IF size[Cur] = 0 THEN n = 0 ELSE Retirable(Cur, n)
          /\ ptr' = [ptr EXCEPT ![Cur] = RobIndex(@, n)]
          /\ size' = [size EXCEPT ![Cur] =
                         IF n <= @ THEN @ - n ELSE @ - n + UnsModulus]
          /\ died' = IF size[Cur] # 0 /\ n < CoreWidth /\ EntryAt(Cur, n).st = "late"
                     THEN "LOST_PACKET" ELSE died
    /\ GoTo("retry")
    /\ UNCHANGED <<rob, instNum, sleeping, cacheVars, memVars>>

\* Mutant: the slot after the next one.
RobTail_OffByOne(c) == RobIndex(ptr[c], size[c] + 1)

\* The ROB slot the next instruction of core c gets.
RobTail(c) == RobIndex(ptr[c], size[c])

mcore_rob_insert(c, inst, st) ==
    /\ rob' = [rob EXCEPT ![c][RobTail(c)] = [inst |-> inst, st |-> st]]
    /\ size' = [size EXCEPT ![c] = IF @ + 1 < UnsModulus THEN @ + 1 ELSE 0]
    /\ UNCHANGED ptr

-----------------------------------------------------------------------------
(* The memory system as seen by a core.                                    *)

MayRefuse(waiting) == Cardinality(waiting) >= TransQueueSize

\* Mutant: the transaction is added before WillAcceptTransaction is asked.
memsys_access_AddsFirst(req, ok) ==
    /\ ok \/ MayRefuse({l \in Line : rdOut[l] > 0})
    /\ rdOut' = [rdOut EXCEPT ![req.line] = @ + 1]
    /\ mshr' = IF ok THEN mshr \cup {req} ELSE mshr
    /\ UNCHANGED <<died, overwritten, strayed>>

\* The miss register the line already has, which should be none.
Present(l) == {e \in mshr : e.line = l}

\* The read half of memsys_access: it is accepted iff ok.  The assertion of
\* memsys_mshr_insert fails if the line has a register; without assertions
\* the register is overwritten.
memsys_access(req, ok) ==
    /\ ok \/ MayRefuse({l \in Line : rdOut[l] > 0})
    /\ IF ~ok THEN UNCHANGED <<rdOut, mshr, overwritten, died>>
       ELSE /\ rdOut' = [rdOut EXCEPT ![req.line] = @ + 1]
            /\ IF asserts /\ Present(req.line) # {}
               THEN died' = "MSHR_PRESENT" /\ UNCHANGED <<mshr, overwritten>>
               ELSE /\ mshr' = (mshr \ Present(req.line)) \cup {req}
                    /\ overwritten' =
                          overwritten \cup {<<e.line, e.core, e.slot>> : e \in Present(req.line)}
                    /\ UNCHANGED died
    /\ UNCHANGED strayed

\* Its write half, for the set wb of at most one evicted dirty line.
AddWriteback(wb) ==
    /\ \/ wrWait' = wrWait \cup wb /\ UNCHANGED lostWb
       \/ /\ wb # {}
          /\ MayRefuse(wrWait)
          /\ lostWb' = lostWb \cup wb
          /\ UNCHANGED wrWait
    /\ UNCHANGED unwritten

\* Mutants: the core wakes although the request is refused again; the core
\* does not dispatch after its request has got in; the core sleeps on and
\* does not repeat it.
mcore_retry_sleeping_request_Forgets ==
    /\ At("retry")
    /\ \E req \in sleeping :
          /\ req.core = Cur
          /\ \E ok \in BOOLEAN :
                memsys_access(req, ok) /\ (IF ok THEN GoTo("dispatch") ELSE CoreCycleEnds)
          /\ sleeping' = sleeping \ {req}
    /\ UNCHANGED <<coreVars, cacheVars, writeVars>>

mcore_retry_sleeping_request_Returns ==
    /\ At("retry")
    /\ \E req \in sleeping :
          /\ req.core = Cur
          /\ \E ok \in BOOLEAN :
                /\ memsys_access(req, ok)
                /\ sleeping' = IF ok THEN sleeping \ {req} ELSE sleeping
    /\ CoreCycleEnds
    /\ UNCHANGED <<coreVars, cacheVars, writeVars>>

mcore_retry_sleeping_request_Never ==
    /\ At("retry")
    /\ \E req \in sleeping : req.core = Cur
    /\ CoreCycleEnds
    /\ UNCHANGED <<coreVars, sleeping, cacheVars, memVars, died>>

\* A sleeping core repeats its read, without the write-back.
mcore_retry_sleeping_request ==
    /\ At("retry")
    /\ \E req \in sleeping :
          /\ req.core = Cur
          /\ \E ok \in BOOLEAN :
                /\ memsys_access(req, ok)
                /\ IF ok
                   THEN /\ rob' = [rob EXCEPT ![Cur][req.slot] =
                                      [inst |-> req.inst, st |-> "mem"]]
                        /\ sleeping' = sleeping \ {req}
                        /\ GoTo("dispatch")
                   ELSE CoreCycleEnds /\ UNCHANGED <<rob, sleeping>>
    /\ UNCHANGED <<ptr, size, instNum, cacheVars, writeVars>>

NotSleeping ==
    /\ At("retry")
    /\ \A req \in sleeping : req.core # Cur
    /\ GoTo("dispatch")
    /\ UNCHANGED <<coreVars, sleeping, cacheVars, memVars, died>>

-----------------------------------------------------------------------------
(* One iteration of the dispatch loop of mcore_cycle.                      *)

\* inst_num++, or the trace (or INST_LIMIT) ends and the count restarts.
NextInst(c, inst) ==
    \/ inst = instNum[c] + 1 /\ inst <= TraceLen
    \/ inst = 0

LoopAgain ==
    IF pc.k + 1 < CoreWidth THEN pc' = [pc EXCEPT !.k = @ + 1] /\ UNCHANGED offset
    ELSE CoreCycleEnds

RobFull ==
    /\ At("dispatch")
    /\ size[Cur] = RobSize
    /\ CoreCycleEnds
    /\ UNCHANGED <<coreVars, sleeping, cacheVars, memVars, died>>

Dispatch(inst, st) ==
    /\ At("dispatch")
    /\ size[Cur] # RobSize
    /\ NextInst(Cur, inst)
    /\ instNum' = [instNum EXCEPT ![Cur] = inst]
    /\ mcore_rob_insert(Cur, inst, st)

\* No memory access, or a write: mcache_mark_dirty if the line is cached.
DispatchPlain ==
    \E inst \in 0 .. TraceLen :
       /\ Dispatch(inst, "done")
       /\ LoopAgain
       /\ \/ UNCHANGED <<dirty, unwritten, lostWb>>
          \/ \E l \in LinesOf[Cur] \cap cached :
                /\ dirty' = dirty \cup {l}
                /\ unwritten' = unwritten \cup {l}
                /\ lostWb' = lostWb \ {l}
       /\ UNCHANGED <<sleeping, cached, readVars, wrWait, died>>

DispatchHit ==
    \E inst \in 0 .. TraceLen, l \in LinesOf[Cur] :
       /\ l \in cached
       /\ Dispatch(inst, "l3")
       /\ LoopAgain
       /\ UNCHANGED <<sleeping, cacheVars, memVars, died>>

\* The way mcache_find_victim picks: an invalid one, else any (REPL_RND; the
\* other policies pick one of these).
Victim(l) ==
    LET ways == {m \in cached : SetOf[m] = SetOf[l]} IN
    IF Cardinality(ways) < Assoc THEN {{}} ELSE {{m} : m \in ways}

mcache_install(l, victim) ==
    /\ cached' = (cached \ victim) \cup {l}
    /\ dirty' = dirty \ (victim \cup {l})

\* Mutant: memsys_access returns before the write half when it refuses.
DispatchMiss_NoWriteback ==
    \E inst \in 0 .. TraceLen, l \in LinesOf[Cur] \ cached, ok \in BOOLEAN :
    \E victim \in Victim(l) :
       LET req == [line |-> l, core |-> Cur, slot |-> RobTail(Cur), inst |-> inst] IN
       /\ rdOut[l] < MaxReads[l]
       /\ Dispatch(inst, "mem")
       /\ mcache_install(l, victim)
       /\ memsys_access(req, ok)
       /\ AddWriteback(IF ok THEN victim \cap dirty ELSE {})
       /\ IF ok THEN LoopAgain /\ UNCHANGED sleeping
          ELSE CoreCycleEnds /\ sleeping' = sleeping \cup {req}

\* A miss installs the line at once and then asks the memory for it; if the
\* read queue is full the core goes to sleep with the request.
DispatchMiss ==
    \E inst \in 0 .. TraceLen, l \in LinesOf[Cur] \ cached, ok \in BOOLEAN :
    \E victim \in Victim(l) :
       LET req == [line |-> l, core |-> Cur, slot |-> RobTail(Cur), inst |-> inst] IN
       /\ rdOut[l] < MaxReads[l]
       /\ Dispatch(inst, "mem")
       /\ mcache_install(l, victim)
       /\ memsys_access(req, ok)
       /\ AddWriteback(victim \cap dirty)
       /\ IF ok THEN LoopAgain /\ UNCHANGED sleeping
          ELSE CoreCycleEnds /\ sleeping' = sleeping \cup {req}

-----------------------------------------------------------------------------
(* The memory's part of the cycle, and the passing of time.                *)

\* mcore_rob_wakeup: the entry must still hold the instruction.
mcore_rob_wakeup(c, s, inst) ==
    IF rob[c][s].inst = inst
    THEN rob' = [rob EXCEPT ![c][s].st = "done"] /\ UNCHANGED died
    ELSE died' = "ZOMBIEWAKEUP" /\ UNCHANGED rob

\* memsys_callback: without assertions mshr[lineaddr] makes a register of
\* zeros for an answer that finds none, and erase takes it out again.
memsys_callback(l) ==
    /\ At("mem")
    /\ rdOut[l] > 0
    /\ rdOut' = [rdOut EXCEPT ![l] = @ - 1]
    /\ \/ /\ Present(l) = {}
          /\ IF asserts THEN died' = "NO_MSHR" /\ UNCHANGED rob
             ELSE mcore_rob_wakeup(0, 0, 0)
          /\ strayed' = strayed \cup {l}
          /\ UNCHANGED mshr
       \/ \E e \in Present(l) :
             /\ mcore_rob_wakeup(e.core, e.slot, e.inst)
             /\ mshr' = mshr \ {e}
             /\ UNCHANGED strayed
    /\ UNCHANGED <<offset, pc, ptr, size, instNum, sleeping, cacheVars, overwritten,
                   writeVars>>

\* The memory has what was evicted, unless the line has been stored to since.
WritePerformed(l) ==
    /\ At("mem")
    /\ l \in wrWait
    /\ wrWait' = wrWait \ {l}
    /\ unwritten' = unwritten \ ({l} \ (dirty \cup lostWb))
    /\ UNCHANGED <<offset, pc, coreVars, sleeping, cacheVars, readVars, died, lostWb>>

\* An entry of the ROB that waits in state st comes to be in state new.
TimeElapses(c, s, st, new) ==
    /\ At("mem")
    /\ rob[c][s].st = st
    /\ rob' = [rob EXCEPT ![c][s].st = new]
    /\ UNCHANGED <<offset, pc, ptr, size, instNum, sleeping, cacheVars, memVars,
                   died>>

L3LatencyElapses(c, s) == TimeElapses(c, s, "l3", "done")

\* DEFAULT_MEM_DELAY cycles pass for an instruction that nobody will wake.
DefaultDelayElapses(c, s) ==
    /\ \A e \in mshr \cup sleeping : ~(e.core = c /\ e.slot = s)
    /\ TimeElapses(c, s, "mem", "late")

CycleEnds ==
    /\ At("mem")
    /\ pc' = [ii |-> 0, stage |-> "retire", k |-> 0]
    /\ offset' = IF offset + 1 < NumCores THEN offset + 1 ELSE 0
    /\ UNCHANGED <<coreVars, sleeping, cacheVars, memVars, died>>

mcore_cycle ==
    \/ mcore_rob_retire
    \/ mcore_retry_sleeping_request
    \/ NotSleeping
    \/ RobFull
    \/ DispatchPlain
    \/ DispatchHit
    \/ DispatchMiss

Next ==
    /\ \/ mcore_cycle
       \/ \E l \in Line : memsys_callback(l) \/ WritePerformed(l)
       \/ \E c \in Core, s \in Slot : L3LatencyElapses(c, s) \/ DefaultDelayElapses(c, s)
       \/ CycleEnds
    /\ UNCHANGED asserts

Spec == Init /\ [][Next]_<<vars, asserts>>

\* The main loop runs on and the memory answers (Controller, EveryReadReturns).
Fairness ==
    /\ WF_vars(mcore_cycle \/ CycleEnds)
    /\ \A l \in Line : SF_vars(memsys_callback(l))

FairSpec == Spec /\ Fairness

-----------------------------------------------------------------------------
(* Properties.                                                             *)

\* The slots of core c between ptr and ptr + size.
Live(c) == {RobIndex(ptr[c], i) : i \in 0 .. size[c] - 1}

\* Core c is in the middle of its cycle.
Busy(c) == c = Cur /\ pc.stage \in {"retry", "dispatch"}

\* mcore_rob_retire tests for an empty ROB only once and then retires up to
\* CORE_WIDTH entries: there are always enough, or an instruction that is still
\* waiting is met before the buffer runs out, so size does not wrap as long
\* as no stray answer has woken an instruction before its time.
RetireStaysInRob ==
    strayed = {} =>
       \A c \in Core :
          \/ Busy(c)
          \/ size[c] = 0
          \/ \A n \in 0 .. CoreWidth : Retirable(c, n) => n <= size[c]

\* The slot a miss register names is in the ROB, has its instruction number
\* and waits for the memory.
RegistersMatch ==
    \A e \in mshr : /\ e.slot \in Live(e.core)
                    /\ rob[e.core][e.slot] = [inst |-> e.inst, st |-> "mem"]

\* Every miss register wakes the instruction that caused the miss, until a
\* stray answer wakes an instruction before its time.
WakeupsMatch == strayed = {} => RegistersMatch

\* Every instruction waiting for the memory has a miss register or is the
\* request its core sleeps on; only one whose register a second miss of its
\* line has overwritten is left with nobody to wake it.
WaitersAreRegistered ==
    \A c \in Core, s \in Slot :
       rob[c][s].st = "mem" =>
          \/ \E e \in mshr \cup sleeping : e.core = c /\ e.slot = s
          \/ \E l \in Line : <<l, c, s>> \in overwritten
          \/ died # "running"

\* memsys_mshr_insert: "the line should not be present already".
LineNotPresentAlready == died # "MSHR_PRESENT" /\ overwritten = {}

\* A register of line l has been overwritten.
Doubled(l) == \E c \in Core, s \in Slot : <<l, c, s>> \in overwritten

\* An answer finds its miss register, and the instruction it is for, unless
\* a second miss has overwritten the register of the line; a build with
\* assertions has ended by then.
NoStrayCallback ==
    /\ \A l \in strayed : Doubled(l)
    /\ died = "ZOMBIEWAKEUP" => strayed # {}
    /\ asserts => overwritten = {}

\* What is stored to a line is in the cache, on its way to the memory or
\* written there; the only stores lost are those whose write-back the memory
\* refused, which memsys_access does not report and the core does not repeat.
StoresReachMemory == unwritten \subseteq dirty \cup wrWait \cup lostWb

\* The request a core sleeps on is the youngest instruction of its ROB, and
\* such a core is not dispatching.
SleepersAreYoungest ==
    \A r \in sleeping :
       /\ size[r.core] > 0
       /\ r.slot = RobIndex(ptr[r.core], size[r.core] - 1)
       /\ rob[r.core][r.slot] = [inst |-> r.inst, st |-> "mem"]
       /\ ~(r.core = Cur /\ pc.stage = "dispatch")

\* No two requests share a ROB slot.
RequestsDistinct ==
    /\ \A e, f \in mshr \cup sleeping :
          e.core = f.core /\ e.slot = f.slot => e = f
    /\ mshr \cap sleeping = {}

\* Between its cycles a core that is not asleep leaves enough in its ROB.
EnoughToRetire ==
    \A c \in Core :
       IF Busy(c) THEN pc.stage = "dispatch" => size[c] >= pc.k
       ELSE \/ size[c] = 0
            \/ size[c] >= CoreWidth
            \/ \E r \in sleeping : r.core = c

\* The ROBs and the requests that point into them.
RobInOrder ==
    /\ size \in [Core -> 0 .. RobSize]
    /\ RegistersMatch
    /\ SleepersAreYoungest
    /\ RequestsDistinct
    /\ EnoughToRetire

\* No two miss registers share a line, and the memory owes one answer per
\* register, and no other unless a register of the line was overwritten.
OneAnswerPerMiss ==
    /\ \A e, f \in mshr : e.line = f.line => e = f
    /\ died = "running" =>
          \A l \in Line :
             \/ Doubled(l)
             \/ rdOut[l] = IF Present(l) # {} THEN 1 ELSE 0

\* The inductive invariant behind RetireStaysInRob, WakeupsMatch,
\* WaitersAreRegistered, NoStrayCallback and StoresReachMemory.
FrontEndInv ==
    /\ TypeOK
    /\ WaitersAreRegistered
    /\ OneAnswerPerMiss
    /\ NoStrayCallback
    /\ StoresReachMemory
    /\ strayed = {} => RobInOrder

\* Every miss completes: a sleeping core gets its request in, the answer
\* finds the instruction and wakes it, unless its register was overwritten.
MissesComplete ==
    \A c \in Core, s \in Slot :
       rob[c][s].st = "mem" ~>
          \/ rob[c][s].st = "done"
          \/ died # "running"
          \/ \E l \in Line : <<l, c, s>> \in overwritten
=============================================================================

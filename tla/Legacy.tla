------------------------------- MODULE Legacy --------------------------------
(***************************************************************************)
(* One channel of the simulator's own memory (memsys.cpp, dram.cpp,        *)
(* dramchannel.cpp, drambank.cpp), used by builds without DRAMSIM3: a      *)
(* queue and a row buffer per bank, one slot per bank that waits for the   *)
(* data bus, refresh and refresh management (RFM).                         *)
(*                                                                         *)
(* The code keeps times as cycle numbers.  Here they are kept relative to  *)
(* the current cycle: a bank sleeps for sleep more cycles, its row was     *)
(* opened open cycles ago.  Cycle is the whole of dram_cycle.              *)
(***************************************************************************)
EXTENDS Integers, Sequences, SequencesExt, FiniteSets, FiniteSetsExt

CONSTANT Configs        \* the configurations to be checked: see Config

\* banks_in_channel and banks_in_bankgroup, the line addresses with the bank and row
\* dram_parseaddr finds for them, and the settings of the build.
Config ==
    [banks : Nat \ {0}, groupSize : Nat \ {0},
     lines : SUBSET Nat, writeBacks : SUBSET Nat, \* what a miss asks for and evicts
     queueSize : Nat \ {0},                      \* NUM_DRAM_BANK_ENTRIES
     sched : {"FCFS", "FRFCFS"},                 \* DRAM_SCHED_POLICY
     refMode : {"none", "SB", "AB"},             \* DRAM_REF_POLICY
     rfmPolicy : {"none", "SB", "AB"},           \* DRAM_RFM_POLICY
     para : BOOLEAN,                             \* MCPARA_DRFM_PERIOD > 0
     tACT : Nat, tPRE : Nat, tRAS : Nat, tRDRD : Nat \ {0}, tRFC : Nat, tREFI : Nat,
     tDRFM : Nat,
     maxOpen : Nat,                              \* DRAM_MAX_TOPEN
     pageTimeout : BOOLEAN,                      \* FALSE: it is longer than the run
     rfmTh : Nat \ {0}, rfmRefTh : Nat]          \* RFM_TH, RFM_REFTH

ASSUME LegacyConstants ==
    \A c \in Configs :
        /\ c \in Config
        /\ c.banks > 1 /\ c.banks % c.groupSize = 0 /\ c.maxOpen >= c.tRAS
        /\ c.refMode = "SB" => c.groupSize * c.groupSize <= c.banks

AnyBank == 0 .. Max({c.banks : c \in Configs}) - 1

VARIABLES
    config,             \* the configuration; it never changes
    queue,              \* bankq of each bank: requests [line, wb]
    row,                \* open_row_id, NoRow if not row_valid
    open,               \* cycle - rowbufopen_cycle, at most OpenMax
    busy,               \* status = DRAM_BANK_BUSY
    sleep,              \* sleep_cycle - cycle, at least -1
    raa,                \* RAA
    bus,                \* dbusq.entries: {} or {[line, wb, ready]}
    sinceBus,           \* cycle - rdwr_token.prev_time, at most tRDRD
    rfmSb,              \* RFMSB, a set of bank groups; RFMAB is FALSE between cycles
    refsbPtr,           \* refsb_ptr
    sinceRef,           \* cycle - last_trefi_cycle
    clk,                \* cycle % num_banks
    mshr                \* keys of MemSys::mshr

bankVars == <<queue, row, open, busy, sleep, raa>>
rfmVars == <<rfmSb, refsbPtr, sinceRef>>
vars == <<config, bankVars, bus, sinceBus, rfmVars, clk, mshr>>

Banks == config.banks
Bank == 0 .. Banks - 1
GroupSize == config.groupSize
Groups == Banks \div GroupSize
BanksOf(g) == {b \in Bank : b \div GroupSize = g}
Line == config.lines \cup config.writeBacks
BankOf(l) == l % Banks
RowOf(l) == l \div Banks
QueueSize == config.queueSize
Sched == config.sched
RefMode == config.refMode
RfmPolicy == config.rfmPolicy
tPRE == config.tPRE
tRAS == config.tRAS
tRDRD == config.tRDRD
tRFC == config.tRFC
tREFI == config.tREFI
MaxOpen == config.maxOpen
RfmTh == config.rfmTh
NoRow == -1

OpenMax == (IF config.pageTimeout THEN MaxOpen ELSE tRAS) + tPRE

\* The code's cycle 0 is also the time of the last bus transfer and refresh.
Init ==
    /\ config \in Configs
    /\ queue = [b \in Bank |-> << >>]
    /\ row = [b \in Bank |-> NoRow] /\ open = [b \in Bank |-> OpenMax]
    /\ busy = [b \in Bank |-> FALSE] /\ sleep = [b \in Bank |-> 0]
    /\ raa = [b \in Bank |-> 0]
    /\ bus = [b \in Bank |-> {}] /\ sinceBus = 0
    /\ rfmSb = {} /\ refsbPtr = 0 /\ sinceRef = 0
    /\ clk = 0 /\ mshr = {}

-----------------------------------------------------------------------------
(* A miss: memsys_access asks for the line and writes the victim back.     *)

\* dram_insert: a full queue refuses.
Inserted(qs, l, wb) ==
    IF Len(qs[BankOf(l)]) = QueueSize THEN qs
    ELSE [qs EXCEPT ![BankOf(l)] = Append(@, [line |-> l, wb |-> wb])]

Registered(l) == IF Len(queue[BankOf(l)]) = QueueSize THEN mshr ELSE mshr \cup {l}

\* The write-back ws is inserted whether the read was or not, and is lost when it
\* finds its queue full.  memsys_mshr_insert, called only if the read was inserted,
\* asserts that l is not in mshr.
Access(l, ws) ==
    /\ l \notin mshr \/ Len(queue[BankOf(l)]) = QueueSize
    /\ queue' = LET q == Inserted(queue, l, FALSE)
                IN  IF ws = {} THEN q
                    ELSE Inserted(q, CHOOSE w \in ws : TRUE, TRUE)
    /\ mshr' = Registered(l)
    /\ UNCHANGED <<row, open, busy, sleep, raa, bus, sinceBus, rfmVars, clk, config>>

-----------------------------------------------------------------------------
(* The data bus: dram_channel_schedule_rdwrq.                              *)

\* The first ready slot, from bank cycle % num_banks on.
ReadySlots == {b \in Bank : \E e \in bus[b] : e.ready <= 0}
Distance(b) == (b - clk) % Banks
FirstSlot == CHOOSE b \in ReadySlots : \A c \in ReadySlots : Distance(b) <= Distance(c)

\* Mutant: always from bank 0 on.
Moving_FromZero == IF ReadySlots # {} /\ sinceBus >= tRDRD THEN {Min(ReadySlots)} ELSE {}

\* The bank whose transfer is made in this cycle, if any.
Moving == IF ReadySlots # {} /\ sinceBus >= tRDRD THEN {FirstSlot} ELSE {}

-----------------------------------------------------------------------------
(* Serving a request: dram_bank_cycle, after the transfer of the bank in   *)
(* moving.                                                                 *)

Sleep(b, moving) == IF b \in moving THEN tRDRD ELSE sleep[b]
StillBusy(b, moving) == busy[b] /\ Sleep(b, moving) >= 0

\* Mutant: the slot on the bus is not looked at.
Serving_SlotTaken(moving) ==
    {b \in Bank : ~StillBusy(b, moving) /\ queue[b] # << >>}

\* The banks that take up a request in this cycle.
Serving(moving) ==
    {b \in Bank : /\ ~StillBusy(b, moving)
                  /\ queue[b] # << >>
                  /\ bus[b] = {} \/ b \in moving}

\* dram_bank_schedule: with FR-FCFS, the first read of the open row.
Schedule(b) ==
    LET hits == {i \in DOMAIN queue[b] : /\ ~queue[b][i].wb
                                         /\ RowOf(queue[b][i].line) = row[b]}
    IN  IF Sched = "FRFCFS" /\ row[b] # NoRow /\ hits # {} THEN Min(hits) ELSE 1

\* A row stays open for tRAS; the age is unsigned, so a row that opens in the
\* future counts as old.
RasDelay(b) == IF open[b] \in 0 .. tRAS - 1 THEN tRAS - open[b] ELSE 0

\* The page was closed at rowbufclose_cycle, and precharges for tPRE.
TimedOut(b) == config.pageTimeout /\ row[b] # NoRow /\ open[b] >= MaxOpen
Precharging(b) == IF TimedOut(b) /\ open[b] - MaxOpen < tPRE
                  THEN tPRE - (open[b] - MaxOpen) ELSE 0

Conflict(b, r) == row[b] # NoRow /\ ~TimedOut(b) /\ row[b] # r
RowHit(b, r) == row[b] = r /\ ~TimedOut(b)

\* dram_bank_service: cycles until the row of a request to r opens, and until the
\* data can move.
OpenDelay(b, r) == IF Conflict(b, r) THEN RasDelay(b) + tPRE ELSE Precharging(b)
ActDelay(b, r) == IF RowHit(b, r) THEN 0 ELSE OpenDelay(b, r) + config.tACT

\* Mutant: the threshold is looked at one activation late.
WantsRfm_Late(b) == raa[b] + 1 > 3 * RfmTh

WantsRfm(b) == raa[b] + 1 >= 3 * RfmTh

-----------------------------------------------------------------------------
(* Refresh and RFM: all banks concerned wait for the last of them.         *)

WaitFor(s, bs) == Max({0} \cup {s[b] : b \in bs})
Reduced(n, d) == IF n > d THEN n - d ELSE 0

\* dram_bank_refresh and dram_bank_rfmab on the banks bs of x, for t cycles.
Refreshing(x, bs, t, d) ==
    IF bs = {} THEN x ELSE
    LET until == WaitFor(x.sleep, bs) + t
    IN  [row  |-> [b \in Bank |-> IF b \in bs THEN NoRow ELSE x.row[b]],
         busy |-> [b \in Bank |-> b \in bs \/ x.busy[b]],
         sleep |-> [b \in Bank |-> IF b \in bs THEN until ELSE x.sleep[b]],
         raa  |-> [b \in Bank |-> IF b \in bs THEN Reduced(x.raa[b], d) ELSE x.raa[b]]]

\* The banks that are refreshed in this cycle.
RefreshDue ==
    IF sinceRef <= tREFI THEN {}
    ELSE IF RefMode = "AB" THEN Bank
    ELSE IF RefMode = "SB" THEN BanksOf(refsbPtr) ELSE {}

\* Mutant: the pointer stays.
NextRefSb_Stays == refsbPtr

NextRefSb == IF sinceRef > tREFI /\ RefMode = "SB"
             THEN (refsbPtr + 1) % GroupSize ELSE refsbPtr

Less(n) == IF n > 0 THEN n - 1 ELSE 0

\* dram_cycle; drfm is a choice of banks, and those of them that are activated draw
\* a DRFM in PARA's lottery, which closes the row.  At the end the cycle number
\* goes up.  Activations are counted only if something depends on the count.
CycleWith(drfm) ==
    LET moving == Moving
        serving == Serving(moving)
        pos    == [b \in serving |-> Schedule(b)]
        served == [b \in serving |-> queue[b][pos[b]]]
        to     == [b \in serving |-> RowOf(served[b].line)]
        delay  == [b \in serving |-> ActDelay(b, to[b])]
        opening == {b \in serving : ~RowHit(b, to[b])}
        closed == drfm \cap opening
        wants  == IF RfmPolicy = "none" THEN {} ELSE {b \in opening : WantsRfm(b)}
        sb     == IF RfmPolicy = "SB"
                  THEN rfmSb \cup {b \div GroupSize : b \in wants} ELSE {}
        x0 == [row   |-> [b \in Bank |-> IF b \in closed THEN NoRow
                                         ELSE IF b \in serving THEN to[b] ELSE row[b]],
               busy  |-> [b \in Bank |-> b \in serving \/ StillBusy(b, moving)],
               sleep |-> [b \in Bank |->
                            IF b \in closed THEN delay[b] + tRDRD + tPRE + config.tDRFM
                            ELSE IF b \in serving THEN delay[b] + tRDRD
                            ELSE Sleep(b, moving)],
               raa   |-> [b \in Bank |-> IF RfmPolicy # "none" /\ b \in opening
                                         THEN raa[b] + 1 ELSE raa[b]]]
        x1 == Refreshing(x0, IF RfmPolicy = "AB" /\ wants # {} THEN Bank ELSE {},
                         tRFC \div 2, RfmTh)
        x2 == Refreshing(x1, IF sb # {} THEN BanksOf(Min(sb)) ELSE {}, tRFC \div 2, RfmTh)
        x3 == Refreshing(x2, RefreshDue, tRFC, config.rfmRefTh)
    IN  /\ queue' = [b \in Bank |-> IF b \in serving THEN RemoveAt(queue[b], pos[b])
                                    ELSE queue[b]]
        /\ row' = x3.row /\ busy' = x3.busy /\ raa' = x3.raa
        /\ sleep' = [b \in Bank |-> IF x3.sleep[b] >= 0 THEN x3.sleep[b] - 1 ELSE -1]
        /\ open' = [b \in Bank |->
                      IF b \in opening THEN 1 - OpenDelay(b, to[b])
                      ELSE IF open[b] < OpenMax THEN open[b] + 1 ELSE OpenMax]
        /\ bus' = [b \in Bank |->
                     IF b \in serving
                     THEN {[line |-> served[b].line, wb |-> served[b].wb,
                            ready |-> Less(delay[b])]}
                     ELSE IF b \in moving THEN {}
                     ELSE {[e EXCEPT !.ready = Less(@)] : e \in bus[b]}]
        /\ mshr' = mshr \ {e.line : e \in {f \in UNION {bus[b] : b \in moving} : ~f.wb}}
        /\ sinceBus' = IF moving # {} THEN 1
                       ELSE IF sinceBus < tRDRD THEN sinceBus + 1 ELSE tRDRD
        /\ rfmSb' = IF sb = {} THEN {} ELSE sb \ {Min(sb)}
        /\ sinceRef' = IF RefMode = "none" THEN 0
                       ELSE IF sinceRef > tREFI THEN 1 ELSE sinceRef + 1
        /\ refsbPtr' = NextRefSb
        /\ clk' = (clk + 1) % Banks
        /\ UNCHANGED config

Cycle == \E drfm \in SUBSET (IF config.para THEN Bank ELSE {}) : CycleWith(drfm)

Next ==
    \/ \E l \in config.lines : Access(l, {})
    \/ \E l \in config.lines : \E w \in config.writeBacks \ {l} : Access(l, {w})
    \/ Cycle

Spec == Init /\ [][Next]_vars

\* The main loop calls memsys_cycle in every iteration: a cycle, which is always
\* possible, comes again and again.
FairSpec == Spec /\ []<><<Cycle>>_vars
-----------------------------------------------------------------------------
Request == [line : Line, wb : BOOLEAN]

TypeOK ==
    /\ \A b \in Bank : /\ queue[b] \in Seq(Request) /\ Len(queue[b]) <= QueueSize
                       /\ Cardinality(bus[b]) <= 1
                       /\ \A e \in bus[b] : e.ready \in Nat
    /\ row \in [Bank -> {NoRow} \cup {RowOf(l) : l \in Line}]
    /\ open \in [Bank -> Int] /\ sleep \in [Bank -> Nat \cup {-1}]
    /\ busy \in [Bank -> BOOLEAN] /\ raa \in [Bank -> Nat]
    /\ sinceBus \in 0 .. tRDRD /\ sinceRef \in 0 .. tREFI + 1
    /\ rfmSb \subseteq 0 .. Groups - 1 /\ refsbPtr \in 0 .. Groups - 1
    /\ mshr \subseteq Line

IsReadOf(e, l) == e.line = l /\ ~e.wb
Queued(l) == {i \in DOMAIN queue[BankOf(l)] : IsReadOf(queue[BankOf(l)][i], l)}
OnBus(l) == {e \in bus[BankOf(l)] : IsReadOf(e, l)}
Reads(l) == Cardinality(Queued(l)) + Cardinality(OnBus(l))

\* memsys_callback always finds the line in mshr, and no registered miss is
\* forgotten: a line is registered if and only if one read of it is in the queue
\* of its bank or waits for the bus.
EveryWaiterHasItsRead == \A l \in Line : Reads(l) = IF l \in mshr THEN 1 ELSE 0

\* RFMs keep up with the activations: no bank is ever activated more than 3 * RFM_TH
\* times that no refresh and no RFM has made up for, and at the limit the RFM of its
\* group is on its way, although the RFMs of several groups wait for each other.
RaaBounded ==
    \A b \in Bank : \/ raa[b] < 3 * RfmTh
                    \/ raa[b] = 3 * RfmTh /\ b \div GroupSize \in rfmSb

\* "avoid starvation, start roundrobin": a request that waits for the bus gets it,
\* although the search starts at cycle % num_banks and the bus is free only every
\* tRDRD cycles; this needs numbers without a common divisor.
Coprime(m, n) == \A d \in 2 .. m : m % d # 0 \/ n % d # 0
EveryTransferHappens ==
    Coprime(tRDRD, Banks) =>
        \A b \in AnyBank : (b \in Bank /\ bus[b] # {}) ~> b \in Moving

\* Every bank is refreshed again and again, although REFsb counts the groups modulo
\* the banks of a group: this needs at most as many groups as a group has banks.
EveryBankRefreshed ==
    (RefMode = "AB" \/ (RefMode = "SB" /\ Groups <= GroupSize)) =>
        \A b \in AnyBank : []<>(b \in Bank => b \in RefreshDue)
=============================================================================

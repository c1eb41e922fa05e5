# TLA+ models of the mds3 memory-system simulator

mds3 is a trace-driven simulator: cores with a reorder buffer (ROB) and a shared
last-level cache (`src/src`) run against DRAMsim3 (`src/DRAMsim3/src`), a
cycle-level model of DRAM controllers extended with refresh management (RFM),
per-row activation counters (PRAC) and alerts, or against the simulator's own older
memory (`src/src/dram*.cpp`). The simulator's results are only as good as its
bookkeeping: every transaction answered once, in an order a real memory could
produce; every wakeup delivered to the instruction that waits for it; every bank
refreshed, mitigated and given the time it needs. That bookkeeping is what these
modules model, check and prove.

## Inventory

| Component | Source | State | Operations | Module |
|---|---|---|---|---|
| Memory controller | controller.cc | unified / read / write queues, `pending_rd_q_`, `pending_wr_q_`, `return_queue_`, `write_draining_` | AddTransaction, ReturnDoneTrans, ClockTick (ScheduleTransaction, IssueCommand) | Controller |
| Command queue | command_queue.cc | one queue of commands per bank, `is_in_ref_`, `is_in_rfm_` and the queues they block | GetCommandToIssue, FinishRefresh, FinishRFM, AddCommand | Controller, ChannelState |
| Channel and bank state | channel_state.cc, bankstate.cc | bank states, refresh and RFM queues, RAA counters, alert; earliest time of each command, activation windows | GetReadyCommand, UpdateState, UpdateTiming | ChannelState, Timing |
| Activation trackers | bankstate.cc | `prac_`, `moat_row_`, `mopac_buf_` and its counters | MoatUpdate, MoatMitigate, MoatHandleRef, Mopac* | Tracker |
| Refresh | refresh.cc | next rank / bank group / bank | ClockTick, InsertRefresh, IterateNext | Refresh |
| Timing and configuration | timing.cc, configuration.cc | delay tables, field positions | Timing::Timing, SetAddressMapping, AddressMapping | Timing, AddressMap |
| DRAM systems | dram_system.cc, hmc.cc | channels; links, quadrants, crossbars, response table | AddTransaction, ClockTick, VaultCallback | MemPort, HMC |
| Cores | mcore.cpp | ROB ring (`ptr`, `size`, entries), instruction count, sleep request | mcore_cycle: retire, retry, dispatch; mcore_rob_wakeup | FrontEnd |
| Last-level cache | mcache.cpp | tags, valid, dirty, replacement state, write-back budget | access, mark_dirty, install, find_victim_* | Cache, FrontEnd |
| Glue and main loop | memsys_dramsim3.cpp, sim.cpp | miss registers (`mshr`), cycle | memsys_access, memsys_callback, the loop of main | FrontEnd |
| Page allocator | os.cpp | page table, frames in use | os_vpn_to_pfn, os_v2p_lineaddr | OS, Path |
| Legacy backend | dram.cpp, dramchannel.cpp, drambank.cpp, memsys.cpp | bank queues, row buffers, bus slots, RAA, `mshr` | memsys_access, dram_cycle, dram_parseaddr | Legacy, LegacyMap |

Everything runs in one thread. In each iteration of main every core runs
`mcore_cycle` once (the first core rotates), then the memory ticks. A core calls
`memsys_access`, which may be refused; DRAMsim3 calls back into the core through
`memsys_callback` during its tick. What is hard is therefore not preemption but
the order in which decisions taken at different times meet: reads and writes of
one address that travel through two queues, a line that is evicted while its miss
is outstanding, a ROB slot that is reused while an answer refers to it, a refused
request that is retried cycles later, a refresh that falls due while an RFM is
closing rows, a tracked row that is refreshed before its mitigation, a table entry
that is missing for one order of commands. PROJECT.json lists these hazards at the
line where they bite.

## Modules

**MemPort** is the abstract memory: reads and writes of an address are accepted
and answered, each exactly once, in any order.

**Controller** is one channel: `AddTransaction`, `ReturnDoneTrans` and a clock
tick per kind of command. Each tick's action is the whole of
`Controller::ClockTick`: the command it issues, the update of the bank, and the
`ScheduleTransaction` at its end, which works on the command queues and pending
reads the command has left (its parameters `cq` and `pr`). Correspondence of
state: `tq` is the three transaction queues, `cmdq[b]` the queue of bank `b`
(PER_BANK, the structure the configurations use), `pendingRd[a]` the number of
entries of the multimap, `pendingWr[a]` membership, `retRd`/`retWr` the return
queue by address. Three history variables give the data its meaning: `latest[a]`
counts accepted writes, `dram[a]` is the write the cell holds, `want[a]` the writes
that waiting reads were promised.
Abstractions: time. Whether a timing constraint has elapsed is a free choice per
bank and command type, so `IssueX` picks the first command of a queue that needs
type X and passes the code's tests: the code returns the first command whose
constraint has elapsed, and constraints are kept per type. The round robin over
banks is a free choice. A refresh or RFM appears as a precharge that asks nobody
(`RefreshPrecharge`) or as an idle tick; ChannelState has the detail.

**ChannelState** is how a channel carries out refreshes. Each action is a
`ClockTick`: `Refresh::ClockTick` may add requests (`RefreshTick`), the refresh or
RFM at hand is served first (`Refreshing`), else a demand command of a queue that
no refresh blocks (`RowCommand`, `Column`), else nothing (`Idle`), entry into
self-refresh (`Sleep`) or the end of the program by AbruptExit (`Exit`); the tick
ends with `Schedule`. `refreshQ`, `rfmQ`, `inRef`, `refIdx`, `inRfm`, `rfmIdx`,
`raa` and `rankQEmpty` are the code's variables; `alert` folds `alert_n` and the
comparison of `clk_` with `last_alert_clk_ + tABO` into off, grace and over; `cmds`
counts the demand commands of a bank, whose rows are a free choice; `hot` is the
verdict of the trackers, a free choice after every command that can change it.
`issued` is the command of the last tick, against which `TakenInOrder` judges
the queues. **Refresh** holds the rotation as operators of a
configuration and a cursor; `age` counts requests since a unit's own last one.

**Tracker** is one bank's counters: `trk` is `prac_` with `moat_row_`, `buf` the
MOPAC buffer. The commands it sees are activation, precharge, refresh and RFM. The
random choices are free: whether PAC counts a precharge, and which activation of a
window MOPAC samples (in the run `PacProb` is 1, so that every activation counts).
`acc` is the reference: counted activations of a row since it was last refreshed or
mitigated. `MaxCount` is larger than `Ath`, so that a counter could pass it. In
bankstate.cc:558 a buffer entry is built from three initialisers; the row and a
count of 1 are what it holds. The loops over the buffer are recursive functions of an
index.

**Timing** has the tables of timing.cc as functions from a command to the delays of
other commands, `UpdateTiming` with the banks it reaches, and the activation
window. `wait[b][c]` is `cmd_timing_[c] - clk`. A configuration is a record of the
parameters and the set of the commands that its row policy, refresh policy and RFM mode
use. The orderings that `TimingConstants` asks of the parameters hold for every .ini
file of the repository. Commands come in any order that the
bank states allow, which is more than any queue asks for. The requirements are
kept apart, in history variables computed from the commands without the tables:
`hold` (how long a row must stay open), `idle` (when the bank is precharged), `busy`
(refresh, RFM, self-refresh exit), `bus` (bursts), `acts` (activations). The
thirty-two-activate window is the same code as the four-activate window.

**Cache** is one set with its ways and the four policies, composed with the epoch
test of the main loop; sets share only the access count and the budget. **LineStore**
is what a set of a write-back cache promises; `KeepsLines` shows that every policy
implements it. FrontEnd uses the same promise, with any victim. The history variable
`older` is the order in which lines were last read, kept as pairs, against which
`VictimFollowsPolicy` judges the counters `last_access` that choose the victim.

**FrontEnd** is the cores, cache, miss registers and main loop. `pc` says which
core of the rotated order runs and where in `mcore_cycle` it is; one iteration of
the dispatch loop is one action (`DispatchPlain`, `DispatchHit`, `DispatchMiss`).
A ROB entry is an instruction number and, in place of a ready time, "done", "l3"
(waiting for L3_LATENCY), "mem" (waiting for the wakeup) or "late" (DEFAULT_MEM_DELAY
has passed without one). `rdOut[l]` counts accepted reads the memory has not called
back: the memory here is what Controller implements, and refuses only when its queue
can be full. `TraceLen` bounds instruction numbers, which wrap as in
`mcore_read_trace` when the trace ends, `MaxReads` the reads of a line outstanding
when the line is missed again. `asserts` is the build, chosen in Init. With
assertions the program ends at memsys_dramsim3.cpp:89 or 98. Without them a second miss
of a line overwrites its register, so the first answer wakes the second instruction and
the second answer finds no register: `mshr[lineaddr]` makes one of zeros, and entry 0
of core 0 is woken, or the core exits with ZOMBIEWAKEUP. The instruction whose register
is gone becomes late, which ends the program with LOST-PACKET unless the core happens
to sleep on an instruction of that number. Histories: `overwritten` and `strayed`
(registers overwritten, answers without one), `unwritten` (lines with a store the
memory does not have) and `lostWb` (lines whose write-back a full queue refused).
Assumption: the memory answers within DEFAULT_MEM_DELAY, so that only an instruction
nobody will wake becomes late.

**OS** is the page allocator. A virtual line is a number; the key of the page
table, the split of addresses and the 95 % limit are the code's arithmetic with
the sizes as constants. Any free frame may be chosen, and giving up after
MAX_TRIES random picks is possible whenever some frame is in use. The model ends at
the first assertion that fails (see Assertions). **AddressMap** is
the field order, shifts and masks of DRAMsim3 (sizes are powers of two, LogBase2
would round others down); the positions of the fields are a function of how many the
loop has taken from the back. **LegacyMap** has the four policies of the older memory.
**Path** composes them: an access is translated, multiplied by the line size
(`ByteAddress`) and cut into a cell. It assumes that a DRAM request is a line.

**HMC** is the cube: link queues, the crossbar with its ages and flit counts in both
directions, quadrant queues, one vault per quadrant, and the table of responses.
`DrainResponses` and `DrainRequests` alternate, which is one logic cycle; vaults
finish in any order at any time, so the ratio of the two clocks is left open. Ages
are compared with indices only and saturate above the largest. The age queue and the
crossbar are functions of how many sources the code's loop has passed (`BuildAgeQueue`,
`Crossbar`).

**Legacy** is one channel of the older memory. `Cycle` is the whole of `dram_cycle`: the
transfer on the bus, every bank's service, RFM of all banks or of a group, and refresh.
Times are relative to the current cycle. A search of the banks from a moving start takes
the bank at the least distance (`Distance`, `FirstSlot`). `Access` is `memsys_access`.
PARA's lottery is a free choice among the banks that open a row.

ChannelState, Timing, Legacy, Cache, Tracker and Path choose their configuration in
Init and never change it (`config`, `replPolicy`, `impl`, `mapping`), and MCController
chooses the queue structure (`unified`), so that one run covers several builds.
**MC*** modules give the constants small values.

*Assertions.* CMake's Release build, which scripts/prac/build.py asks for, defines
NDEBUG. FrontEnd models the builds with and without assertions. ChannelState is the
Release build: it goes on past the assertions of FinishRefresh and FinishRFM, which do
fail (see Observations). OS and Legacy end, or refuse the step, at a failing assertion
(os.cpp:36, 57 and 69, memsys.cpp:84), and what is claimed of them is claimed up to that
point. The assertions of the other modules' code are properties or follow from them.

The theorems are in **ControllerProofs**, **FrontEndProofs**, **PathAndCubeProofs**,
**CacheProofs**, **TrackerProofs**, **ChannelStateProofs**, **TimingProofs** and
**LegacyProofs**, each of which extends the module it is about; PathAndCubeProofs
extends Path and HMC, whose proofs share the lemmas on induction, division and
sequences. Operators with a suffix (`WriteHeldBack_Never`, `RobTail_OffByOne`...) are
mutants: plausible bugs that show that a property can fail. No specification uses them.

## Runs

| Run | Bounds | What it shows |
|---|---|---|
| ctl | 2 banks, 3 addresses (2 share a bank, not a row), queues of 2, 4 transactions; separate queues with OPEN_PAGE, one queue with SOFT_CLOSE_PAGE; fairness | `PendingMeansQueued`, `NeverExits`, `ReadsObserveLatestWrite`, `DrainWithinBuffer`; the channel implements MemPort (`AnsweredOnce`); `ReadsReturn` |
| ctl_drain_deadlock | 1 bank, 2 addresses, separate queues | violated: `EveryReadReturns` (finding 1) |
| fe_two | 2 cores, 1 line each in a set of 1 way, ROB of 2, queue of 1, both builds | `RetireStaysInRob`, `WakeupsMatch`, `WaitersAreRegistered`, `NoStrayCallback`, `StoresReachMemory` |
| fe_live | 1 core, 2 lines, 1 way, ROB of 3, both builds, fairness | `MissesComplete` |
| fe_mshr | 1 core, 2 lines, 1 way, both builds | violated: `LineNotPresentAlready` (finding 2) |
| path | 2 threads, 2 pages each and one out of range, 8 frames of which 3 are usable; the 7 field orders of the configuration files and the 4 legacy policies over a device of 32 lines | `TranslationInjective`, `LineZeroUnused`, `CellsAreDistinct`, `RowsAreFilled` |
| chan | 7 channels of 2 to 4 banks: one rank with RFMab and alerts after a grace period, one rank with alerts and no grace (tABO = 0, as in config_dramsim3/prac), bank by bank with RFMab, bank sets with RFMsb, two ranks with alerts and no grace, two ranks that sleep, the simultaneous policy; queues of 1, RAAMMT 1, up to 2 refreshes due | `NoIllegalCommand`, `ClosedBanksStayClosed`, `TakenInOrder`, `RfmsKeepUp`, `EveryUnitInTurn`; for the first three channels `RefreshesFinish`, `DemandServed` |
| track | 3 rows, refreshed one at a time, Ath 2, buffer of 2, MOAT, PAC and MOPAC, with and without activations during an alert | `TrackedRowIsEligible`, `RowsWithinAth`, `CountsNeverLost`, `AlertEnds` |
| time | 6 channels of 2 to 6 banks: open page with self-refresh, auto-precharge with bank-set refresh and RFM, both kinds of precharge with RFMab, two ranks on one bus, six banks of a rank, HBM dual command; delays that keep the order of the configuration files | `DataBusFree`, `BankTimesKept`, `FourActivateWindow`, `SecondColumnNeverReady` |
| cache | 4 lines, 3 ways, 6 accesses, 4 policies, budget of 1 | `VictimFollowsPolicy`, `KeepsLines` |
| hmc | 2 links, 2 quadrants, queues and vaults of 1, 4 requests of reads and writes, flits of 32-byte blocks | `LookupNeverFails`, `AgeMeansWaiting`, `AllAnswered` |
| legacy | 7 channels of 2 to 4 banks: hits and conflicts, write-backs and page timeouts, FCFS and FR-FCFS with queues of 2, RFMab with PARA and refresh, RFMs of three groups, same-bank refresh | `EveryWaiterHasItsRead`, `RaaBounded`, `EveryTransferHappens`, `EveryBankRefreshed` |

The bounds are the smallest at which the interesting cases occur: queues of two that
fill up, a drain that starts because the buffer is full and one that starts because the
banks are idle (`DrainFloor` stands for 8), row hits up to the limit (`RowHitLimit` for
4), a ROB that wraps and fills, a set that must evict, a read queue that refuses, a
second miss of a line whose first is outstanding and both answers (`MaxReads` is 2
for one line, that of the core whose stray answer wakes the other core, and 1 for the
other, which keeps the runs small), a
`size` that can wrap below zero (`UnsModulus` stands for 2^32), a refresh due while an
RFM closes rows and a second one behind it, rows above the eligibility threshold besides
the tracked one, an overfull buffer, five activations within a window, two quadrants
that answer one link. `maxRefreshes` is 1 where ranks sleep: two refreshes of a rank
queued when it falls asleep would end the program (see Observations).

Three properties are stated for the sizes for which they hold, and say so:
`ReadsReturn` (finding 1), `EveryTransferHappens` (tRDRD and the number of banks
without a common divisor) and `EveryBankRefreshed` (at most as many groups as banks
in a group). Others are stated for part of the code's cases. `EveryUnitInTurn` is for the
staggered rank and bank policies, `AlertEnds` until a row of MOPAC's buffer has
become critical. `WakeupsMatch` and `RetireStaysInRob` hold until an answer finds no
register, and `WaitersAreRegistered`, `NoStrayCallback` and `MissesComplete` leave out
what a second miss of a line has overwritten, which is finding 2. `RefreshesFinish` and
`DemandServed` are checked for the three channels of one rank named in the table. The
alerts of those channels come with and without a grace period, and they assume that RFMs
cool the trackers, which a critical row of MOPAC prevents. Not checked for them are bank
sets, sleeping ranks, the simultaneous policy, and two ranks that share alerts with
tABO = 0, which no configuration file has: every file with `alert_mode = 1` has one rank.
Observations lists what happens in the cases left out.

Deadlock checking is off where the program may end itself or stop: FrontEnd (the
assertions and exits of finding 2), path (frames exhausted), chan (AbruptExit).

### Fairness

Controller: the clock keeps ticking, so what can be scheduled is
(`WF(IdleTick)`); finished transactions are called back; activates and
precharges are issued once their constraint has elapsed (weak), because the round
robin visits every bank; column commands get strong fairness because a refresh
may close the row before the command is issued, but tREFI is longer than a refresh
(tRFC) and the time from activate to column command together, in the tightest
configurations too (2340 and 984 cycles in archived/ref/DDR5_32Gb_x4_4800_REFab_8ms.ini,
2348 and 984 in ref/DDR5_32GB_x4_r8.ini).
Refreshes get no fairness. MCController repeats this for the two queue structures.

ChannelState: the clock ticks, the refresh at hand proceeds and tABO elapses (weak).
The rest is strong: refreshes fall due tREFI apart, longer than serving one takes
(tRFC), and RFMs RAAMMT activations apart, so the queue of refreshes runs empty and
stays empty while RFMs are served, and a bank is not always activated just when a refresh
or RFM is taken up. Without this a refresh could fall due in every tick, which no clock
does. The verdict of the trackers is a free choice in this module, so its fairness says
what Tracker shows: again and again an RFM leaves no row of its banks hot (`AlertEnds`),
and the next activation is then not already the one that raises an alert, since it takes
ATH activations of a row. With tABO = 0 this is what serves a demand command: an alert
raised by its activation blocks its column command until such an RFM. The temporal
properties are checked for the channels with `fair`.

FrontEnd: the loop runs; the memory answers every accepted read, with strong fairness
because callbacks are enabled only in the memory's part of the cycle. Tracker: an open
row is closed in the end and the RFM of an alert is issued (weak; `RefreshesFinish` of
ChannelState). HMC and Legacy: the main loop never stops, so their cycle, always
enabled, is taken again and again, and a vault finishes what it holds (weak). Requests
have no fairness anywhere.

## Findings

1. *Drain against dependency* (controller.cc:236-241). When the first
   schedulable write has a pending read that is still in the read queue, the drain
   is cancelled; with the buffer still full it restarts on the next tick and looks
   at the write buffer again. The read is never scheduled, and the core dies with
   LOST-PACKET (mcore.cpp:298). With a unified queue, or while no address has both
   a read and a write waiting, every read is answered.
2. *The line should not be present already* (memsys_dramsim3.cpp:89). A miss
   installs the line at once, so it can be evicted while the read is outstanding,
   and missed again. A build with assertions ends there. The Release build overwrites the
   register: the first instruction is never woken (LOST-PACKET, mcore.cpp:298), and the
   second answer, which finds no register, wakes entry 0 of core 0 before its time or
   ends the program with ZOMBIEWAKEUP.

### Observations

Places where the code does something else than its comments or its names suggest,
met while modelling. The models have the code's behaviour; no run is spent on them.

- memsys_dramsim3.cpp:47: a write-back that meets a full write queue is dropped, and
  the retry does not carry it; mcore.h:60 says that the core stalls. The store is lost
  to the memory (`lostWb` in `StoresReachMemory`).
- os.cpp:36, 57 and 69: that a page number is in range, that frames are left and that
  one was found in MAX_TRIES picks is only asserted. A Release build goes on: two threads
  may get one key of the page table, and every page for which no frame is found gets
  frame 0.
- refresh.cc:78-93: the bank-set case falls through into the bank case, so the
  rotation passes over bank sets. refresh.cc:38: the simultaneous policy stops at
  the first rank that is awake, so only one rank is refreshed.
- command_queue.cc:71: a refresh may be taken up while an RFM is under way, which
  the assertion excludes; the RFM is resumed afterwards.
- channel_state.cc:264: an alert past tABO also turns away REFRESH_BANK, which then
  keeps the RFM that would end the alert from being taken up. With tABO = 0 an
  activation may raise an alert that blocks its own column command. The command is
  served after an RFM that cools the tracker; with a critical row of MOPAC, which no RFM
  clears (below), it never is.
- bankstate.h:119: the buffer is to hold "up-to 5 rows"; nothing keeps it from holding
  more.
- controller.cc:117: waking a rank asks banks in state SREF for SREF_EXIT through
  GetReadyCommand, which exits on it (bankstate.cc:173). command_queue.cc:160:
  rank_q_empty is never set back, so a rank that has had a command never sleeps again.
  A refresh still queued for a rank that has fallen asleep ends the program.
- bankstate.cc:463: SafeDecrement takes its argument by value, so
  `mopac_critical_rows_` only grows and an alert raised by a critical row never ends.
- timing.cc:102: no table entry holds a refresh back for tRC after an activation of
  the same bank, which shows after an early auto-precharge. timing.cc:297: the delays
  of REFRESH_BANK are written to `same_rank` and read from `same_bank`, so that bank
  may be activated in the next cycle. `BankTimesKept` therefore covers refreshes of
  ranks and bank sets and RFMs, and the time before them only through the bank state.
  The six SOFT_CLOSE_PAGE configurations (DDR5, archived/page_closure,
  archived/mirza/scp) mix WRITE with READ_PRECHARGE, which waits for tRTP only: the row
  may be opened again before the write recovery time of the write has passed.
- sim.cpp:136: `cycle & 2047 == 0` is `cycle & (2047 == 0)`; the budget of LRU_WBT is
  never renewed.
- hmc.cc:627: responses are looked up by address only, so a write that is done first
  takes an older read's response. hmc.cc:601: BuildAgeQueue compares an age with the
  index of a queue.
- dramchannel.cpp:154: the bus search starts at cycle % num_banks; if tRDRD and the
  number of banks have a common divisor some banks are never started at, and two banks
  with row hits can keep a third from the bus. dramchannel.cpp:170: a transfer
  overwrites `sleep_cycle`, so it cuts a refresh of its bank short and does not keep a
  ready bank from serving during the transfer; the next row may then open within tRAS
  (drambank.cpp:292).
- dram.cpp:202: `refsb_ptr` counts modulo the banks of a group and selects a group, so
  with more groups than banks in a group some are never refreshed.
- drambank.cpp:226: the comment says 5 times RFM_TH, the code tests 3 times.

## Proofs

Every theorem holds for all values of the constants that the named assumptions allow:
`ControllerConstants`, `FrontEndConstants`, `OSConstants`, `LegacyMapConstants`,
`AddressMapConstants`, `PathConstants`, `CacheConstants`, `TrackerConstants`,
`ChannelConstants`, `TimingConstants`, `HMCConstants` and `LegacyConstants`. TLC
evaluates each of them in the run of its module. Every safety property that a passing
run checks is proved. Type correctness is a conjunct of each
inductive invariant. TLC checked the inductive invariants on the runs' instances before
they were proved.

*Controller.* `ControllerInv` is inductive. `OneCommandPerPending` says that an address
is in a pending map iff exactly one queue entry stands for it; that makes IssueCommand's
exits unreachable, and gives `PendingMeansQueued`, which counts the places without
knowing the queue structure. `ReadsObserveLatestWrite` needs in addition that a waiting
read stands in front of any write of its address (`ReadsAheadOfWrites`): in a unified
queue because a read that meets a waiting write is forwarded and never queued, with
separate queues because a write is held back while its address is in `pending_rd_q_`.
The proof shows each preserved by scheduling (stated on the parameters `cq`, `pr`) and
by each command, and composes them per tick. `ImplementsMemPort` is the refinement:
`outRd` is pending plus returned reads; all ticks stutter, because reads move from one
to the other.

*FrontEnd.* `FrontEndInv` is inductive. `RetireStaysInRob` is not obvious:
`mcore_rob_retire` tests for emptiness once and reads stale entries past the end
of the ROB. It holds because a core that has run leaves at least CORE_WIDTH
instructions behind or sleeps on its youngest one, which is waiting
(`EnoughToRetire`, `SleepersAreYoungest`). Then only finished entries leave the
ROB, the slots of the miss registers stay live (`WakeupsMatch`), and ZOMBIEWAKEUP
is unreachable. `OneAnswerPerMiss` ties the memory's answers to the registers of every
line that was not missed twice, so that only the answer of such a line can find its
register free (`NoStrayCallback`). In the Release build that can happen, and the argument
about the ROB ends there: `RobInOrder` is an invariant up to the first stray answer. What
is kept of requests, answers and stores (`WaitersAreRegistered`, `OneAnswerPerMiss`,
`StoresReachMemory`) needs nothing of it and is proved for both builds without end.

*OS and Path.* `OSInv`: the page table is injective into the frames in use and avoids
frame 0. Injectivity of line addresses follows from uniqueness of quotient and
remainder, used twice (thread and page in a key, frame and line in an address).
`RowsAreFilled` rests on it too: `PathInv` adds that the mapping is one that was
configured, a translated line is a line of the memory because the frames fit into it,
and each of the four policies reads channel, bank and row off three of the five digits
of the line to mixed bases (`FiveDigits`: in range, unique, every combination occurs).
The other two digits are then a bijection from the lines of a row onto the places in it,
so every row has exactly `LinesInRow` lines (`PolicyRows`).

`CellsAreDistinct` follows by induction over the fields, starting from the lowest: the
remainder of a request's number modulo 2^pos is told by the fields taken so far, since
each field is the quotient by its own 2^pos modulo 2^width. After the last one pos is the
sum of all widths, so 2^pos is the number of requests of the device and the remainder is
the number itself; with MOP the two parts of the column are the digits of the column to
the base `MopSize`. `PathConstants` asks that an order names each of the 6 or 7 fields
once, which SetAddressMapping enforces by exiting or throwing otherwise, and that lines
are the requests of the device.

*HMC.* `HMCInv`: queues, ages and table have their types and depths, `AgeMeansWaiting`
and `LookupNeverFails`. The counts of `LookupNeverFails` are numbers of places; appending
a packet to a queue, removing one at any place or moving one to another queue changes
them by what bijections between the places show. A pass of the
crossbar is an induction over the sources served: the age queue holds exactly the sources
with an age, each once (an induction over `BuildAgeQueue`), so a source that is still to
be served has kept its queue, which is not empty, and each service moves one packet or
none. `ResponseFound` draws the conclusion for the code: whatever transaction a vault
finishes, VaultCallback finds a response with its address.

*Cache.* `CacheInv`: no line is in two ways, and `last_access` orders the ways as
`older` orders their lines. The refinement `KeepsLines` follows for any victim that is
a way of the set, which each policy's search is shown to end with;
`VictimFollowsPolicy` follows from the order of `last_access`.

*Tracker.* `TrackerInv`: a tracked row is eligible; what PRAC and MOPAC's buffer count
together for a row is at least the activations since its last refresh or mitigation
(`CountsNeverLost`); and a row at the alert threshold is the tracked one, with every row
closed (`OneRowAtAth`), which is why no counter of MOAT or PAC passes the threshold while
activations stop for the alert.

*ChannelState.* `ChannelInv`: the refresh or RFM that was taken up is still at the head
of its queue and the blocked banks are its targets (`TakenUp`), ranks sleep as a whole,
and a rank with an RFM has had demand commands or is the one whose bank refresh the alert
turns away (`QueuesWereFilled`). `TakenInOrder` and `ClosedBanksStayClosed` are action
properties that follow from it. `TakenInOrder` ties the command sent to the queues: a
refresh or RFM is sent iff it is the oldest of its queue and leaves it in that step, and
nothing else leaves a queue. The code takes the request out by a search for its rank and
bank, which finds the oldest first. `NoIllegalCommand` needs `SleepInv`, that no refresh
waits for a sleeping rank, and the hypothesis `OneRefreshDue`: one refresh is due at a
time where ranks may sleep. The code justifies it by tREFI being longer than tRFC and
closing the rows; without it the program does exit (see Observations).
`EveryUnitInTurn` follows from `TurnsTaken`: a unit's age is at most the number of units
between it and the cursor in the order of the rotation (`Before`), which grows by one
with every request and is less than the number of units. That the cursor's steps with
their carries follow that order is `NextFollows`.

*Timing.* `TimingInv`: `four_aw_` is the rank's activations within tFAW (`WindowKept`);
a column command that a bank can still issue, or whose ACTIVATE it can issue, starts its
burst after every earlier one is clear of the bus (`BusKept`), for all pairs of commands
of the tables. `BankTimesKept` has the invariant `BankKept` and the hypothesis
`TablesSuffice`, which collects what the tables of timing.cc leave out: a refresh of a
single bank, two kinds of RFM together, RFM after self-refresh exit, and orderings of
tWR, tRTP and tRAS2 with auto-precharge. The run's channels satisfy it. The
configurations of the repository satisfy it but for REFRESH_BANK and the ones with
SOFT_CLOSE_PAGE (see Observations).

*Legacy.* `LegacyInv`: per bank, every registered miss of the bank has exactly one read
in the bank's queue or on the bus, and no queue passes its size (`OneReadEach`, `InRoom`).
`RaaBounded` has `RfmsOnTheirWay`: a bank that has asked for the RFM of its group rests
until the groups before its own have been served, counted by the set of groups served
since. It needs `RestIsLongEnough`: with RFMs group by group, the number of other groups
is at most tRDRD + 1 and half of tRFC, so that a bank cannot open rows meanwhile; the
defaults (8 groups, 12 and 1640 cycles) are far within it. A second read of a registered
line fails the assertion of memsys.cpp:84 if its queue has room; the model does not take
that step.

Minima, counts and inductions need no induction theorem with an operator parameter,
which the provers cannot instantiate: a non-empty set of naturals has a least element
because finite sets are well-founded under inclusion, and a property holds of every index
because the set of indices without it has no least element. The property is a set in
these lemmas. They stand at the head of the modules or parts that use them.

Only model-checked is liveness, which is out of the prover's reach: `ReadsReturn`,
`MissesComplete`, `RefreshesFinish`, `DemandServed`, `AlertEnds`, `AllAnswered`,
`EveryTransferHappens` and `EveryBankRefreshed`.

## Not modelled

- Thermal model: a numerical solver in floating point.
- Reading ini files and deriving parameters from them (configuration.cc, params.h):
  the models take the parameters as constants; the address mapping is modelled.
- Statistics and output; the stand-alone drivers of cpu.cc and main.cc, which only
  feed the interface that MemPort abstracts.
- Code without a caller: IdealDRAMSystem (never instantiated), MIRZA (configured, no
  code), dram_channel_get_tfaw_token, mcache_probe and mcache_invalidate.
- PER_RANK queues (DRAMsim3/configs/ST-1.2x, ST-1.5x and ST-2.0x.ini) and NO_REFRESH
  (config_dramsim3/ref/DDR5_32GB_x4_rNONE.ini and the archived noref.ini), whose
  rotation is empty. ROWPRESS together with CLOSE_PAGE, which no configuration uses.
- A composition of FrontEnd with Controller's queues in place of the abstract memory:
  MemPort, which Controller is proved to implement, is what FrontEnd assumes.

Most of the repository's C++ is vendored (`DRAMsim3/ext`: json.hpp, catch.hpp, fmt,
args.hxx) and has no model; the map covers the simulator's own sources.

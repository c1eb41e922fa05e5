------------------------------- MODULE Timing -------------------------------
(***************************************************************************)
(* The timing constraints of one channel: the tables of timing.cc, the     *)
(* per-bank earliest times cmd_timing_ that ChannelState::UpdateTiming     *)
(* raises after every command, and the four-activate window.               *)
(*                                                                         *)
(* Times are relative to the present cycle: wait[b][c] is cmd_timing_[c]   *)
(* of bank b minus clk, or 0 if that has passed.  The commands are any the *)
(* state of the banks allows, so that the properties hold for every order  *)
(* in which the queues may ask for them.                                   *)
(*                                                                         *)
(* hold, idle, busy, bus and acts are history variables: what the DRAM     *)
(* itself needs, computed from the commands without the tables.            *)
(***************************************************************************)
EXTENDS Integers, Sequences, SequencesExt

CONSTANT Configs        \* the configurations, of which a run uses one
VARIABLE config

Ranks == config.ranks
BankGroups == config.bankGroups
BanksPerGroup == config.banksPerGroup
Cmds == config.cmds     \* the commands that the configuration makes use of
DualCmd == config.dualCmd       \* enable_hbm_dual_cmd
T == config.T           \* the timing parameters, a record

Bank == [rank : 0 .. Ranks - 1, bg : 0 .. BankGroups - 1,
         bank : 0 .. BanksPerGroup - 1]

Reads == {"READ", "READ_PRECHARGE", "READ_PRECHARGE2"}
Writes == {"WRITE", "WRITE_PRECHARGE", "WRITE_PRECHARGE2"}
Columns == Reads \cup Writes
Precharges == {"PRECHARGE", "PRECHARGE2"}
Closing == Precharges \cup (Columns \ {"READ", "WRITE"})
RankCmds == {"REFab", "RFMab", "SREF_ENTER", "SREF_EXIT"}
SbCmds == {"REFsb", "RFMsb"}
FromClosed == {"REFab", "REFsb", "REFRESH_BANK", "SREF_ENTER", "RFMab", "RFMsb"}
Commands == Columns \cup Precharges \cup FromClosed \cup {"ACTIVATE", "SREF_EXIT"}

Parameters ==           \* burst is burst_cycle; tRCDRD and tRCDWR are tRCD - AL if need be
    [AL : Nat, CL : Nat, CWL : Nat, burst : Nat \ {0}, tCCD_S : Nat, tCCD_L : Nat,
     tRTRS : Nat, tRTP : Nat, tWTR_S : Nat, tWTR_L : Nat, tWR : Nat, tRCDRD : Nat,
     tRCDWR : Nat, tRAS : Nat, tRP : Nat, tRC : Nat, tRAS2 : Nat, tRP2 : Nat,
     tRRD_S : Nat, tRRD_L : Nat, tFAW : Nat, tPPD : Nat, tRFC : Nat, tRFCsb : Nat,
     tRFCb : Nat, tREFIb : Nat, tREFSBRD : Nat, tRFM : Nat, tRFMsb : Nat, tCKESR : Nat,
     tXS : Nat]

Configuration ==
    [ranks : Nat \ {0}, bankGroups : Nat \ {0}, banksPerGroup : Nat \ {0},
     cmds : SUBSET Commands, dualCmd : BOOLEAN, T : Parameters]

\* tRC is computed.  The rest is the order that the parameters have in all
\* configuration files: a read's data leaves before the data of a write to the row
\* that replaces its row can come, and before the write's own can; and a channel with
\* two commands a cycle (HBM) has one rank.
ASSUME TimingConstants ==
    \A c \in Configs :
       /\ c \in Configuration
       /\ "ACTIVATE" \in c.cmds
       /\ c.T.tRC = c.T.tRAS + c.T.tRP
       /\ \A rp \in {c.T.tRP, c.T.tRP2} :
             c.T.CL + c.T.tRTRS <= c.T.tRTP + rp + c.T.tRCDWR + c.T.AL + c.T.CWL
       /\ c.T.CWL < c.T.CL + c.T.burst + c.T.tRTRS
       /\ c.dualCmd => c.ranks = 1

Larger(x, y) == IF x > y THEN x ELSE y

VARIABLES
    state,              \* BankState::state_
    wait,               \* BankState::cmd_timing_, relative
    fourAw,             \* ChannelState::four_aw_ of each rank, relative
    issued,             \* the commands issued in this cycle
    hold,               \* cycles for which the open row may not be closed, for
                        \* a precharge of kind 1 and of kind 2
    idle,               \* cycles until the bank is precharged
    busy,               \* cycles until its refresh or RFM is over
    bus,                \* bursts on the data bus, now or to come
    acts                \* ages of the activations of each rank, oldest first

history == <<hold, idle, busy, bus, acts>>
vars == <<config, state, wait, fourAw, issued, history>>

Init ==
    /\ config \in Configs
    /\ state = [b \in Bank |-> "CLOSED"]
    /\ wait = [b \in Bank |-> [c \in Cmds |-> 0]]
    /\ fourAw = [r \in 0 .. Ranks - 1 |-> << >>]
    /\ issued = << >>
    /\ hold = [b \in Bank |-> <<0, 0>>]
    /\ idle = [b \in Bank |-> 0] /\ busy = [b \in Bank |-> 0]
    /\ bus = {}
    /\ acts = [r \in 0 .. Ranks - 1 |-> << >>]

-----------------------------------------------------------------------------
(* The constraints between two commands, and the tables they fill.         *)

OneGroup == BankGroups = 1
RL == T.AL + T.CL
WL == T.AL + T.CWL
ReadDelay == RL + T.burst
WriteDelay == WL + T.burst

CCD_L == Larger(T.burst, IF OneGroup THEN T.tCCD_S ELSE T.tCCD_L)
CCD_S == Larger(T.burst, T.tCCD_S)
ReadToReadOther == T.burst + T.tRTRS
ReadToWrite == RL + T.burst - WL + T.tRTRS
ReadToWriteOther == ReadDelay + T.burst + T.tRTRS - WriteDelay
ReadToPrecharge == T.AL + T.tRTP
WriteToRead_L == WriteDelay + (IF OneGroup THEN T.tWTR_S ELSE T.tWTR_L)
WriteToRead_S == WriteDelay + T.tWTR_S
WriteToReadOther == WriteDelay + T.burst + T.tRTRS - ReadDelay
WriteToPrecharge == WL + T.burst + T.tWR
RRD_L == IF OneGroup THEN T.tRRD_S ELSE T.tRRD_L

RP(c) == IF c \in {"PRECHARGE2", "READ_PRECHARGE2", "WRITE_PRECHARGE2"}
         THEN T.tRP2 ELSE T.tRP

\* A command n waits for as long as one without 2 in its name: copy_all.
Column(n, read, write) == IF n \in Reads THEN read ELSE write

\* How long command n has to wait after command c, 0 where the table has no entry.
SameBank(c, n) ==
    CASE c = "READ" /\ n \in Columns -> Column(n, CCD_L, ReadToWrite)
      [] c = "READ" /\ n \in Precharges -> ReadToPrecharge
      [] c = "WRITE" /\ n \in Columns -> Column(n, WriteToRead_L, CCD_L)
      [] c = "WRITE" /\ n \in Precharges -> WriteToPrecharge
      [] c \in Reads \cap Closing /\ n = "ACTIVATE" -> T.AL + T.burst + T.tRTP + RP(c)
      [] c \in Reads \cap Closing /\ n \in FromClosed -> ReadToPrecharge + RP(c)
      [] c \in Writes \cap Closing /\ n \in FromClosed \cup {"ACTIVATE"} ->
            WriteToPrecharge + RP(c)
      [] c = "ACTIVATE" /\ n \in Columns -> Column(n, T.tRCDRD, T.tRCDWR)
      [] c = "ACTIVATE" /\ n = "ACTIVATE" -> T.tRC
      [] c = "ACTIVATE" /\ n = "PRECHARGE" -> T.tRAS
      [] c = "ACTIVATE" /\ n = "PRECHARGE2" -> T.tRAS2
      [] c \in Precharges /\ n \in FromClosed \cup {"ACTIVATE"} -> RP(c)
      [] OTHER -> 0

\* other_banks_same_bankgroup and other_bankgroups_same_rank, which differ in
\* the delays between two reads or writes, from a write to a read and between
\* two activations.
OtherBanks(c, n, ccd, wtr, rrd) ==
    CASE c \in Reads /\ n \in Columns -> Column(n, ccd, ReadToWrite)
      [] c \in Writes /\ n \in Columns -> Column(n, wtr, ccd)
      [] c = "ACTIVATE" /\ n = "ACTIVATE" -> rrd
      [] c = "ACTIVATE" /\ n = "REFRESH_BANK" -> T.tRC
      [] c = "ACTIVATE" /\ n = "REFsb" -> T.tRRD_L
      [] c \in Precharges /\ n \in Precharges -> T.tPPD
      [] c = "REFRESH_BANK" /\ n = "ACTIVATE" -> T.tRFC
      [] c = "REFRESH_BANK" /\ n = "REFRESH_BANK" -> T.tREFIb
      [] OTHER -> 0

OtherRanks(c, n) ==
    CASE c \in Reads /\ n \in Columns -> Column(n, ReadToReadOther, ReadToWriteOther)
      [] c \in Writes /\ n \in Columns -> Column(n, WriteToReadOther, T.burst)
      [] OTHER -> 0

SameRank(c, n) ==
    CASE c = "REFab" /\ n \in {"ACTIVATE"} \cup (FromClosed \ {"REFRESH_BANK"}) -> T.tRFC
      [] c = "SREF_ENTER" /\ n = "SREF_EXIT" -> T.tCKESR
      [] c = "SREF_EXIT" /\ n \in {"ACTIVATE"} \cup (FromClosed \ {"RFMab", "RFMsb"}) ->
            T.tXS
      [] c = "RFMab" /\ n \in {"ACTIVATE"} \cup (FromClosed \ {"RFMsb"}) -> T.tRFM
      [] OTHER -> 0

SameBankset(c, n) ==
    CASE c = "RFMsb" /\ n \in {"ACTIVATE"} \cup (FromClosed \ {"RFMab"}) -> T.tRFMsb
      [] c = "REFsb" /\ n \in {"ACTIVATE"} \cup (FromClosed \ {"REFRESH_BANK"}) -> T.tRFCsb
      [] OTHER -> 0

OtherBanksets(c, n) == IF c = "REFsb" /\ n = "ACTIVATE" THEN T.tREFSBRD ELSE 0

-----------------------------------------------------------------------------
(* What a command makes each bank wait for: ChannelState::UpdateTiming.    *)

SameBanksetAs(a, b) == a.rank = b.rank /\ a.bank = b.bank

\* Mutant: other bank groups are held to nothing.
Delays_OwnGroup(c, a, b, n) ==
    CASE c \in RankCmds -> IF a.rank = b.rank THEN SameRank(c, n) ELSE 0
      [] c \in SbCmds -> IF SameBanksetAs(a, b) THEN SameBankset(c, n) ELSE 0
      [] c \notin RankCmds \cup SbCmds ->
            IF a = b THEN SameBank(c, n)
            ELSE IF a.rank = b.rank /\ a.bg = b.bg
            THEN OtherBanks(c, n, CCD_L, WriteToRead_L, RRD_L) ELSE 0

Delays(c, a, b, n) ==
    CASE c \in RankCmds -> IF a.rank = b.rank THEN SameRank(c, n) ELSE 0
      [] c \in SbCmds -> IF SameBanksetAs(a, b) THEN SameBankset(c, n)
                         ELSE IF a.bank # b.bank THEN OtherBanksets(c, n) ELSE 0
      [] c \notin RankCmds \cup SbCmds ->
            IF a = b THEN SameBank(c, n)
            ELSE IF a.rank # b.rank THEN OtherRanks(c, n)
            ELSE IF a.bg # b.bg THEN OtherBanks(c, n, CCD_S, WriteToRead_S, T.tRRD_S)
            ELSE OtherBanks(c, n, CCD_L, WriteToRead_L, RRD_L)

\* Mutant: the latest command decides.
UpdateTiming_Overwrites(c, a) ==
    wait' = [b \in Bank |-> [n \in Cmds |->
                IF Delays(c, a, b, n) > 0 THEN Delays(c, a, b, n) ELSE wait[b][n]]]

\* BankState::UpdateTiming: a bank's earliest time is never lowered.
UpdateTiming(c, a) ==
    wait' = [b \in Bank |-> [n \in Cmds |-> Larger(wait[b][n], Delays(c, a, b, n))]]

\* Mutant: five activations fit in a window.
IsFAWReady_Five(r) == ~(Len(fourAw[r]) >= 5 /\ fourAw[r][1] > 0)

IsFAWReady(r) == ~(Len(fourAw[r]) >= 4 /\ fourAw[r][1] > 0)

UpdateActivationTimes(r) ==
    fourAw' = [fourAw EXCEPT ![r] =
        Append(IF @ # << >> /\ @[1] = 0 THEN Tail(@) ELSE @, T.tFAW)]

-----------------------------------------------------------------------------
(* What the DRAM needs, from the commands alone.                           *)

Targets(c, a) == CASE c \in RankCmds -> {b \in Bank : b.rank = a.rank}
                   [] c \in SbCmds -> {b \in Bank : SameBanksetAs(a, b)}
                   [] OTHER -> {a}
Kind(c) == IF c \in {"PRECHARGE2", "READ_PRECHARGE2", "WRITE_PRECHARGE2"}
           THEN 2 ELSE 1
Recovery(c) == CASE c \in Reads -> T.AL + T.tRTP
                 [] c \in Writes -> WL + T.burst + T.tWR
                 [] OTHER -> 0
Busy(c) == CASE c = "REFab" -> T.tRFC      [] c = "REFsb" -> T.tRFCsb
             [] c = "RFMab" -> T.tRFM      [] c = "RFMsb" -> T.tRFMsb
             [] c = "REFRESH_BANK" -> T.tRFCb
             [] c = "SREF_EXIT" -> T.tXS   [] OTHER -> 0

Remember(c, a) ==
    /\ hold' = [hold EXCEPT ![a] =
          IF c = "ACTIVATE" THEN <<T.tRAS, T.tRAS2>>
          ELSE IF c \in Closing THEN <<0, 0>>
          ELSE [k \in 1 .. 2 |-> Larger(@[k], Recovery(c))]]
    /\ idle' = [idle EXCEPT ![a] =
          IF c \in Closing
          THEN Larger(hold[a][Kind(c)], Recovery(c)) + <<T.tRP, T.tRP2>>[Kind(c)]
          ELSE @]
    /\ busy' = [b \in Bank |-> IF b \in Targets(c, a)
                               THEN Larger(busy[b], Busy(c)) ELSE busy[b]]
    /\ bus' = bus \cup (IF c \in Columns
                        THEN {[at |-> IF c \in Reads THEN RL ELSE WL,
                               rank |-> a.rank, read |-> c \in Reads]}
                        ELSE {})
    /\ acts' = [acts EXCEPT ![a.rank] =
          IF c # "ACTIVATE" THEN @
          ELSE Append(IF Len(@) = 4 THEN Tail(@) ELSE @, 0)]

-----------------------------------------------------------------------------
\* The state in which a bank takes a command and the one it goes to.
Before(c) == CASE c \in Columns \cup Precharges -> "OPEN"
               [] c = "SREF_EXIT" -> "SREF"
               [] OTHER -> "CLOSED"
After(c) == CASE c \in {"ACTIVATE", "READ", "WRITE"} -> "OPEN"
              [] c = "SREF_ENTER" -> "SREF"
              [] OTHER -> "CLOSED"

\* GetReadyCommand: every bank the command goes to is ready for it.
Ready(c, a) ==
    /\ \A b \in Targets(c, a) : state[b] = Before(c) /\ wait[b][c] = 0
    /\ c = "ACTIVATE" => IsFAWReady(a.rank)

\* One command a cycle.  With enable_hbm_dual_cmd a second one from the queues,
\* if one of the two is a read or write and the other is not.
MayIssue(c) ==
    \/ issued = << >>
    \/ /\ DualCmd /\ Len(issued) = 1
       /\ c \notin FromClosed
       /\ (c \in Columns) # (issued[1].cmd \in Columns)

\* A rank command names bank 0 of its rank, a bank-set command bank group 0.
Names(c, a) == /\ c \in RankCmds \cup SbCmds => a.bg = 0
               /\ c \in RankCmds => a.bank = 0

Issue(c, a) ==
    /\ Names(c, a) /\ MayIssue(c) /\ Ready(c, a)
    /\ state' = [b \in Bank |-> IF b \in Targets(c, a) THEN After(c) ELSE state[b]]
    /\ UpdateTiming(c, a)
    /\ IF c = "ACTIVATE" THEN UpdateActivationTimes(a.rank) ELSE UNCHANGED fourAw
    /\ issued' = Append(issued, [cmd |-> c, addr |-> a])
    /\ Remember(c, a)
    /\ UNCHANGED config

Less(n) == IF n > 0 THEN n - 1 ELSE 0
Older(age) == IF age < T.tFAW THEN age + 1 ELSE age

Tick ==
    /\ issued' = << >>
    /\ wait' = [b \in Bank |-> [c \in Cmds |-> Less(wait[b][c])]]
    /\ fourAw' = [r \in DOMAIN fourAw |->
                    [i \in DOMAIN fourAw[r] |-> Less(fourAw[r][i])]]
    /\ hold' = [b \in Bank |-> [k \in 1 .. 2 |-> Less(hold[b][k])]]
    /\ idle' = [b \in Bank |-> Less(idle[b])]
    /\ busy' = [b \in Bank |-> Less(busy[b])]
    /\ bus' = {[u EXCEPT !.at = @ - 1] :
                  u \in {v \in bus : v.at + T.burst + T.tRTRS > 1}}
    /\ acts' = [r \in DOMAIN acts |-> [i \in DOMAIN acts[r] |-> Older(acts[r][i])]]
    /\ UNCHANGED <<config, state>>

Next ==
    \/ \E c \in Cmds, a \in Bank : Issue(c, a)
    \/ Tick

Spec == Init /\ [][Next]_vars

-----------------------------------------------------------------------------
TypeOK ==
    /\ state \in [Bank -> {"OPEN", "CLOSED", "SREF"}]
    /\ wait \in [Bank -> [Cmds -> Nat]]
    /\ \A r \in DOMAIN fourAw : Len(fourAw[r]) <= 4
    /\ \A i \in DOMAIN issued : issued[i].cmd \in Cmds /\ issued[i].addr \in Bank

Issues(c, a) == issued' # << >> /\ Last(issued') = [cmd |-> c, addr |-> a]

\* A bank is given the time it needs, in any order of commands: a row is closed
\* only after tRAS and when its last read has left and its last write has been
\* stored (PRECHARGE and PRECHARGE2 have a tRAS each); a row is opened only in a
\* bank that is precharged, however its last row was closed; and no command comes
\* before a refresh, an RFM or the exit from self-refresh is over.
BankTimesKept ==
    [][\A c \in Cmds, a \in Bank : Issues(c, a) =>
          /\ c \in Precharges => hold[a][Kind(c)] = 0
          /\ c = "ACTIVATE" => idle[a] = 0
          /\ \A b \in Targets(c, a) : busy[b] = 0]_vars

\* Two bursts never meet on the data bus of the channel, and the bus is left
\* alone for tRTRS when its direction turns from reading to writing or when
\* another rank takes it over (two writes need no gap).
DataBusFree ==
    \A u, v \in bus : u # v /\ u.at <= v.at =>
        /\ v.at >= u.at + T.burst
        /\ (u.read /\ ~v.read) \/ (u.rank # v.rank /\ (u.read \/ v.read))
              => v.at >= u.at + T.burst + T.tRTRS

\* At most four activations of a rank in any tFAW cycles.
FourActivateWindow ==
    [][\A b \in Bank : Issues("ACTIVATE", b) /\ Len(acts[b.rank]) = 4
          => acts[b.rank][1] >= T.tFAW]_vars

\* The second command of a cycle is taken out of its queue before ClockTick
\* compares it with the first.  It is never one that ClockTick then drops: when
\* a read or write has been issued no other one is ready in the same cycle.
SecondColumnNeverReady ==
    (DualCmd /\ \E i \in DOMAIN issued : issued[i].cmd \in Columns) =>
        \A c \in Columns \cap Cmds, b \in Bank : ~Ready(c, b)
=============================================================================

----------------------------- MODULE TimingProofs -----------------------------
(***************************************************************************)
(* Proofs, for every set of configurations, that the tables of timing.cc   *)
(* and the times that ChannelState::UpdateTiming makes of them give banks, *)
(* activations and the data bus what the DRAM needs.                       *)
(***************************************************************************)
EXTENDS Timing, SequenceTheorems, TLAPS

RankIds == 0 .. Ranks - 1
Burst == [at : Int, rank : Int, read : BOOLEAN]

Types ==
    /\ config \in Configs
    /\ state \in [Bank -> {"OPEN", "CLOSED", "SREF"}]
    /\ wait \in [Bank -> [Cmds -> Nat]]
    /\ fourAw \in [RankIds -> Seq(Nat)] /\ acts \in [RankIds -> Seq(Nat)]
    /\ issued \in Seq([cmd : Cmds, addr : Bank])
    /\ hold \in [Bank -> [1 .. 2 -> Nat]]
    /\ idle \in [Bank -> Nat] /\ busy \in [Bank -> Nat]
    /\ bus \subseteq Burst

\* four_aw_ (f) holds the latest activations (s) of a rank, and the ones it has
\* dropped are as old as the window w.
Window(f, s, w) ==
    /\ Len(f) <= Len(s) /\ Len(s) <= 4
    /\ \A i \in 1 .. Len(s) : s[i] <= w
    /\ \A i \in 1 .. Len(s) - Len(f) : s[i] = w
    /\ \A i \in 1 .. Len(f) : f[i] = w - s[Len(s) - Len(f) + i]

WindowKept == \A r \in RankIds : Window(fourAw[r], acts[r], T.tFAW)

Latency(n) == IF n \in Reads THEN RL ELSE WL
RCD(n) == Column(n, T.tRCDRD, T.tRCDWR)

\* The first cycle in which a burst of rank r may start after burst u.
Clear(u, r, read) ==
    u.at + T.burst
      + (IF (u.read /\ ~read) \/ (u.rank # r /\ (u.read \/ read)) THEN T.tRTRS ELSE 0)

\* A read or write that a bank takes from now on has the bus to itself.  A bank
\* that has closed its row with the burst need not wait with the command, only
\* with the ACTIVATE that goes before it.
BusKept ==
    \A u \in bus, b \in Bank, n \in Columns \cap Cmds :
        \/ wait[b][n] + Latency(n) >= Clear(u, b.rank, n \in Reads)
        \/ /\ state[b] # "OPEN"
           /\ wait[b]["ACTIVATE"] + RCD(n) + Latency(n) >= Clear(u, b.rank, n \in Reads)

\* After a read or write no bank takes another one in this cycle, not even one
\* that is opened meanwhile.
ColumnsBlocked ==
    (DualCmd /\ \E i \in DOMAIN issued : issued[i].cmd \in Columns) =>
        \A b \in Bank, n \in Columns \cap Cmds :
            wait[b][n] > 0 \/ (state[b] # "OPEN" /\ wait[b]["ACTIVATE"] > 0)

Recover(c) == IF c \in Reads THEN T.AL + T.burst + T.tRTP ELSE WriteToPrecharge

\* A bank's own times are no less than what its row and its precharge need.
RowKept ==
    \A b \in Bank :
        /\ \A p \in Precharges \cap Cmds : hold[b][Kind(p)] <= wait[b][p]
        /\ idle[b] <= wait[b]["ACTIVATE"]

\* An auto-precharge has no time of its own for the row: the column command waits
\* long enough, or the next ACTIVATE does.
AutoKept ==
    \A b \in Bank, x \in Columns \cap Closing \cap Cmds :
        state[b] = "OPEN" =>
           \/ hold[b][Kind(x)] + RP(x) <= wait[b]["ACTIVATE"]
           \/ hold[b][Kind(x)] <= wait[b][x] + Recover(x)

\* A bank under refresh is closed, and waits with all it may take.
BusyKept ==
    \A b \in Bank :
        /\ state[b] # "CLOSED" => busy[b] = 0
        /\ \A n \in ({"ACTIVATE"} \cup FromClosed) \cap Cmds :
              state[b] = "CLOSED" => busy[b] <= wait[b][n]

BankKept == RowKept /\ AutoKept /\ BusyKept

\* What the tables leave out, and the commands of a configuration must not need.
\* The refresh of one bank is not followed by anything in that bank, nor an RFM of
\* one kind or the exit from self-refresh by an RFM of the other kind or of any.
\* A READ_PRECHARGE waits for tRTP and not for the tWR of a WRITE to its row, and
\* an auto-precharge of the second kind not for tRAS2.
TablesSuffice ==
    \A c \in Configs :
        /\ "REFRESH_BANK" \notin c.cmds
        /\ ~ {"RFMab", "RFMsb"} \subseteq c.cmds
        /\ "SREF_EXIT" \in c.cmds => c.cmds \cap {"RFMab", "RFMsb"} = {}
        /\ "WRITE" \in c.cmds /\ c.cmds \cap Reads \cap Closing # {} =>
              c.T.tWR <= (IF c.bankGroups = 1 THEN c.T.tWTR_S ELSE c.T.tWTR_L)
                         + c.T.AL + c.T.burst + c.T.tRTP
        /\ "READ" \in c.cmds /\ c.cmds \cap Writes \cap Closing # {} =>
              c.T.tRTP <= c.T.CL + 2 * c.T.burst + c.T.tRTRS + c.T.tWR
        /\ "READ_PRECHARGE2" \in c.cmds =>
              \/ c.T.tRAS2 + c.T.tRP2 <= c.T.tRC
              \/ c.T.tRAS2 <= c.T.tRCDRD + c.T.AL + c.T.burst + c.T.tRTP
        /\ "WRITE_PRECHARGE2" \in c.cmds =>
              \/ c.T.tRAS2 + c.T.tRP2 <= c.T.tRC
              \/ c.T.tRAS2 <= c.T.tRCDWR + c.T.AL + c.T.CWL + c.T.burst + c.T.tWR


-----------------------------------------------------------------------------
(* The parameters and the tables.                                          *)

LEMMA ConfigTypes ==
    ASSUME config \in Configs
    PROVE  /\ config \in Configuration
           /\ Ranks \in Nat \ {0} /\ BankGroups \in Nat \ {0}
           /\ BanksPerGroup \in Nat \ {0}
           /\ Cmds \subseteq Commands /\ "ACTIVATE" \in Cmds
           /\ DualCmd \in BOOLEAN /\ T \in Parameters
BY TimingConstants DEF Configuration, Ranks, BankGroups, BanksPerGroup, Cmds, DualCmd, T

LEMMA ParameterTypes ==
    ASSUME config \in Configs
    PROVE  /\ T.AL \in Nat /\ T.CL \in Nat /\ T.CWL \in Nat
           /\ T.burst \in Nat \ {0} /\ T.tCCD_S \in Nat /\ T.tCCD_L \in Nat
           /\ T.tRTRS \in Nat /\ T.tRTP \in Nat /\ T.tWTR_S \in Nat /\ T.tWTR_L \in Nat
           /\ T.tWR \in Nat /\ T.tRCDRD \in Nat /\ T.tRCDWR \in Nat
           /\ T.tRAS \in Nat /\ T.tRP \in Nat /\ T.tRC \in Nat
           /\ T.tRAS2 \in Nat /\ T.tRP2 \in Nat
           /\ T.tRRD_S \in Nat /\ T.tRRD_L \in Nat /\ T.tFAW \in Nat /\ T.tPPD \in Nat
           /\ T.tRFC \in Nat /\ T.tRFCsb \in Nat /\ T.tRFCb \in Nat /\ T.tREFIb \in Nat
           /\ T.tREFSBRD \in Nat /\ T.tRFM \in Nat /\ T.tRFMsb \in Nat
           /\ T.tCKESR \in Nat /\ T.tXS \in Nat
<1>1. T \in Parameters
  BY ConfigTypes
<1> QED BY <1>1 DEF Parameters

\* The relations between parameters that hold in all configurations.
LEMMA ParameterOrder ==
    ASSUME config \in Configs
    PROVE  /\ T.tRC = T.tRAS + T.tRP
           /\ T.CL + T.tRTRS <= T.tRTP + T.tRP + T.tRCDWR + T.AL + T.CWL
           /\ T.CL + T.tRTRS <= T.tRTP + T.tRP2 + T.tRCDWR + T.AL + T.CWL
           /\ T.CWL < T.CL + T.burst + T.tRTRS
           /\ DualCmd => Ranks = 1
BY TimingConstants DEF T, DualCmd, Ranks

LEMMA SameBankInt ==
    ASSUME config \in Configs, NEW c \in Commands, NEW n \in Commands
    PROVE  SameBank(c, n) \in Int
BY ParameterTypes DEF SameBank, Column, CCD_L, ReadToWrite, ReadToPrecharge, WriteToRead_L,
   WriteToPrecharge, RL, WL, WriteDelay, RP, Larger, OneGroup

LEMMA OtherBanksInt ==
    ASSUME config \in Configs, NEW c \in Commands, NEW n \in Commands,
           NEW ccd \in Int, NEW wtr \in Int, NEW rrd \in Int
    PROVE  OtherBanks(c, n, ccd, wtr, rrd) \in Int
BY ParameterTypes DEF OtherBanks, Column, ReadToWrite, RL, WL

LEMMA GroupDelaysInt ==
    ASSUME config \in Configs
    PROVE  /\ CCD_S \in Int /\ CCD_L \in Int /\ WriteToRead_S \in Int
           /\ WriteToRead_L \in Int /\ T.tRRD_S \in Int /\ RRD_L \in Int
BY ParameterTypes DEF CCD_S, CCD_L, WriteToRead_S, WriteToRead_L, RRD_L, Larger,
   WriteDelay, WL, OneGroup

LEMMA RanksInt ==
    ASSUME config \in Configs, NEW c \in Commands, NEW n \in Commands
    PROVE  /\ OtherRanks(c, n) \in Int /\ SameRank(c, n) \in Int
           /\ SameBankset(c, n) \in Int /\ OtherBanksets(c, n) \in Int
BY ParameterTypes DEF OtherRanks, SameRank, SameBankset, OtherBanksets, Column,
   ReadToReadOther, ReadToWriteOther, WriteToReadOther, ReadDelay, WriteDelay, RL, WL

LEMMA DelaysInt ==
    ASSUME config \in Configs, NEW c \in Commands, NEW n \in Commands,
           NEW a \in Bank, NEW b \in Bank
    PROVE  Delays(c, a, b, n) \in Int
<1>1. /\ SameBank(c, n) \in Int
      /\ OtherBanks(c, n, CCD_S, WriteToRead_S, T.tRRD_S) \in Int
      /\ OtherBanks(c, n, CCD_L, WriteToRead_L, RRD_L) \in Int
      /\ OtherRanks(c, n) \in Int /\ SameRank(c, n) \in Int
      /\ SameBankset(c, n) \in Int /\ OtherBanksets(c, n) \in Int
  BY SameBankInt, OtherBanksInt, GroupDelaysInt, RanksInt
<1> QED BY <1>1 DEF Delays

\* A bank's times are raised to the delays of the command, and never lowered.
LEMMA WaitStep ==
    ASSUME Types, NEW c \in Cmds, NEW a \in Bank, UpdateTiming(c, a)
    PROVE  /\ wait' \in [Bank -> [Cmds -> Nat]]
           /\ \A b \in Bank, n \in Cmds :
                 wait'[b][n] >= wait[b][n] /\ wait'[b][n] >= Delays(c, a, b, n)
<1>1. \A b \in Bank, n \in Cmds :
         Delays(c, a, b, n) \in Int /\ wait[b][n] \in Nat
  BY DelaysInt, ConfigTypes DEF Types
<1>2. \A b \in Bank, n \in Cmds :
         wait'[b][n] = Larger(wait[b][n], Delays(c, a, b, n))
  BY DEF UpdateTiming
<1>3. \A b \in Bank, n \in Cmds :
         /\ Larger(wait[b][n], Delays(c, a, b, n)) \in Nat
         /\ Larger(wait[b][n], Delays(c, a, b, n)) >= wait[b][n]
         /\ Larger(wait[b][n], Delays(c, a, b, n)) >= Delays(c, a, b, n)
  BY <1>1 DEF Larger
<1> QED BY <1>2, <1>3 DEF UpdateTiming

\* After a read or write a bank waits until the bus is clear, unless the command
\* has closed its row.
LEMMA ColumnDelays ==
    ASSUME config \in Configs, NEW c \in Columns, NEW a \in Bank, NEW b \in Bank,
           NEW n \in Columns, NEW u, u.at = Latency(c), u.rank = a.rank,
           u.read <=> c \in Reads, a # b \/ c \notin Closing
    PROVE  Delays(c, a, b, n) + Latency(n) >= Clear(u, b.rank, n \in Reads)
<1>1. c \notin RankCmds \cup SbCmds
  BY DEF Columns, Reads, Writes, RankCmds, SbCmds
<1>2. CASE a = b
  <2>1. c \in {"READ", "WRITE"}
    BY <1>2 DEF Columns, Reads, Writes, Closing
  <2>2. Delays(c, a, b, n) = SameBank(c, n)
    BY <1>1, <1>2 DEF Delays
  <2>3. CASE c = "READ"
    <3>1. SameBank(c, n) = Column(n, CCD_L, ReadToWrite)
      BY <2>3 DEF SameBank, Columns, Reads, Writes, Precharges, Closing, FromClosed
    <3> QED BY <3>1, <2>2, <2>3, <1>2, ParameterTypes DEF Column, CCD_L, ReadToWrite,
               Latency, Clear, RL, WL, Larger, Reads, OneGroup
  <2>4. CASE c = "WRITE"
    <3>1. SameBank(c, n) = Column(n, WriteToRead_L, CCD_L)
      BY <2>4 DEF SameBank, Columns, Reads, Writes, Precharges, Closing, FromClosed
    <3> QED BY <3>1, <2>2, <2>4, <1>2, ParameterTypes DEF Column, CCD_L, WriteToRead_L,
               WriteDelay, Latency, Clear, RL, WL, Larger, Reads, OneGroup
  <2> QED BY <2>1, <2>3, <2>4
<1>3. CASE a.rank # b.rank
  <2>1. Delays(c, a, b, n) = OtherRanks(c, n)
    BY <1>1, <1>3 DEF Delays
  <2>2. CASE c \in Reads
    <3>1. OtherRanks(c, n) = Column(n, ReadToReadOther, ReadToWriteOther)
      BY <2>2 DEF OtherRanks, Columns, Reads, Writes
    <3> QED BY <3>1, <2>1, <2>2, <1>3, ParameterTypes DEF Column, ReadToReadOther,
               ReadToWriteOther, ReadDelay, WriteDelay, Latency, Clear, RL, WL
  <2>3. CASE c \notin Reads
    <3>1. OtherRanks(c, n) = Column(n, WriteToReadOther, T.burst)
      BY <2>3 DEF OtherRanks, Columns, Reads, Writes
    <3> QED BY <3>1, <2>1, <2>3, <1>3, ParameterTypes DEF Column, WriteToReadOther,
               ReadDelay, WriteDelay, Latency, Clear, RL, WL
  <2> QED BY <2>2, <2>3
<1>4. CASE a # b /\ a.rank = b.rank
  <2>1. PICK ccd \in {CCD_S, CCD_L}, wtr \in {WriteToRead_S, WriteToRead_L},
             rrd \in {T.tRRD_S, RRD_L} :
           Delays(c, a, b, n) = OtherBanks(c, n, ccd, wtr, rrd)
    BY <1>1, <1>4 DEF Delays
  <2>2. ccd \in Int /\ ccd >= T.burst /\ wtr \in Int /\ wtr >= WriteDelay
    BY ParameterTypes DEF CCD_S, CCD_L, WriteToRead_S, WriteToRead_L, Larger, OneGroup,
       WriteDelay, WL
  <2>3. CASE c \in Reads
    <3>1. OtherBanks(c, n, ccd, wtr, rrd) = Column(n, ccd, ReadToWrite)
      BY <2>3 DEF OtherBanks, Columns, Reads, Writes, Precharges, Closing, FromClosed
    <3> QED BY <3>1, <2>1, <2>2, <2>3, <1>4, ParameterTypes DEF Column, ReadToWrite,
               Latency, Clear, RL, WL
  <2>4. CASE c \notin Reads
    <3>1. OtherBanks(c, n, ccd, wtr, rrd) = Column(n, wtr, ccd)
      BY <2>4 DEF OtherBanks, Columns, Reads, Writes, Precharges, Closing, FromClosed
    <3> QED BY <3>1, <2>1, <2>2, <2>4, <1>4, ParameterTypes DEF Column, WriteDelay,
               Latency, Clear, RL, WL
  <2> QED BY <2>3, <2>4
<1> QED BY <1>2, <1>3, <1>4

-----------------------------------------------------------------------------
(* Types.                                                                  *)

\* The configuration is chosen once.
LEMMA SteadyConfig ==
    ASSUME config' = config
    PROVE  /\ Bank' = Bank /\ Cmds' = Cmds /\ RankIds' = RankIds /\ T' = T
           /\ DualCmd' = DualCmd /\ RL' = RL /\ WL' = WL
           /\ WriteToPrecharge' = WriteToPrecharge
BY DEF Bank, Cmds, RankIds, Ranks, BankGroups, BanksPerGroup, T, DualCmd, RL, WL,
   WriteToPrecharge

LEMMA BankFields ==
    ASSUME config \in Configs, NEW a \in Bank
    PROVE  a.rank \in RankIds /\ a.rank \in Int
BY ConfigTypes DEF Bank, RankIds

\* A pointwise image of a sequence of numbers.
LEMMA SeqMap ==
    ASSUME NEW s \in Seq(Nat), NEW f, f = [i \in DOMAIN s |-> f[i]],
           \A i \in 1 .. Len(s) : f[i] \in Nat
    PROVE  f \in Seq(Nat) /\ Len(f) = Len(s)
<1>1. DOMAIN s = 1 .. Len(s) /\ Len(s) \in Nat
  OBVIOUS
<1>2. f \in [1 .. Len(s) -> Nat]
  BY <1>1
<1> QED BY <1>1, <1>2

LEMMA InitTypes ==
    ASSUME Init
    PROVE  Types
<1>1. config \in Configs
  BY DEF Init
<1>2. state \in [Bank -> {"OPEN", "CLOSED", "SREF"}] /\ wait \in [Bank -> [Cmds -> Nat]]
  BY DEF Init
<1>3. fourAw \in [RankIds -> Seq(Nat)] /\ acts \in [RankIds -> Seq(Nat)]
  BY DEF Init, RankIds
<1>4. issued \in Seq([cmd : Cmds, addr : Bank]) /\ bus \subseteq Burst
  BY DEF Init
<1>5. hold \in [Bank -> [1 .. 2 -> Nat]]
  <2>1. <<0, 0>> \in [1 .. 2 -> Nat]
    OBVIOUS
  <2> QED BY <2>1 DEF Init
<1>6. idle \in [Bank -> Nat] /\ busy \in [Bank -> Nat]
  BY DEF Init
<1> QED BY <1>1, <1>2, <1>3, <1>4, <1>5, <1>6 DEF Types

LEMMA CommandTypes ==
    ASSUME config \in Configs, NEW c \in Commands
    PROVE  /\ Recovery(c) \in Nat /\ Busy(c) \in Nat /\ RP(c) \in Nat
           /\ Latency(c) \in Nat /\ RCD(c) \in Nat /\ Recover(c) \in Nat
           /\ Kind(c) \in 1 .. 2 /\ After(c) \in {"OPEN", "CLOSED", "SREF"}
           /\ <<T.tRP, T.tRP2>>[Kind(c)] = RP(c)
<1>1. Recovery(c) \in Nat /\ Busy(c) \in Nat /\ RP(c) \in Nat /\ Recover(c) \in Nat
  BY ParameterTypes DEF Recovery, Busy, RP, Recover, WL, WriteToPrecharge
<1>2. Latency(c) \in Nat /\ RCD(c) \in Nat
  BY ParameterTypes DEF Latency, RCD, Column, RL, WL
<1>3. Kind(c) \in 1 .. 2 /\ <<T.tRP, T.tRP2>>[Kind(c)] = RP(c)
  BY DEF Kind, RP
<1>4. After(c) \in {"OPEN", "CLOSED", "SREF"}
  BY DEF After
<1> QED BY <1>1, <1>2, <1>3, <1>4

\* The part of a step that is the same for all commands.
LEMMA IssueTypes ==
    ASSUME Types, NEW c \in Cmds, NEW a \in Bank, Issue(c, a)
    PROVE  Types'
<1>1. config \in Configs /\ c \in Commands /\ config' = config
  BY ConfigTypes DEF Types, Issue
<1>2. state' \in [Bank -> {"OPEN", "CLOSED", "SREF"}]
  BY <1>1, CommandTypes DEF Issue, Types
<1>3. wait' \in [Bank -> [Cmds -> Nat]]
  BY WaitStep DEF Issue
<1>4. a.rank \in RankIds /\ a.rank \in Int /\ T.tFAW \in Nat
  BY <1>1, BankFields, ParameterTypes
<1>5. fourAw' \in [RankIds -> Seq(Nat)]
  <2>1. CASE c # "ACTIVATE"
    <3>1. fourAw' = fourAw
      BY <2>1, Zenon DEF Issue
    <3> QED BY <3>1 DEF Types
  <2>2. CASE c = "ACTIVATE"
    <3> DEFINE q == fourAw[a.rank]
               g == Append(IF q # << >> /\ q[1] = 0 THEN Tail(q) ELSE q, T.tFAW)
    <3>1. q \in Seq(Nat)
      BY <1>4 DEF Types
    <3>2. g \in Seq(Nat)
      BY <3>1, <1>4
    <3>3. fourAw' = [fourAw EXCEPT ![a.rank] = g]
      BY <2>2, <1>4 DEF Issue, UpdateActivationTimes, Types
    <3> HIDE DEF g, q
    <3> QED BY <3>2, <3>3, <1>4 DEF Types
  <2> QED BY <2>1, <2>2
<1>6. acts' \in [RankIds -> Seq(Nat)]
  <2> DEFINE q == acts[a.rank]
             g == IF c # "ACTIVATE" THEN q
                  ELSE Append(IF Len(q) = 4 THEN Tail(q) ELSE q, 0)
  <2>1. q \in Seq(Nat)
    BY <1>4 DEF Types
  <2>2. g \in Seq(Nat)
    <3> HIDE DEF q
    <3>1. CASE Len(q) = 4
      BY <2>1, <3>1
    <3>2. CASE Len(q) # 4
      BY <2>1, <3>2
    <3> QED BY <3>1, <3>2
  <2>3. acts' = [acts EXCEPT ![a.rank] = g]
    BY <1>4 DEF Issue, Remember, Types
  <2> HIDE DEF g, q
  <2> QED BY <2>2, <2>3, <1>4 DEF Types
<1>7. issued' \in Seq([cmd : Cmds, addr : Bank])
  BY DEF Issue, Types
<1>8. hold' \in [Bank -> [1 .. 2 -> Nat]]
  <2> DEFINE h == IF c = "ACTIVATE" THEN <<T.tRAS, T.tRAS2>>
                  ELSE IF c \in Closing THEN <<0, 0>>
                  ELSE [k \in 1 .. 2 |-> Larger(hold[a][k], Recovery(c))]
  <2>1. \A k \in 1 .. 2 : hold[a][k] \in Nat
    BY DEF Types
  <2>2. <<T.tRAS, T.tRAS2>> \in [1 .. 2 -> Nat] /\ <<0, 0>> \in [1 .. 2 -> Nat]
    BY <1>1, ParameterTypes
  <2>3. [k \in 1 .. 2 |-> Larger(hold[a][k], Recovery(c))] \in [1 .. 2 -> Nat]
    BY <1>1, <2>1, CommandTypes DEF Larger
  <2>4. h \in [1 .. 2 -> Nat]
    BY <2>2, <2>3
  <2>5. hold' = [hold EXCEPT ![a] = h]
    BY DEF Issue, Remember, Types
  <2> HIDE DEF h
  <2> QED BY <2>4, <2>5 DEF Types
<1>9. idle' \in [Bank -> Nat]
  <2>1. Larger(hold[a][Kind(c)], Recovery(c)) + <<T.tRP, T.tRP2>>[Kind(c)] \in Nat
    <3>1. hold[a][Kind(c)] \in Nat
      BY <1>1, CommandTypes DEF Types
    <3> QED BY <3>1, <1>1, CommandTypes DEF Larger
  <2> QED BY <2>1 DEF Issue, Remember, Types
<1>10. busy' \in [Bank -> Nat]
  BY <1>1, CommandTypes DEF Issue, Remember, Types, Larger
<1>11. bus' \subseteq Burst
  <2>1. RL \in Int /\ WL \in Int
    BY <1>1, ParameterTypes DEF RL, WL
  <2>2. [at |-> IF c \in Reads THEN RL ELSE WL, rank |-> a.rank, read |-> c \in Reads]
           \in Burst
    BY <2>1, <1>4 DEF Burst
  <2> QED BY <2>2 DEF Issue, Remember, Types
<1> QED BY <1>1, <1>2, <1>3, <1>5, <1>6, <1>7, <1>8, <1>9, <1>10, <1>11, SteadyConfig
        DEF Types

LEMMA TickTypes ==
    ASSUME Types, Tick
    PROVE  Types'
<1>1. config \in Configs /\ config' = config /\ state' = state /\ T.tFAW \in Nat
  BY ParameterTypes DEF Types, Tick
<1>2. \A n \in Nat : Less(n) \in Nat /\ Older(n) \in Nat
  BY <1>1 DEF Less, Older
<1>3. wait' \in [Bank -> [Cmds -> Nat]] /\ hold' \in [Bank -> [1 .. 2 -> Nat]]
  BY <1>2 DEF Types, Tick
<1>4. idle' \in [Bank -> Nat] /\ busy' \in [Bank -> Nat]
  BY <1>2 DEF Types, Tick
<1>5. fourAw' \in [RankIds -> Seq(Nat)]
  <2>1. ASSUME NEW r \in RankIds
        PROVE  [i \in DOMAIN fourAw[r] |-> Less(fourAw[r][i])] \in Seq(Nat)
    <3> DEFINE q == fourAw[r]
               f == [i \in DOMAIN q |-> Less(q[i])]
    <3>1. q \in Seq(Nat)
      BY DEF Types
    <3>2. \A i \in 1 .. Len(q) : f[i] \in Nat
      BY <3>1, <1>2
    <3>3. f = [i \in DOMAIN q |-> f[i]]
      OBVIOUS
    <3>4. f \in Seq(Nat)
      <4> HIDE DEF f, q
      <4> QED BY <3>1, <3>2, <3>3, SeqMap
    <3> QED BY <3>4
  <2> QED BY <2>1 DEF Tick, Types
<1>6. acts' \in [RankIds -> Seq(Nat)]
  <2>1. ASSUME NEW r \in RankIds
        PROVE  [i \in DOMAIN acts[r] |-> Older(acts[r][i])] \in Seq(Nat)
    <3> DEFINE q == acts[r]
               f == [i \in DOMAIN q |-> Older(q[i])]
    <3>1. q \in Seq(Nat)
      BY DEF Types
    <3>2. \A i \in 1 .. Len(q) : f[i] \in Nat
      BY <3>1, <1>1 DEF Older
    <3>3. f = [i \in DOMAIN q |-> f[i]]
      OBVIOUS
    <3>4. f \in Seq(Nat)
      <4> HIDE DEF f, q
      <4> QED BY <3>1, <3>2, <3>3, SeqMap
    <3> QED BY <3>4
  <2> QED BY <2>1 DEF Tick, Types
<1>7. issued' \in Seq([cmd : Cmds, addr : Bank])
  BY DEF Tick
<1>8. bus' \subseteq Burst
  <2>1. \A u \in Burst : [u EXCEPT !.at = @ - 1] \in Burst
    BY DEF Burst
  <2> QED BY <2>1 DEF Tick, Types
<1> QED BY <1>1, <1>3, <1>4, <1>5, <1>6, <1>7, <1>8, SteadyConfig DEF Types

-----------------------------------------------------------------------------
(* The four-activate window.                                               *)

LEMMA AppendShape ==
    ASSUME NEW q \in Seq(Nat), NEW x \in Nat
    PROVE  /\ Append(q, x) \in Seq(Nat) /\ Len(Append(q, x)) = Len(q) + 1
           /\ \A i \in 1 .. Len(q) : Append(q, x)[i] = q[i]
           /\ Append(q, x)[Len(q) + 1] = x
OBVIOUS

LEMMA TailShape ==
    ASSUME NEW q \in Seq(Nat), Len(q) >= 1
    PROVE  /\ Tail(q) \in Seq(Nat) /\ Len(Tail(q)) = Len(q) - 1
           /\ \A i \in 1 .. Len(q) - 1 : Tail(q)[i] = q[i + 1]
OBVIOUS

\* An activation is added, and the oldest one is dropped if it has left the window.
LEMMA WindowActivate ==
    ASSUME NEW f \in Seq(Nat), NEW s \in Seq(Nat), NEW w \in Nat, Window(f, s, w),
           ~(Len(f) >= 4 /\ f[1] > 0)
    PROVE  Window(Append(IF f # << >> /\ f[1] = 0 THEN Tail(f) ELSE f, w),
                  Append(IF Len(s) = 4 THEN Tail(s) ELSE s, 0), w)
<1> DEFINE n == Len(f)
           m == Len(s)
           g == IF f # << >> /\ f[1] = 0 THEN Tail(f) ELSE f
           t == IF Len(s) = 4 THEN Tail(s) ELSE s
           g2 == Append(g, w)
           t2 == Append(t, 0)
<1>1. /\ n \in Nat /\ m \in Nat /\ n <= m /\ m <= 4
      /\ \A i \in 1 .. m : s[i] \in Nat /\ s[i] <= w
      /\ \A i \in 1 .. m - n : s[i] = w
      /\ \A i \in 1 .. n : f[i] = w - s[m - n + i]
  BY DEF Window
<1> DEFINE d == IF f # << >> /\ f[1] = 0 THEN 1 ELSE 0
           e == IF m = 4 THEN 1 ELSE 0
<1>2. /\ d \in 0 .. 1 /\ d <= n /\ (d = 1 => f[1] = 0) /\ (d = 0 => n < 4)
      /\ e \in 0 .. 1 /\ e <= m /\ (e = 1 <=> m = 4)
  <2>1. f # << >> => n >= 1 /\ 1 \in 1 .. n /\ f[1] \in Nat
    OBVIOUS
  <2>2. f = << >> => n = 0
    OBVIOUS
  <2> QED BY <1>1, <2>1, <2>2
<1>3. g \in Seq(Nat) /\ Len(g) = n - d /\ \A i \in 1 .. n - d : g[i] = f[i + d]
  <2>1. CASE d = 1
    BY <2>1, <1>2, TailShape
  <2>2. CASE d = 0
    BY <2>2, <1>2
  <2> QED BY <2>1, <2>2, <1>2
<1>4. t \in Seq(Nat) /\ Len(t) = m - e /\ \A i \in 1 .. m - e : t[i] = s[i + e]
  <2>1. CASE e = 1
    BY <2>1, <1>2, TailShape
  <2>2. CASE e = 0
    BY <2>2, <1>2
  <2> QED BY <2>1, <2>2, <1>2
<1>5. /\ Len(g2) = n - d + 1 /\ g2[n - d + 1] = w
      /\ \A i \in 1 .. n - d : g2[i] = f[i + d]
  <2> HIDE DEF g, d, e, t
  <2> QED BY <1>3, AppendShape
<1>6. /\ Len(t2) = m - e + 1 /\ t2[m - e + 1] = 0
      /\ \A i \in 1 .. m - e : t2[i] = s[i + e]
  <2> HIDE DEF g, d, e, t
  <2> QED BY <1>4, AppendShape
<1> HIDE DEF g2, t2, d, e, n, m
<1>7. d = 1 => s[m - n + 1] = w
  <2>1. d = 1 => 1 \in 1 .. n /\ m - n + 1 \in 1 .. m
    BY <1>1, <1>2
  <2> QED BY <1>1, <1>2, <2>1
<1>8. Len(g2) <= Len(t2) /\ Len(t2) <= 4
  BY <1>1, <1>2, <1>5, <1>6
<1>9. ASSUME NEW i \in 1 .. Len(t2)
      PROVE  t2[i] <= w
  <2>1. CASE i = m - e + 1
    BY <2>1, <1>6
  <2>2. CASE i # m - e + 1
    <3>1. i \in 1 .. m - e /\ i + e \in 1 .. m
      BY <2>2, <1>1, <1>2, <1>6
    <3> QED BY <3>1, <1>1, <1>6
  <2> QED BY <2>1, <2>2
<1>10. ASSUME NEW i \in 1 .. Len(t2) - Len(g2)
       PROVE  t2[i] = w
  <2>1. i \in 1 .. m - e /\ i + e \in 1 .. m - n + d /\ i + e \in 1 .. m
    BY <1>1, <1>2, <1>5, <1>6
  <2>2. t2[i] = s[i + e]
    BY <2>1, <1>6
  <2>3. i + e \in 1 .. m - n \/ (d = 1 /\ i + e = m - n + 1)
    BY <2>1, <1>1, <1>2
  <2> QED BY <2>2, <2>3, <1>1, <1>7
<1>11. ASSUME NEW i \in 1 .. Len(g2)
       PROVE  g2[i] = w - t2[Len(t2) - Len(g2) + i]
  <2>1. CASE i = n - d + 1
    BY <2>1, <1>1, <1>2, <1>5, <1>6
  <2>2. CASE i # n - d + 1
    <3>1. i \in 1 .. n - d /\ i + d \in 1 .. n
      BY <2>2, <1>1, <1>2, <1>5
    <3>2. g2[i] = w - s[m - n + (i + d)]
      BY <3>1, <1>5, <1>1
    <3> DEFINE j == Len(t2) - Len(g2) + i
    <3>3. j \in 1 .. m - e /\ j + e = m - n + (i + d)
      BY <3>1, <1>1, <1>2, <1>5, <1>6
    <3>4. t2[j] = s[m - n + (i + d)]
      <4> HIDE DEF j
      <4> QED BY <3>3, <1>6
    <3> QED BY <3>2, <3>4
  <2> QED BY <2>1, <2>2
<1>12. Window(g2, t2, w)
  BY <1>8, <1>9, <1>10, <1>11 DEF Window
<1> QED BY <1>12 DEF g2, t2, g, t

\* Activations grow older until they have left the window.
LEMMA WindowTick ==
    ASSUME config \in Configs, NEW f \in Seq(Nat), NEW s \in Seq(Nat),
           Window(f, s, T.tFAW)
    PROVE  Window([i \in DOMAIN f |-> Less(f[i])], [i \in DOMAIN s |-> Older(s[i])], T.tFAW)
<1> DEFINE g == [i \in DOMAIN f |-> Less(f[i])]
           t == [i \in DOMAIN s |-> Older(s[i])]
           w == T.tFAW
<1>1. /\ Len(f) \in Nat /\ Len(s) \in Nat /\ w \in Nat
      /\ DOMAIN f = 1 .. Len(f) /\ DOMAIN s = 1 .. Len(s)
      /\ \A i \in 1 .. Len(f) : f[i] \in Nat
      /\ \A i \in 1 .. Len(s) : s[i] \in Nat
  <2>1. w \in Nat
    BY ParameterTypes
  <2> HIDE DEF w
  <2> QED BY <2>1
<1>2. /\ Len(f) <= Len(s) /\ Len(s) <= 4
      /\ \A i \in 1 .. Len(s) : s[i] <= w
      /\ \A i \in 1 .. Len(s) - Len(f) : s[i] = w
      /\ \A i \in 1 .. Len(f) : f[i] = w - s[Len(s) - Len(f) + i]
  BY DEF Window
<1>3. \A i \in 1 .. Len(f) : g[i] = IF f[i] > 0 THEN f[i] - 1 ELSE 0
  BY <1>1 DEF Less
<1>4. \A i \in 1 .. Len(s) : t[i] = IF s[i] < w THEN s[i] + 1 ELSE s[i]
  BY <1>1 DEF Older
<1>5. Len(g) = Len(f) /\ Len(t) = Len(s)
  <2>1. /\ \A i \in 1 .. Len(f) : g[i] \in Nat
        /\ \A i \in 1 .. Len(s) : t[i] \in Nat
    <3> HIDE DEF g, t, w
    <3> QED BY <1>1, <1>3, <1>4
  <2>2. g = [i \in DOMAIN f |-> g[i]] /\ t = [i \in DOMAIN s |-> t[i]]
    OBVIOUS
  <2> HIDE DEF g, t
  <2> QED BY <2>1, <2>2, SeqMap
<1> HIDE DEF g, t, w
<1>6. \A i \in 1 .. Len(s) : t[i] <= w
  BY <1>1, <1>2, <1>4
<1>7. \A i \in 1 .. Len(s) - Len(f) : t[i] = w
  BY <1>1, <1>2, <1>4
<1>8. ASSUME NEW i \in 1 .. Len(f)
      PROVE  g[i] = w - t[Len(s) - Len(f) + i]
  <2> DEFINE j == Len(s) - Len(f) + i
  <2>1. j \in 1 .. Len(s) /\ f[i] = w - s[j]
    BY <1>1, <1>2
  <2> HIDE DEF j
  <2>2. s[j] \in Nat /\ s[j] <= w
    BY <2>1, <1>1, <1>2
  <2>3. /\ g[i] = IF f[i] > 0 THEN f[i] - 1 ELSE 0
        /\ t[j] = IF s[j] < w THEN s[j] + 1 ELSE s[j]
    BY <2>1, <1>3, <1>4
  <2>4. g[i] = w - t[j]
    BY <2>1, <2>2, <2>3, <1>1
  <2> QED BY <2>4 DEF j
<1>9. Window(g, t, w)
  BY <1>2, <1>5, <1>6, <1>7, <1>8 DEF Window
<1> QED BY <1>9 DEF g, t, w

LEMMA WindowStep ==
    ASSUME Types, WindowKept, [Next]_vars
    PROVE  WindowKept'
<1>1. config \in Configs
  BY DEF Types
<1>2. ASSUME NEW c \in Cmds, NEW a \in Bank, Issue(c, a)
      PROVE  WindowKept'
  <2>1. config' = config /\ a.rank \in RankIds
    BY <1>1, <1>2, BankFields DEF Issue
  <2>2. ASSUME NEW r \in RankIds
        PROVE  Window(fourAw'[r], acts'[r], T.tFAW)
    <3>1. Window(fourAw[r], acts[r], T.tFAW)
      BY DEF WindowKept
    <3>2. CASE c # "ACTIVATE"
      <4>1. fourAw' = fourAw
        BY <1>2, <3>2, Zenon DEF Issue
      <4>2. acts'[r] = acts[r]
        BY <1>2, <2>1, <3>2 DEF Issue, Remember, Types
      <4> QED BY <3>1, <4>1, <4>2
    <3>3. CASE c = "ACTIVATE" /\ r # a.rank
      <4>1. fourAw'[r] = fourAw[r]
        BY <1>2, <2>1, <3>3 DEF Issue, UpdateActivationTimes, Types
      <4>2. acts'[r] = acts[r]
        BY <1>2, <2>1, <3>3 DEF Issue, Remember, Types
      <4> QED BY <3>1, <4>1, <4>2
    <3>4. CASE c = "ACTIVATE" /\ r = a.rank
      <4> DEFINE f == fourAw[r]
                 s == acts[r]
      <4>1. fourAw'[r] = Append(IF f # << >> /\ f[1] = 0 THEN Tail(f) ELSE f, T.tFAW)
        BY <1>2, <2>1, <3>4 DEF Issue, UpdateActivationTimes, Types
      <4>2. acts'[r] = Append(IF Len(s) = 4 THEN Tail(s) ELSE s, 0)
        BY <1>2, <2>1, <3>4 DEF Issue, Remember, Types
      <4>3. ~(Len(f) >= 4 /\ f[1] > 0)
        BY <1>2, <3>4 DEF Issue, Ready, IsFAWReady
      <4>4. f \in Seq(Nat) /\ s \in Seq(Nat) /\ T.tFAW \in Nat /\ Window(f, s, T.tFAW)
        BY <1>1, <3>1, ParameterTypes DEF Types
      <4> HIDE DEF f, s
      <4> QED BY <4>1, <4>2, <4>3, <4>4, WindowActivate
    <3> QED BY <3>2, <3>3, <3>4
  <2> QED BY <2>1, <2>2, SteadyConfig DEF WindowKept
<1>3. ASSUME Tick
      PROVE  WindowKept'
  <2>1. config' = config
    BY <1>3 DEF Tick
  <2>2. ASSUME NEW r \in RankIds
        PROVE  Window(fourAw'[r], acts'[r], T.tFAW)
    <3> DEFINE f == fourAw[r]
               s == acts[r]
    <3>1. /\ fourAw'[r] = [i \in DOMAIN f |-> Less(f[i])]
          /\ acts'[r] = [i \in DOMAIN s |-> Older(s[i])]
      BY <1>3 DEF Tick, Types
    <3>2. f \in Seq(Nat) /\ s \in Seq(Nat) /\ Window(f, s, T.tFAW)
      BY DEF WindowKept, Types
    <3> HIDE DEF f, s
    <3> QED BY <1>1, <3>1, <3>2, WindowTick
  <2> QED BY <2>1, <2>2, SteadyConfig DEF WindowKept
<1>4. CASE UNCHANGED vars
  BY <1>4 DEF vars, history, WindowKept, RankIds, Ranks, T
<1> QED BY <1>2, <1>3, <1>4 DEF Next

-----------------------------------------------------------------------------
(* One command.                                                            *)

\* The banks a command goes to were ready for it, and no others change state.
LEMMA StateStep ==
    ASSUME Types, NEW c \in Cmds, NEW a \in Bank, Issue(c, a), NEW b \in Bank
    PROVE  /\ b \in Targets(c, a) =>
                 state[b] = Before(c) /\ wait[b][c] = 0 /\ state'[b] = After(c)
           /\ b \notin Targets(c, a) => state'[b] = state[b]
<1>1. state' = [x \in Bank |-> IF x \in Targets(c, a) THEN After(c) ELSE state[x]]
  BY DEF Issue
<1>2. b \in Targets(c, a) => state[b] = Before(c) /\ wait[b][c] = 0
  BY DEF Issue, Ready
<1> QED BY <1>1, <1>2

\* A command that is not for a rank or a bank set goes to its bank.
LEMMA OneTarget ==
    ASSUME NEW c \in Commands, c \notin RankCmds \cup SbCmds, NEW a \in Bank
    PROVE  Targets(c, a) = {a}
BY DEF Targets

\* Only an ACTIVATE opens a bank.
LEMMA Opening ==
    ASSUME Types, NEW c \in Cmds, NEW a \in Bank, Issue(c, a), NEW b \in Bank,
           state[b] # "OPEN", state'[b] = "OPEN"
    PROVE  c = "ACTIVATE" /\ b = a /\ wait[b]["ACTIVATE"] = 0
<1>1. b \in Targets(c, a) /\ state[b] = Before(c) /\ wait[b][c] = 0 /\ After(c) = "OPEN"
  BY StateStep
<1>2. c \in {"ACTIVATE", "READ", "WRITE"}
  BY <1>1 DEF After
<1>3. c \notin {"READ", "WRITE"}
  BY <1>1 DEF Before, Columns, Reads, Writes
<1>4. c = "ACTIVATE"
  BY <1>2, <1>3
<1>5. c \notin RankCmds \cup SbCmds /\ c \in Commands
  BY <1>4 DEF RankCmds, SbCmds, Commands
<1>6. b = a
  BY <1>1, <1>5, OneTarget
<1> QED BY <1>1, <1>4, <1>6

\* A command sets the times of the banks it goes to as the tables say.
LEMMA ActivateDelays ==
    ASSUME config \in Configs, NEW a \in Bank
    PROVE  /\ \A n \in Columns : Delays("ACTIVATE", a, a, n) = RCD(n)
           /\ Delays("ACTIVATE", a, a, "ACTIVATE") = T.tRC
           /\ Delays("ACTIVATE", a, a, "PRECHARGE") = T.tRAS
           /\ Delays("ACTIVATE", a, a, "PRECHARGE2") = T.tRAS2
<1>1. \A n : Delays("ACTIVATE", a, a, n) = SameBank("ACTIVATE", n)
  BY DEF Delays, RankCmds, SbCmds
<1>2. \A n \in Columns : SameBank("ACTIVATE", n) = RCD(n)
  BY DEF SameBank, RCD, Columns, Reads, Writes, Precharges, Closing, FromClosed
<1>3. /\ SameBank("ACTIVATE", "ACTIVATE") = T.tRC
      /\ SameBank("ACTIVATE", "PRECHARGE") = T.tRAS
      /\ SameBank("ACTIVATE", "PRECHARGE2") = T.tRAS2
  BY DEF SameBank, Columns, Reads, Writes, Precharges, Closing, FromClosed
<1> QED BY <1>1, <1>2, <1>3

LEMMA ClosingDelays ==
    ASSUME config \in Configs, NEW c \in Closing, NEW a \in Bank
    PROVE  /\ c \in Columns => Delays(c, a, a, "ACTIVATE") = Recover(c) + RP(c)
           /\ c \in Precharges => Delays(c, a, a, "ACTIVATE") = RP(c)
<1>1. Delays(c, a, a, "ACTIVATE") = SameBank(c, "ACTIVATE")
  BY DEF Delays, RankCmds, SbCmds, Closing, Columns, Reads, Writes, Precharges
<1>2. CASE c \in Reads
  BY <1>1, <1>2, ParameterTypes DEF SameBank, Recover, Columns, Reads, Writes, Precharges,
     Closing, FromClosed
<1>3. CASE c \in Writes
  BY <1>1, <1>3, ParameterTypes DEF SameBank, Recover, Columns, Reads, Writes, Precharges,
     Closing, FromClosed
<1>4. CASE c \in Precharges
  BY <1>1, <1>4 DEF SameBank, Columns, Reads, Writes, Precharges, Closing, FromClosed
<1> QED BY <1>2, <1>3, <1>4 DEF Closing, Columns

\* A command is the step that adds it to the commands of the cycle.
LEMMA IssuesIsIssue ==
    ASSUME Types, Next, NEW c \in Cmds, NEW a \in Bank, Issues(c, a)
    PROVE  Issue(c, a)
<1>1. ~Tick
  BY DEF Tick, Issues
<1>2. PICK d \in Cmds, e \in Bank : Issue(d, e)
  BY <1>1 DEF Next
<1>3. issued' = Append(issued, [cmd |-> d, addr |-> e])
  BY <1>2 DEF Issue
<1>4. Last(issued') = [cmd |-> d, addr |-> e]
  BY <1>3 DEF Last, Types
<1>5. d = c /\ e = a
  BY <1>4 DEF Issues
<1> QED BY <1>2, <1>5

-----------------------------------------------------------------------------
(* The data bus.                                                           *)

\* A bank that closes its row with a burst opens the next one only when the bus
\* will be clear for the reads and writes of that row.
LEMMA ReopenDelays ==
    ASSUME config \in Configs, NEW c \in Columns \cap Closing, NEW a \in Bank,
           NEW n \in Columns, NEW u, u.at = Latency(c), u.rank = a.rank,
           u.read <=> c \in Reads
    PROVE  Delays(c, a, a, "ACTIVATE") + RCD(n) + Latency(n)
              >= Clear(u, a.rank, n \in Reads)
<1>1. Delays(c, a, a, "ACTIVATE") = Recover(c) + RP(c)
  BY ClosingDelays
<1>2. CASE c \in Reads
  <2>1. Recover(c) = T.AL + T.burst + T.tRTP
    BY <1>2 DEF Recover
  <2>2. T.CL + T.tRTRS <= T.tRTP + RP(c) + T.tRCDWR + T.AL + T.CWL /\ RP(c) \in Nat
    BY ParameterOrder, ParameterTypes DEF RP
  <2> QED BY <1>1, <1>2, <2>1, <2>2, ParameterTypes
          DEF RCD, Column, Latency, Clear, RL, WL
<1>3. CASE c \notin Reads
  <2>1. Recover(c) = WL + T.burst + T.tWR
    BY <1>3 DEF Recover, WriteToPrecharge
  <2>2. RP(c) \in Nat
    BY ParameterTypes DEF RP
  <2> QED BY <1>1, <1>3, <2>1, <2>2, ParameterTypes
          DEF RCD, Column, Latency, Clear, RL, WL
<1> QED BY <1>2, <1>3

\* The burst of a read or write starts when the bus is clear of every other one.
LEMMA NewBurst ==
    ASSUME Types, BusKept, NEW c \in Cmds \cap Columns, NEW a \in Bank, Issue(c, a),
           NEW u \in bus
    PROVE  Latency(c) >= Clear(u, a.rank, c \in Reads)
<1>1. a \in Targets(c, a)
  BY DEF Targets, RankCmds, SbCmds, Columns, Reads, Writes
<1>2. state[a] = "OPEN" /\ wait[a][c] = 0
  <2>1. Before(c) = "OPEN"
    BY DEF Before, Columns, Reads, Writes
  <2> QED BY <1>1, <2>1, StateStep
<1>3. Latency(c) \in Nat
  BY CommandTypes DEF Types, Commands
<1> QED BY <1>2, <1>3 DEF BusKept

LEMMA BusIssue ==
    ASSUME Types, BusKept, DataBusFree, NEW c \in Cmds, NEW a \in Bank, Issue(c, a)
    PROVE  BusKept' /\ DataBusFree'
<1>1. config \in Configs /\ config' = config /\ c \in Commands
  BY ConfigTypes DEF Types, Issue
<1>2. /\ wait' \in [Bank -> [Cmds -> Nat]]
      /\ \A b \in Bank, n \in Cmds :
            wait'[b][n] >= wait[b][n] /\ wait'[b][n] >= Delays(c, a, b, n)
  BY WaitStep DEF Issue
<1>3. "ACTIVATE" \in Cmds /\ Cmds \subseteq Commands
  BY <1>1, ConfigTypes
<1>4. \A b \in Bank, n \in Cmds : wait[b][n] \in Nat /\ wait'[b][n] \in Nat
  BY <1>2 DEF Types
<1> DEFINE v == [at |-> IF c \in Reads THEN RL ELSE WL, rank |-> a.rank,
                 read |-> c \in Reads]
<1>5. /\ v.at = Latency(c) /\ v.rank = a.rank /\ (v.read <=> c \in Reads)
      /\ bus' = bus \cup (IF c \in Columns THEN {v} ELSE {})
  <2>1. v.at = Latency(c) /\ v.rank = a.rank /\ (v.read <=> c \in Reads)
    BY DEF Latency
  <2>2. bus' = bus \cup (IF c \in Columns THEN {v} ELSE {})
    BY DEF Issue, Remember
  <2> QED BY <2>1, <2>2
<1> HIDE DEF v
<1>6. \A n \in Columns : Latency(n) \in Nat /\ RCD(n) \in Nat
  BY <1>1, CommandTypes DEF Commands
<1>7. ASSUME NEW u \in bus', NEW r \in Int, NEW n \in Columns
      PROVE  Clear(u, r, n \in Reads) \in Int
  <2>1. u.at \in Int
    <3>1. u \in Burst
      BY <1>1, <1>5, IssueTypes DEF Types
    <3> QED BY <3>1 DEF Burst
  <2> QED BY <2>1, <1>1, ParameterTypes DEF Clear
<1>8. ASSUME NEW u \in bus', NEW b \in Bank, NEW n \in Columns \cap Cmds
      PROVE  \/ wait'[b][n] + Latency(n) >= Clear(u, b.rank, n \in Reads)
             \/ /\ state'[b] # "OPEN"
                /\ wait'[b]["ACTIVATE"] + RCD(n) + Latency(n)
                      >= Clear(u, b.rank, n \in Reads)
  <2>1. b.rank \in Int
    BY <1>1, BankFields
  <2>2. Clear(u, b.rank, n \in Reads) \in Int /\ Latency(n) \in Nat /\ RCD(n) \in Nat
    BY <1>6, <1>7, <2>1
  <2>3. CASE u \in bus
    <3>1. CASE wait[b][n] + Latency(n) >= Clear(u, b.rank, n \in Reads)
      BY <3>1, <2>2, <1>2, <1>4
    <3>2. CASE /\ state[b] # "OPEN"
               /\ wait[b]["ACTIVATE"] + RCD(n) + Latency(n)
                     >= Clear(u, b.rank, n \in Reads)
      <4>1. CASE state'[b] # "OPEN"
        BY <4>1, <3>2, <2>2, <1>2, <1>3, <1>4
      <4>2. CASE state'[b] = "OPEN"
        <5>1. c = "ACTIVATE" /\ b = a /\ wait[b]["ACTIVATE"] = 0
          BY <3>2, <4>2, Opening
        <5>2. Delays(c, a, b, n) = RCD(n)
          BY <5>1, <1>1, ActivateDelays
        <5>3. wait'[b][n] >= RCD(n)
          BY <5>2, <1>2
        <5>4. RCD(n) + Latency(n) >= Clear(u, b.rank, n \in Reads)
          BY <5>1, <3>2, <2>2
        <5>5. wait'[b][n] \in Nat
          BY <1>4
        <5> QED BY <5>3, <5>4, <5>5, <2>2
      <4> QED BY <4>1, <4>2
    <3> QED BY <2>3, <3>1, <3>2 DEF BusKept
  <2>4. CASE u \notin bus
    <3>1. c \in Columns /\ u = v
      BY <2>4, <1>5
    <3>2. CASE a # b \/ c \notin Closing
      <4>1. Delays(c, a, b, n) + Latency(n) >= Clear(u, b.rank, n \in Reads)
        BY <3>1, <3>2, <1>1, <1>5, ColumnDelays
      <4>2. Delays(c, a, b, n) \in Int /\ wait'[b][n] >= Delays(c, a, b, n)
        BY <1>1, <1>2, <1>3, DelaysInt
      <4> QED BY <4>1, <4>2, <2>2, <1>4
    <3>3. CASE a = b /\ c \in Closing
      <4>1. Delays(c, a, b, "ACTIVATE") + RCD(n) + Latency(n)
               >= Clear(u, b.rank, n \in Reads)
        BY <3>1, <3>3, <1>1, <1>5, ReopenDelays
      <4>2. /\ Delays(c, a, b, "ACTIVATE") \in Int
            /\ wait'[b]["ACTIVATE"] >= Delays(c, a, b, "ACTIVATE")
        BY <1>1, <1>2, <1>3, DelaysInt
      <4>3. a \in Targets(c, a)
        BY <3>1 DEF Targets, RankCmds, SbCmds, Columns, Reads, Writes
      <4>4. state'[b] = "CLOSED"
        BY <3>1, <3>3, <4>3, StateStep DEF After, Closing, Precharges, Columns, Reads, Writes
      <4> QED BY <4>1, <4>2, <4>4, <2>2, <1>3, <1>4
    <3> QED BY <3>2, <3>3
  <2> QED BY <2>3, <2>4
<1>9. BusKept'
  BY <1>1, <1>8, SteadyConfig DEF BusKept, Latency, RCD, Column, Clear
<1>10. ASSUME NEW u \in bus', NEW w \in bus', u # w, u.at <= w.at
       PROVE  /\ w.at >= u.at + T.burst
              /\ (u.read /\ ~w.read) \/ (u.rank # w.rank /\ (u.read \/ w.read))
                    => w.at >= u.at + T.burst + T.tRTRS
  <2>1. CASE u \in bus /\ w \in bus
    BY <1>10, <2>1 DEF DataBusFree
  <2>2. CASE c \in Columns /\ u \in bus /\ w = v
    <3>1. w.at >= Clear(u, a.rank, c \in Reads)
      BY <2>2, <1>5, NewBurst
    <3>2. u.at \in Int /\ w.at \in Int
      BY <2>2, <1>5, <1>6 DEF Types, Burst
    <3> QED BY <2>2, <3>1, <3>2, <1>1, <1>5, ParameterTypes DEF Clear
  <2>3. CASE c \in Columns /\ u = v /\ w \in bus
    <3>1. u.at >= Clear(w, a.rank, c \in Reads)
      BY <2>3, <1>5, NewBurst
    <3>2. u.at \in Int /\ w.at \in Int
      BY <2>3, <1>5, <1>6 DEF Types, Burst
    <3>3. u.at > w.at
      BY <3>1, <3>2, <1>1, ParameterTypes DEF Clear
    <3> QED BY <3>2, <3>3, <1>10
  <2> QED BY <1>5, <1>10, <2>1, <2>2, <2>3
<1>11. DataBusFree'
  BY <1>1, <1>10, SteadyConfig DEF DataBusFree
<1> QED BY <1>9, <1>11

LEMMA BusTick ==
    ASSUME Types, BusKept, DataBusFree, Tick
    PROVE  BusKept' /\ DataBusFree'
<1>1. config \in Configs /\ config' = config /\ state' = state
  BY DEF Types, Tick
<1>2. /\ "ACTIVATE" \in Cmds /\ Cmds \subseteq Commands
      /\ T.burst \in Nat /\ T.tRTRS \in Nat
  BY <1>1, ConfigTypes, ParameterTypes
<1>3. \A b \in Bank, n \in Cmds : wait[b][n] \in Nat /\ wait'[b][n] \in Nat
                                  /\ wait'[b][n] >= wait[b][n] - 1
  BY DEF Tick, Types, Less
<1>4. ASSUME NEW v \in bus'
      PROVE  \E u \in bus : /\ u \in Burst /\ v = [u EXCEPT !.at = @ - 1]
                            /\ v.at \in Int /\ u.at \in Int /\ v.at = u.at - 1
                            /\ v.rank = u.rank /\ (v.read <=> u.read)
  <2>1. PICK u \in bus : v = [u EXCEPT !.at = @ - 1]
    BY DEF Tick
  <2>2. u \in Burst
    BY DEF Types
  <2> QED BY <2>1, <2>2 DEF Burst
<1>5. ASSUME NEW v \in bus', NEW b \in Bank, NEW n \in Columns \cap Cmds
      PROVE  \/ wait'[b][n] + Latency(n) >= Clear(v, b.rank, n \in Reads)
             \/ /\ state'[b] # "OPEN"
                /\ wait'[b]["ACTIVATE"] + RCD(n) + Latency(n)
                      >= Clear(v, b.rank, n \in Reads)
  <2>1. PICK u \in bus : /\ u.at \in Int /\ v.at = u.at - 1
                         /\ v.rank = u.rank /\ (v.read <=> u.read)
    BY <1>4
  <2>2. /\ Clear(u, b.rank, n \in Reads) \in Int
        /\ Clear(v, b.rank, n \in Reads) = Clear(u, b.rank, n \in Reads) - 1
    BY <1>2, <2>1 DEF Clear
  <2>3. Latency(n) \in Nat /\ RCD(n) \in Nat
    BY <1>1, <1>2, CommandTypes
  <2>4. \/ wait[b][n] + Latency(n) >= Clear(u, b.rank, n \in Reads)
        \/ /\ state[b] # "OPEN"
           /\ wait[b]["ACTIVATE"] + RCD(n) + Latency(n) >= Clear(u, b.rank, n \in Reads)
    BY DEF BusKept
  <2> QED BY <1>1, <1>2, <1>3, <2>2, <2>3, <2>4
<1>6. BusKept'
  BY <1>1, <1>5, SteadyConfig DEF BusKept, Latency, RCD, Column, Clear
<1>7. ASSUME NEW v \in bus', NEW w \in bus', v # w, v.at <= w.at
      PROVE  /\ w.at >= v.at + T.burst
             /\ (v.read /\ ~w.read) \/ (v.rank # w.rank /\ (v.read \/ w.read))
                    => w.at >= v.at + T.burst + T.tRTRS
  <2>1. PICK u \in bus : /\ v = [u EXCEPT !.at = @ - 1]
                         /\ v.at \in Int /\ u.at \in Int /\ v.at = u.at - 1
                         /\ v.rank = u.rank /\ (v.read <=> u.read)
    BY <1>4
  <2>2. PICK x \in bus : /\ w = [x EXCEPT !.at = @ - 1]
                         /\ w.at \in Int /\ x.at \in Int /\ w.at = x.at - 1
                         /\ w.rank = x.rank /\ (w.read <=> x.read)
    BY <1>4
  <2>3. u # x
    BY <1>7, <2>1, <2>2
  <2>4. u.at <= x.at
    BY <1>7, <2>1, <2>2
  <2>5. /\ x.at >= u.at + T.burst
        /\ (u.read /\ ~x.read) \/ (u.rank # x.rank /\ (u.read \/ x.read))
              => x.at >= u.at + T.burst + T.tRTRS
    BY <2>3, <2>4 DEF DataBusFree
  <2> QED BY <1>2, <2>1, <2>2, <2>5
<1>8. DataBusFree'
  BY <1>1, <1>7, SteadyConfig DEF DataBusFree
<1> QED BY <1>6, <1>8

-----------------------------------------------------------------------------
(* Two commands in a cycle.                                                *)

LEMMA ColumnsPositive ==
    ASSUME config \in Configs, NEW c \in Columns, NEW a \in Bank, NEW b \in Bank,
           NEW n \in Columns, a.rank = b.rank, a # b \/ c \notin Closing
    PROVE  Delays(c, a, b, n) > 0
<1>1. Delays(c, a, b, n) \in Int
  BY DelaysInt DEF Commands
<1>2. CASE c \in Reads \/ n \notin Reads
  <2> DEFINE u == [at |-> Latency(c), rank |-> a.rank, read |-> c \in Reads]
  <2>1. u.at = Latency(c) /\ u.rank = a.rank /\ (u.read <=> c \in Reads)
    OBVIOUS
  <2> HIDE DEF u
  <2>2. Delays(c, a, b, n) + Latency(n) >= Clear(u, b.rank, n \in Reads)
    BY <2>1, ColumnDelays
  <2> QED BY <1>1, <1>2, <2>1, <2>2, ParameterTypes, ParameterOrder
          DEF Clear, Latency, RL, WL
<1>3. CASE c \notin Reads /\ n \in Reads
  <2>1. WriteToRead_S > 0 /\ WriteToRead_L > 0
    <3>1. WriteDelay \in Nat /\ WriteDelay > 0
      BY ParameterTypes DEF WriteDelay, WL
    <3> QED BY <3>1, ParameterTypes DEF WriteToRead_S, WriteToRead_L
  <2>2. c \in Writes /\ c \notin RankCmds \cup SbCmds
    BY <1>3 DEF Columns, Writes, Reads, RankCmds, SbCmds
  <2>3. CASE a = b
    <3>1. c = "WRITE"
      BY <2>3, <2>2 DEF Closing, Columns, Writes
    <3>2. SameBank(c, n) = WriteToRead_L
      BY <3>1, <1>3 DEF SameBank, Column, Columns, Reads, Writes, Precharges, Closing,
         FromClosed
    <3> QED BY <2>1, <2>2, <2>3, <3>2 DEF Delays
  <2>4. CASE a # b
    <3>1. /\ OtherBanks(c, n, CCD_S, WriteToRead_S, T.tRRD_S) = WriteToRead_S
          /\ OtherBanks(c, n, CCD_L, WriteToRead_L, RRD_L) = WriteToRead_L
      BY <2>2, <1>3 DEF OtherBanks, Column, Columns, Reads, Writes, Precharges
    <3>2. Delays(c, a, b, n) \in {WriteToRead_S, WriteToRead_L}
      BY <2>2, <2>4, <3>1 DEF Delays
    <3> QED BY <2>1, <3>2
  <2> QED BY <2>3, <2>4
<1> QED BY <1>2, <1>3

LEMMA ColumnsStep ==
    ASSUME Types, ColumnsBlocked, [Next]_vars
    PROVE  ColumnsBlocked'
<1>1. config \in Configs
  BY DEF Types
<1>2. ASSUME NEW c \in Cmds, NEW a \in Bank, Issue(c, a)
      PROVE  ColumnsBlocked'
  <2>1. config' = config
    BY <1>2 DEF Issue
  <2>2. SUFFICES ASSUME DualCmd,
                        NEW i \in DOMAIN issued', issued'[i].cmd \in Columns,
                        NEW b \in Bank, NEW n \in Columns \cap Cmds
                 PROVE  wait'[b][n] > 0 \/ (state'[b] # "OPEN" /\ wait'[b]["ACTIVATE"] > 0)
    BY <2>1, SteadyConfig DEF ColumnsBlocked
  <2>3. /\ wait' \in [Bank -> [Cmds -> Nat]]
        /\ \A x \in Bank, y \in Cmds :
              wait'[x][y] >= wait[x][y] /\ wait'[x][y] >= Delays(c, a, x, y)
    BY <1>2, WaitStep DEF Issue
  <2>4. "ACTIVATE" \in Cmds /\ Cmds \subseteq Commands /\ c \in Commands
    BY <1>1, ConfigTypes
  <2>5. \A x \in Bank, y \in Cmds :
           /\ wait[x][y] \in Nat /\ wait'[x][y] \in Nat /\ Delays(c, a, x, y) \in Int
    BY <1>1, <2>3, <2>4, DelaysInt DEF Types
  <2>6. CASE c \in Columns
    <3>1. a.rank = b.rank
      BY <1>1, <2>2, ParameterOrder DEF Bank
    <3>2. CASE a # b \/ c \notin Closing
      <4>1. Delays(c, a, b, n) > 0
        BY <1>1, <2>6, <3>1, <3>2, ColumnsPositive
      <4> QED BY <4>1, <2>3, <2>5
    <3>3. CASE a = b /\ c \in Closing
      <4>1. Delays(c, a, b, "ACTIVATE") = Recover(c) + RP(c)
        BY <1>1, <2>6, <3>3, ClosingDelays
      <4>2. Recover(c) + RP(c) > 0
        BY <1>1, ParameterTypes DEF Recover, RP, WriteToPrecharge, WL
      <4>3. a \in Targets(c, a)
        BY <2>6 DEF Targets, RankCmds, SbCmds, Columns, Reads, Writes
      <4>4. state'[b] = "CLOSED"
        <5>1. After(c) = "CLOSED"
          BY <3>3, <2>6 DEF After, Closing, Precharges, Columns, Reads, Writes
        <5> QED BY <1>2, <3>3, <4>3, <5>1, StateStep
      <4>5. wait'[b]["ACTIVATE"] > 0
        BY <4>1, <4>2, <2>3, <2>4, <2>5
      <4> QED BY <4>4, <4>5
    <3> QED BY <3>2, <3>3
  <2>7. CASE c \notin Columns
    <3>1. issued' = Append(issued, [cmd |-> c, addr |-> a]) /\ issued \in Seq([cmd : Cmds, addr : Bank])
      BY <1>2 DEF Issue, Types
    <3>2. i \in 1 .. Len(issued) + 1
      BY <3>1, <2>2
    <3>3. i # Len(issued) + 1
      BY <3>1, <2>2, <2>7
    <3>4. i \in DOMAIN issued /\ issued'[i] = issued[i]
      BY <3>1, <3>2, <3>3
    <3>5. wait[b][n] > 0 \/ (state[b] # "OPEN" /\ wait[b]["ACTIVATE"] > 0)
      BY <2>2, <3>4 DEF ColumnsBlocked
    <3>6. CASE wait[b][n] > 0
      BY <3>6, <2>3, <2>5
    <3>7. CASE state[b] # "OPEN" /\ wait[b]["ACTIVATE"] > 0
      <4>1. state'[b] # "OPEN"
        <5>1. wait[b]["ACTIVATE"] # 0
          BY <3>7, <2>4, <2>5
        <5> QED BY <1>2, <3>7, <5>1, Opening
      <4> QED BY <3>7, <4>1, <2>3, <2>4, <2>5
    <3> QED BY <3>5, <3>6, <3>7
  <2> QED BY <2>6, <2>7
<1>3. ASSUME Tick
      PROVE  ColumnsBlocked'
  <2>1. DOMAIN issued' = {}
    BY <1>3 DEF Tick
  <2> QED BY <2>1 DEF ColumnsBlocked
<1>4. CASE UNCHANGED vars
  BY <1>4 DEF vars, history, ColumnsBlocked, DualCmd, Bank, Cmds, Ranks, BankGroups,
     BanksPerGroup
<1> QED BY <1>2, <1>3, <1>4 DEF Next

-----------------------------------------------------------------------------
(* Banks.                                                                  *)

LEMMA HoldStep ==
    ASSUME Types, NEW c \in Cmds, NEW a \in Bank, Issue(c, a)
    PROVE  /\ \A b \in Bank : b # a => hold'[b] = hold[b] /\ idle'[b] = idle[b]
           /\ c = "ACTIVATE" => hold'[a][1] = T.tRAS /\ hold'[a][2] = T.tRAS2
           /\ c \in Closing =>
                 /\ hold'[a][1] = 0 /\ hold'[a][2] = 0
                 /\ idle'[a] = Larger(hold[a][Kind(c)], Recovery(c)) + RP(c)
           /\ c \notin Closing => idle'[a] = idle[a]
           /\ c \notin Closing \cup {"ACTIVATE"} =>
                 \A k \in 1 .. 2 : hold'[a][k] = Larger(hold[a][k], Recovery(c))
<1>1. <<T.tRP, T.tRP2>>[Kind(c)] = RP(c)
  BY CommandTypes, ConfigTypes DEF Types
<1>2. c = "ACTIVATE" => c \notin Closing
  BY DEF Closing, Columns, Reads, Writes, Precharges
<1>3. \A b \in Bank : b # a => hold'[b] = hold[b] /\ idle'[b] = idle[b]
  BY DEF Issue, Remember, Types
<1>4. /\ c \in Closing =>
            idle'[a] = Larger(hold[a][Kind(c)], Recovery(c)) + <<T.tRP, T.tRP2>>[Kind(c)]
      /\ c \notin Closing => idle'[a] = idle[a]
  BY DEF Issue, Remember, Types
<1>5. hold'[a] = IF c = "ACTIVATE" THEN <<T.tRAS, T.tRAS2>>
                 ELSE IF c \in Closing THEN <<0, 0>>
                 ELSE [k \in 1 .. 2 |-> Larger(hold[a][k], Recovery(c))]
  BY DEF Issue, Remember, Types
<1> QED BY <1>1, <1>2, <1>3, <1>4, <1>5

\* A PRECHARGE waits for the last read or write of the row.
LEMMA ColumnToPrecharge ==
    ASSUME config \in Configs, NEW c \in {"READ", "WRITE"}, NEW a \in Bank,
           NEW p \in Precharges
    PROVE  Delays(c, a, a, p) = Recovery(c)
<1>1. Delays(c, a, a, p) = SameBank(c, p)
  BY DEF Delays, RankCmds, SbCmds
<1>2. SameBank(c, p) = Recovery(c)
  BY DEF SameBank, Recovery, Columns, Reads, Writes, Precharges, Closing, FromClosed,
     ReadToPrecharge, WriteToPrecharge
<1> QED BY <1>1, <1>2

\* An auto-precharge waits for the last read or write of the row as well, with what
\* it waits for before it and with what the ACTIVATE waits for after it.
LEMMA ColumnToAutoPrecharge ==
    ASSUME config \in Configs, TablesSuffice, NEW c \in {"READ", "WRITE"} \cap Cmds,
           NEW a \in Bank, NEW x \in Columns \cap Closing \cap Cmds
    PROVE  Recovery(c) <= Delays(c, a, a, x) + Recover(x)
<1>1. Delays(c, a, a, x) = SameBank(c, x)
  BY DEF Delays, RankCmds, SbCmds
<1>2. CASE c = "READ"
  <2>1. SameBank(c, x) = Column(x, CCD_L, ReadToWrite) /\ Recovery(c) = T.AL + T.tRTP
    BY <1>2 DEF SameBank, Recovery, Columns, Reads, Writes, Precharges, Closing, FromClosed
  <2>2. CASE x \in Reads
    <3>1. CCD_L \in Nat
      BY ParameterTypes DEF CCD_L, Larger
    <3> QED BY <1>1, <2>1, <2>2, <3>1, ParameterTypes DEF Column, Recover
  <2>3. CASE x \notin Reads
    <3>1. T.tRTP <= T.CL + 2 * T.burst + T.tRTRS + T.tWR
      BY <1>2, <2>3 DEF TablesSuffice, Columns, T, Cmds
    <3> QED BY <1>1, <2>1, <2>3, <3>1, ParameterTypes
            DEF Column, Recover, ReadToWrite, WriteToPrecharge, RL, WL
  <2> QED BY <2>2, <2>3
<1>3. CASE c = "WRITE"
  <2>1. SameBank(c, x) = Column(x, WriteToRead_L, CCD_L) /\ Recovery(c) = WL + T.burst + T.tWR
    BY <1>3 DEF SameBank, Recovery, Columns, Reads, Writes, Precharges, Closing, FromClosed
  <2>2. CASE x \in Reads
    <3> DEFINE wtr == IF BankGroups = 1 THEN T.tWTR_S ELSE T.tWTR_L
    <3>1. T.tWR <= wtr + T.AL + T.burst + T.tRTP
      BY <1>3, <2>2 DEF TablesSuffice, T, Cmds, BankGroups
    <3>2. WriteToRead_L = WriteDelay + wtr
      BY DEF WriteToRead_L, OneGroup
    <3>3. wtr \in Nat
      BY ParameterTypes
    <3> HIDE DEF wtr
    <3> QED BY <1>1, <2>1, <2>2, <3>1, <3>2, <3>3, ParameterTypes
            DEF Column, Recover, WriteDelay, WL
  <2>3. CASE x \notin Reads
    <3>1. CCD_L \in Nat
      BY ParameterTypes DEF CCD_L, Larger
    <3> QED BY <1>1, <2>1, <2>3, <3>1, ParameterTypes DEF Column, Recover, WriteToPrecharge, WL
  <2> QED BY <2>2, <2>3
<1> QED BY <1>2, <1>3

\* An auto-precharge waits for tRAS, in the same way.
LEMMA ActivateToAutoPrecharge ==
    ASSUME config \in Configs, TablesSuffice, NEW x \in Columns \cap Closing \cap Cmds,
           NEW h, h = IF Kind(x) = 1 THEN T.tRAS ELSE T.tRAS2
    PROVE  h + RP(x) <= T.tRC \/ h <= RCD(x) + Recover(x)
<1>1. CASE x \in {"READ_PRECHARGE", "WRITE_PRECHARGE"}
  <2>1. h = T.tRAS /\ RP(x) = T.tRP
    BY <1>1 DEF Kind, RP
  <2> QED BY <2>1, ParameterOrder, ParameterTypes
<1>2. CASE x = "READ_PRECHARGE2"
  <2>1. h = T.tRAS2 /\ RP(x) = T.tRP2 /\ RCD(x) = T.tRCDRD
        /\ Recover(x) = T.AL + T.burst + T.tRTP
    BY <1>2 DEF Kind, RP, RCD, Column, Recover, Reads
  <2>2. \/ T.tRAS2 + T.tRP2 <= T.tRC
        \/ T.tRAS2 <= T.tRCDRD + T.AL + T.burst + T.tRTP
    BY <1>2 DEF TablesSuffice, T, Cmds
  <2> QED BY <2>1, <2>2, ParameterTypes
<1>3. CASE x = "WRITE_PRECHARGE2"
  <2>1. h = T.tRAS2 /\ RP(x) = T.tRP2 /\ RCD(x) = T.tRCDWR
        /\ Recover(x) = T.AL + T.CWL + T.burst + T.tWR
    BY <1>3 DEF Kind, RP, RCD, Column, Recover, Reads, WriteToPrecharge, WL
  <2>2. \/ T.tRAS2 + T.tRP2 <= T.tRC
        \/ T.tRAS2 <= T.tRCDWR + T.AL + T.CWL + T.burst + T.tWR
    BY <1>3 DEF TablesSuffice, T, Cmds
  <2> QED BY <2>1, <2>2, ParameterTypes
<1> QED BY <1>1, <1>2, <1>3 DEF Columns, Closing, Reads, Writes, Precharges

\* Nothing is done in a bank before its refresh or RFM is over.
LEMMA BusyDelays ==
    ASSUME config \in Configs, TablesSuffice, NEW c \in Cmds, NEW a \in Bank,
           NEW b \in Targets(c, a), NEW n \in ({"ACTIVATE"} \cup FromClosed) \cap Cmds
    PROVE  Delays(c, a, b, n) = Busy(c) \/ Busy(c) = 0
<1>1. /\ "REFRESH_BANK" \notin Cmds
      /\ ~("RFMab" \in Cmds /\ "RFMsb" \in Cmds)
      /\ "SREF_EXIT" \in Cmds => "RFMab" \notin Cmds /\ "RFMsb" \notin Cmds
  BY DEF TablesSuffice, Cmds
<1>2. CASE c \in {"REFab", "RFMab", "SREF_EXIT"}
  <2>1. a.rank = b.rank
    BY <1>2 DEF Targets, RankCmds, SbCmds
  <2>2. Delays(c, a, b, n) = SameRank(c, n)
    BY <1>2, <2>1 DEF Delays, RankCmds, SbCmds
  <2>3. SameRank(c, n) = Busy(c)
    BY <1>1, <1>2 DEF SameRank, Busy, FromClosed
  <2> QED BY <2>2, <2>3
<1>3. CASE c \in {"REFsb", "RFMsb"}
  <2>1. SameBanksetAs(a, b)
    BY <1>3 DEF Targets, RankCmds, SbCmds
  <2>2. Delays(c, a, b, n) = SameBankset(c, n)
    BY <1>3, <2>1 DEF Delays, RankCmds, SbCmds
  <2>3. SameBankset(c, n) = Busy(c)
    BY <1>1, <1>3 DEF SameBankset, Busy, FromClosed
  <2> QED BY <2>2, <2>3
<1>4. CASE c \notin {"REFab", "RFMab", "SREF_EXIT", "REFsb", "RFMsb"}
  BY <1>1, <1>4 DEF Busy
<1> QED BY <1>2, <1>3, <1>4

LEMMA TargetsAreBanks ==
    ASSUME NEW c, NEW a \in Bank
    PROVE  Targets(c, a) \subseteq Bank
<1>1. CASE c \in RankCmds
  BY <1>1 DEF Targets, RankCmds, SbCmds
<1>2. CASE c \in SbCmds
  BY <1>2 DEF Targets, RankCmds, SbCmds
<1>3. CASE c \notin RankCmds \cup SbCmds
  BY <1>3 DEF Targets
<1> QED BY <1>1, <1>2, <1>3

\* A bank takes a command only when its refresh or RFM is over.
LEMMA BusyOver ==
    ASSUME Types, BusyKept, NEW c \in Cmds, NEW a \in Bank, Issue(c, a),
           NEW b \in Targets(c, a)
    PROVE  busy[b] = 0
<1>1. b \in Bank /\ c \in Commands /\ busy[b] \in Nat
  BY TargetsAreBanks, ConfigTypes DEF Types
<1>2. state[b] = Before(c) /\ wait[b][c] = 0
  BY <1>1, StateStep
<1>3. CASE c \in Columns \cup Precharges \cup {"SREF_EXIT"}
  <2>1. Before(c) # "CLOSED"
    BY <1>3 DEF Before, Columns, Reads, Writes, Precharges
  <2> QED BY <1>1, <1>2, <2>1 DEF BusyKept
<1>4. CASE c \notin Columns \cup Precharges \cup {"SREF_EXIT"}
  <2>1. Before(c) = "CLOSED"
    BY <1>4 DEF Before
  <2>2. c \in ({"ACTIVATE"} \cup FromClosed) \cap Cmds
    BY <1>1, <1>4 DEF Commands
  <2>3. busy[b] <= wait[b][c]
    BY <1>1, <1>2, <2>1, <2>2 DEF BusyKept
  <2> QED BY <1>1, <1>2, <2>3
<1> QED BY <1>3, <1>4

LEMMA RowIssue ==
    ASSUME Types, RowKept, AutoKept, NEW c \in Cmds, NEW a \in Bank, Issue(c, a)
    PROVE  RowKept'
<1>1. config \in Configs /\ config' = config /\ c \in Commands
  BY ConfigTypes DEF Types, Issue
<1>2. "ACTIVATE" \in Cmds /\ Cmds \subseteq Commands
  BY <1>1, ConfigTypes
<1>3. \A b \in Bank, n \in Cmds :
         /\ wait[b][n] \in Nat /\ wait'[b][n] \in Nat /\ Delays(c, a, b, n) \in Int
         /\ wait'[b][n] >= wait[b][n] /\ wait'[b][n] >= Delays(c, a, b, n)
  BY <1>1, <1>2, WaitStep, DelaysInt DEF Types, Issue
<1>4. \A b \in Bank : idle[b] \in Nat /\ \A k \in 1 .. 2 : hold[b][k] \in Nat
  BY DEF Types
<1>5. Recovery(c) \in Nat /\ RP(c) \in Nat /\ Kind(c) \in 1 .. 2
  BY <1>1, CommandTypes
<1>6. ASSUME NEW b \in Bank, NEW p \in Precharges \cap Cmds
      PROVE  hold'[b][Kind(p)] <= wait'[b][p]
  <2>1. Kind(p) \in 1 .. 2 /\ hold[b][Kind(p)] \in Nat /\ hold[b][Kind(p)] <= wait[b][p]
    BY <1>1, <1>2, <1>4, CommandTypes DEF RowKept
  <2>2. CASE b # a
    BY <2>1, <2>2, <1>3, HoldStep
  <2>3. CASE b = a /\ c = "ACTIVATE"
    <3>1. hold'[b][1] = T.tRAS /\ hold'[b][2] = T.tRAS2
      BY <2>3, HoldStep
    <3>2. hold'[b][Kind(p)] = Delays(c, a, b, p)
      BY <1>1, <2>3, <3>1, ActivateDelays DEF Precharges, Kind
    <3> QED BY <3>2, <1>3
  <2>4. CASE b = a /\ c \in Closing
    <3>1. hold'[b][Kind(p)] = 0
      BY <2>1, <2>4, HoldStep
    <3> QED BY <3>1, <1>3
  <2>5. CASE b = a /\ c \notin Closing \cup {"ACTIVATE"}
    <3>1. hold'[b][Kind(p)] = Larger(hold[b][Kind(p)], Recovery(c))
      BY <2>1, <2>5, HoldStep
    <3>2. CASE c \in {"READ", "WRITE"}
      <4>1. Delays(c, a, b, p) = Recovery(c)
        BY <1>1, <2>5, <3>2, ColumnToPrecharge
      <4> QED BY <4>1, <3>1, <2>1, <1>3, <1>5 DEF Larger
    <3>3. CASE c \notin {"READ", "WRITE"}
      <4>1. Recovery(c) = 0
        BY <2>5, <3>3 DEF Recovery, Closing, Columns
      <4> QED BY <4>1, <3>1, <2>1, <1>3 DEF Larger
    <3> QED BY <3>2, <3>3
  <2> QED BY <2>2, <2>3, <2>4, <2>5
<1>7. ASSUME NEW b \in Bank
      PROVE  idle'[b] <= wait'[b]["ACTIVATE"]
  <2>1. idle[b] <= wait[b]["ACTIVATE"]
    BY DEF RowKept
  <2>2. CASE b # a \/ c \notin Closing
    <3>1. idle'[b] = idle[b]
      BY <2>2, HoldStep
    <3> QED BY <3>1, <2>1, <1>2, <1>3, <1>4
  <2>3. CASE b = a /\ c \in Closing
    <3> DEFINE h == hold[a][Kind(c)]
               y == wait[a]["ACTIVATE"]
               z == wait'[a]["ACTIVATE"]
    <3>1. idle'[b] = Larger(h, Recovery(c)) + RP(c)
      BY <2>3, HoldStep
    <3>2. h \in Nat /\ y \in Nat /\ z \in Nat /\ z >= y
      BY <1>2, <1>3, <1>4, <1>5
    <3>3. a \in Targets(c, a)
      BY <2>3 DEF Targets, RankCmds, SbCmds, Closing, Columns, Reads, Writes, Precharges
    <3>4. Before(c) = "OPEN"
      BY <2>3 DEF Before, Closing, Columns, Reads, Writes, Precharges
    <3>5. state[a] = "OPEN" /\ wait[a][c] = 0
      BY <3>3, <3>4, StateStep
    <3>6. CASE c \in Precharges
      <4>1. h = 0
        BY <3>2, <3>5, <3>6 DEF RowKept
      <4>2. Recovery(c) = 0
        BY <3>6 DEF Recovery, Precharges, Reads, Writes
      <4>3. z >= RP(c)
        BY <1>1, <1>2, <1>3, <2>3, <3>6, ClosingDelays
      <4> HIDE DEF h, y, z
      <4> QED BY <2>3, <3>1, <3>2, <4>1, <4>2, <4>3, <1>5 DEF Larger, z
    <3>7. CASE c \in Columns
      <4>1. z >= Recover(c) + RP(c)
        BY <1>1, <1>2, <1>3, <2>3, <3>7, ClosingDelays
      <4>2. Recovery(c) <= Recover(c) /\ Recover(c) \in Nat
        <5>1. CASE c \in Reads
          <6>1. c \notin Writes
            BY <5>1 DEF Reads, Writes
          <6> QED BY <1>1, <5>1, <6>1, ParameterTypes DEF Recovery, Recover
        <5>2. CASE c \notin Reads
          BY <1>1, <3>7, <5>2, ParameterTypes
             DEF Recovery, Recover, Columns, WriteToPrecharge, WL
        <5> QED BY <5>1, <5>2
      <4>3. h + RP(c) <= y \/ h <= wait[a][c] + Recover(c)
        BY <2>3, <3>5, <3>7 DEF AutoKept
      <4>4. Larger(h, Recovery(c)) + RP(c) <= z
        <5> HIDE DEF h, y, z
        <5> QED BY <3>2, <3>5, <4>1, <4>2, <4>3, <1>5 DEF Larger
      <4> QED BY <2>3, <3>1, <4>4
    <3> QED BY <2>3, <3>6, <3>7 DEF Closing
  <2> QED BY <2>2, <2>3
<1>8. \A n : Kind(n)' = Kind(n)
  BY DEF Kind
<1> QED BY <1>1, <1>6, <1>7, <1>8, SteadyConfig DEF RowKept

LEMMA AutoIssue ==
    ASSUME Types, TablesSuffice, AutoKept, NEW c \in Cmds, NEW a \in Bank, Issue(c, a)
    PROVE  AutoKept'
<1>1. config \in Configs /\ config' = config /\ c \in Commands
  BY ConfigTypes DEF Types, Issue
<1>2. "ACTIVATE" \in Cmds /\ Cmds \subseteq Commands
  BY <1>1, ConfigTypes
<1>3. \A b \in Bank, n \in Cmds :
         /\ wait[b][n] \in Nat /\ wait'[b][n] \in Nat /\ Delays(c, a, b, n) \in Int
         /\ wait'[b][n] >= wait[b][n] /\ wait'[b][n] >= Delays(c, a, b, n)
  BY <1>1, <1>2, WaitStep, DelaysInt DEF Types, Issue
<1>4. \A b \in Bank : \A k \in 1 .. 2 : hold[b][k] \in Nat
  BY DEF Types
<1>5. Recovery(c) \in Nat
  BY <1>1, CommandTypes
<1>6. ASSUME NEW b \in Bank, NEW x \in Columns \cap Closing \cap Cmds, state'[b] = "OPEN"
      PROVE  \/ hold'[b][Kind(x)] + RP(x) <= wait'[b]["ACTIVATE"]
             \/ hold'[b][Kind(x)] <= wait'[b][x] + Recover(x)
  <2>1. Kind(x) \in 1 .. 2 /\ RP(x) \in Nat /\ Recover(x) \in Nat /\ RCD(x) \in Nat
    BY <1>1, <1>2, CommandTypes
  <2>2. hold[b][Kind(x)] \in Nat
    BY <2>1, <1>4
  <2>3. ASSUME state[b] = "OPEN", hold'[b][Kind(x)] = hold[b][Kind(x)]
        PROVE  \/ hold'[b][Kind(x)] + RP(x) <= wait'[b]["ACTIVATE"]
               \/ hold'[b][Kind(x)] <= wait'[b][x] + Recover(x)
    <3>1. \/ hold[b][Kind(x)] + RP(x) <= wait[b]["ACTIVATE"]
          \/ hold[b][Kind(x)] <= wait[b][x] + Recover(x)
      BY <2>3 DEF AutoKept
    <3> QED BY <3>1, <2>1, <2>2, <2>3, <1>2, <1>3
  <2>4. CASE state[b] # "OPEN"
    <3>1. c = "ACTIVATE" /\ b = a
      BY <1>6, <2>4, Opening
    <3> DEFINE h == hold'[b][Kind(x)]
    <3>2. h = IF Kind(x) = 1 THEN T.tRAS ELSE T.tRAS2
      BY <2>1, <3>1, HoldStep
    <3>3. h \in Nat
      BY <1>1, <3>2, ParameterTypes
    <3>4. h + RP(x) <= T.tRC \/ h <= RCD(x) + Recover(x)
      <4> HIDE DEF h
      <4> QED BY <1>1, <3>2, ActivateToAutoPrecharge
    <3>5. wait'[b]["ACTIVATE"] >= T.tRC /\ wait'[b][x] >= RCD(x)
      BY <1>1, <1>2, <1>3, <3>1, ActivateDelays
    <3>6. T.tRC \in Nat
      BY <1>1, ParameterTypes
    <3> HIDE DEF h
    <3> QED BY <2>1, <3>3, <3>4, <3>5, <3>6, <1>2, <1>3 DEF h
  <2>5. CASE state[b] = "OPEN" /\ b # a
    BY <2>3, <2>5, HoldStep
  <2>6. CASE state[b] = "OPEN" /\ b = a
    <3>1. CASE c \in {"READ", "WRITE"}
      <4>1. c \notin Closing \cup {"ACTIVATE"}
        BY <3>1 DEF Closing, Columns, Precharges
      <4>2. hold'[b][Kind(x)] = Larger(hold[b][Kind(x)], Recovery(c))
        BY <4>1, <2>1, <2>6, HoldStep
      <4>3. CASE hold[b][Kind(x)] > Recovery(c)
        BY <2>3, <2>6, <4>2, <4>3 DEF Larger
      <4>4. CASE ~(hold[b][Kind(x)] > Recovery(c))
        <5>1. hold'[b][Kind(x)] = Recovery(c)
          BY <4>2, <4>4 DEF Larger
        <5>2. Recovery(c) <= Delays(c, a, b, x) + Recover(x)
          BY <1>1, <2>6, <3>1, ColumnToAutoPrecharge
        <5> QED BY <5>1, <5>2, <2>1, <1>3, <1>5
      <4> QED BY <4>3, <4>4
    <3>2. CASE c \notin {"READ", "WRITE"}
      <4>1. c \notin Closing \cup {"ACTIVATE"}
        <5>1. CASE c \in Closing
          <6>1. a \in Targets(c, a)
            BY <5>1 DEF Targets, RankCmds, SbCmds, Closing, Columns, Reads, Writes, Precharges
          <6>2. After(c) = "CLOSED"
            BY <5>1 DEF After, Closing, Columns, Reads, Writes, Precharges
          <6> QED BY <1>6, <2>6, <6>1, <6>2, StateStep
        <5>2. CASE c = "ACTIVATE"
          <6>1. a \in Targets(c, a)
            BY <5>2 DEF Targets, RankCmds, SbCmds
          <6>2. Before(c) = "CLOSED"
            BY <5>2 DEF Before, Columns, Reads, Writes, Precharges
          <6> QED BY <2>6, <6>1, <6>2, StateStep
        <5> QED BY <5>1, <5>2
      <4>2. Recovery(c) = 0
        BY <3>2, <4>1 DEF Recovery, Closing, Columns
      <4>3. hold'[b][Kind(x)] = hold[b][Kind(x)]
        BY <4>1, <4>2, <2>1, <2>2, <2>6, HoldStep DEF Larger
      <4> QED BY <2>3, <2>6, <4>3
    <3> QED BY <3>1, <3>2
  <2> QED BY <2>4, <2>5, <2>6
<1>7. \A n : Kind(n)' = Kind(n)
  BY DEF Kind
<1> QED BY <1>1, <1>6, <1>7, SteadyConfig DEF AutoKept, RP, Recover

LEMMA BusyIssue ==
    ASSUME Types, TablesSuffice, BusyKept, NEW c \in Cmds, NEW a \in Bank, Issue(c, a)
    PROVE  BusyKept'
<1>1. config \in Configs /\ config' = config /\ c \in Commands
  BY ConfigTypes DEF Types, Issue
<1>2. "ACTIVATE" \in Cmds /\ Cmds \subseteq Commands
  BY <1>1, ConfigTypes
<1>3. \A b \in Bank, n \in Cmds :
         /\ wait[b][n] \in Nat /\ wait'[b][n] \in Nat
         /\ wait'[b][n] >= wait[b][n] /\ wait'[b][n] >= Delays(c, a, b, n)
  BY <1>1, <1>2, WaitStep DEF Types, Issue
<1>4. Busy(c) \in Nat /\ \A b \in Bank : busy[b] \in Nat
  BY <1>1, CommandTypes DEF Types
<1>5. \A b \in Bank : busy'[b] = IF b \in Targets(c, a) THEN Larger(busy[b], Busy(c))
                                 ELSE busy[b]
  BY DEF Issue, Remember
<1>6. ASSUME NEW b \in Bank
      PROVE  /\ state'[b] # "CLOSED" => busy'[b] = 0
             /\ \A n \in ({"ACTIVATE"} \cup FromClosed) \cap Cmds :
                   state'[b] = "CLOSED" => busy'[b] <= wait'[b][n]
  <2>1. CASE b \in Targets(c, a)
    <3>1. busy'[b] = Busy(c) /\ state'[b] = After(c)
      <4>1. busy[b] = 0
        BY <2>1, BusyOver
      <4> QED BY <2>1, <4>1, <1>4, <1>5, StateStep DEF Larger
    <3>2. After(c) # "CLOSED" => Busy(c) = 0
      BY DEF After, Busy
    <3>3. ASSUME NEW n \in ({"ACTIVATE"} \cup FromClosed) \cap Cmds
          PROVE  Busy(c) <= wait'[b][n]
      <4>1. Delays(c, a, b, n) = Busy(c) \/ Busy(c) = 0
        BY <1>1, <2>1, BusyDelays
      <4> QED BY <4>1, <1>3, <1>4
    <3> QED BY <3>1, <3>2, <3>3
  <2>2. CASE b \notin Targets(c, a)
    <3>1. busy'[b] = busy[b] /\ state'[b] = state[b]
      BY <2>2, <1>5, StateStep
    <3>2. /\ state[b] # "CLOSED" => busy[b] = 0
          /\ \A n \in ({"ACTIVATE"} \cup FromClosed) \cap Cmds :
                state[b] = "CLOSED" => busy[b] <= wait[b][n]
      BY DEF BusyKept
    <3> QED BY <3>1, <3>2, <1>3, <1>4
  <2> QED BY <2>1, <2>2
<1> QED BY <1>1, <1>6, SteadyConfig DEF BusyKept

LEMMA BankTick ==
    ASSUME Types, BankKept, Tick
    PROVE  BankKept'
<1>1. config \in Configs /\ config' = config /\ state' = state
  BY DEF Types, Tick
<1>2. "ACTIVATE" \in Cmds /\ Cmds \subseteq Commands
  BY <1>1, ConfigTypes
<1>3. \A b \in Bank, n \in Cmds : wait[b][n] \in Nat /\ wait'[b][n] = Less(wait[b][n])
  BY DEF Tick, Types
<1>4. \A b \in Bank :
         /\ idle[b] \in Nat /\ idle'[b] = Less(idle[b])
         /\ busy[b] \in Nat /\ busy'[b] = Less(busy[b])
         /\ \A k \in 1 .. 2 : hold[b][k] \in Nat /\ hold'[b][k] = Less(hold[b][k])
  BY DEF Tick, Types
<1>5. \A n : Kind(n)' = Kind(n)
  BY DEF Kind
<1>6. RowKept'
  <2>1. ASSUME NEW b \in Bank, NEW p \in Precharges \cap Cmds
        PROVE  hold'[b][Kind(p)] <= wait'[b][p]
    <3>1. Kind(p) \in 1 .. 2 /\ hold[b][Kind(p)] <= wait[b][p]
      BY <1>1, <1>2, CommandTypes DEF BankKept, RowKept
    <3> QED BY <3>1, <1>3, <1>4 DEF Less
  <2>2. ASSUME NEW b \in Bank
        PROVE  idle'[b] <= wait'[b]["ACTIVATE"]
    <3>1. idle[b] <= wait[b]["ACTIVATE"]
      BY DEF BankKept, RowKept
    <3> QED BY <3>1, <1>2, <1>3, <1>4 DEF Less
  <2> QED BY <1>1, <1>5, <2>1, <2>2, SteadyConfig DEF RowKept
<1>7. AutoKept'
  <2>1. ASSUME NEW b \in Bank, NEW x \in Columns \cap Closing \cap Cmds, state[b] = "OPEN"
        PROVE  \/ hold'[b][Kind(x)] + RP(x) <= wait'[b]["ACTIVATE"]
               \/ hold'[b][Kind(x)] <= wait'[b][x] + Recover(x)
    <3>1. Kind(x) \in 1 .. 2 /\ RP(x) \in Nat /\ Recover(x) \in Nat
      BY <1>1, <1>2, CommandTypes
    <3>2. \/ hold[b][Kind(x)] + RP(x) <= wait[b]["ACTIVATE"]
          \/ hold[b][Kind(x)] <= wait[b][x] + Recover(x)
      BY <2>1 DEF BankKept, AutoKept
    <3> DEFINE h == hold[b][Kind(x)]
               y == wait[b]["ACTIVATE"]
               z == wait[b][x]
    <3>3. /\ h \in Nat /\ y \in Nat /\ z \in Nat
          /\ hold'[b][Kind(x)] = Less(h)
          /\ wait'[b]["ACTIVATE"] = Less(y) /\ wait'[b][x] = Less(z)
      BY <3>1, <1>2, <1>3, <1>4
    <3>4. h + RP(x) <= y \/ h <= z + Recover(x)
      BY <3>2
    <3> HIDE DEF h, y, z
    <3> QED BY <3>1, <3>3, <3>4 DEF Less
  <2> QED BY <1>1, <1>5, <2>1, SteadyConfig DEF AutoKept, RP, Recover
<1>8. BusyKept'
  <2>1. ASSUME NEW b \in Bank
        PROVE  /\ state[b] # "CLOSED" => busy'[b] = 0
               /\ \A n \in ({"ACTIVATE"} \cup FromClosed) \cap Cmds :
                     state[b] = "CLOSED" => busy'[b] <= wait'[b][n]
    <3>1. /\ state[b] # "CLOSED" => busy[b] = 0
          /\ \A n \in ({"ACTIVATE"} \cup FromClosed) \cap Cmds :
                state[b] = "CLOSED" => busy[b] <= wait[b][n]
      BY DEF BankKept, BusyKept
    <3> QED BY <3>1, <1>3, <1>4 DEF Less
  <2> QED BY <1>1, <2>1, SteadyConfig DEF BusyKept
<1> QED BY <1>6, <1>7, <1>8 DEF BankKept

-----------------------------------------------------------------------------
(* The theorems.                                                           *)

TimingInv == Types /\ WindowKept /\ BusKept /\ DataBusFree /\ ColumnsBlocked

LEMMA InitInv ==
    ASSUME Init
    PROVE  TimingInv /\ BankKept
<1>1. Types
  BY InitTypes
<1>2. config \in Configs /\ T.tFAW \in Nat /\ "ACTIVATE" \in Cmds /\ Cmds \subseteq Commands
  BY <1>1, ParameterTypes, ConfigTypes DEF Types
<1>3. WindowKept
  BY <1>2 DEF Init, WindowKept, Window, RankIds
<1>4. BusKept /\ DataBusFree
  BY DEF Init, BusKept, DataBusFree
<1>5. ColumnsBlocked
  BY DEF Init, ColumnsBlocked
<1>6. \A b \in Bank : /\ \A k \in 1 .. 2 : hold[b][k] = 0
                      /\ idle[b] = 0 /\ busy[b] = 0 /\ state[b] = "CLOSED"
                      /\ \A n \in Cmds : wait[b][n] = 0
  BY DEF Init
<1>7. RowKept
  <2>1. \A p \in Precharges \cap Cmds : Kind(p) \in 1 .. 2
    BY DEF Kind
  <2> QED BY <1>2, <1>6, <2>1 DEF RowKept
<1>8. AutoKept /\ BusyKept
  BY <1>6 DEF AutoKept, BusyKept
<1> QED BY <1>1, <1>3, <1>4, <1>5, <1>7, <1>8 DEF TimingInv, BankKept

LEMMA StutterInv ==
    ASSUME UNCHANGED vars
    PROVE  /\ Types => Types'
           /\ BusKept => BusKept'
           /\ DataBusFree => DataBusFree'
           /\ BankKept => BankKept'
<1>1. /\ config' = config /\ state' = state /\ wait' = wait /\ fourAw' = fourAw
      /\ issued' = issued /\ hold' = hold /\ idle' = idle /\ busy' = busy /\ bus' = bus
      /\ acts' = acts
  BY DEF vars, history
<1>2. Types => Types'
  BY <1>1, SteadyConfig DEF Types
<1>3. BusKept => BusKept'
  BY <1>1, SteadyConfig DEF BusKept, Latency, RCD, Column, Clear
<1>4. DataBusFree => DataBusFree'
  BY <1>1, SteadyConfig DEF DataBusFree
<1>5. \A n : Kind(n)' = Kind(n)
  BY DEF Kind
<1>6. (RowKept => RowKept') /\ (BusyKept => BusyKept')
  BY <1>1, <1>5, SteadyConfig DEF RowKept, BusyKept
<1>7. AutoKept => AutoKept'
  BY <1>1, <1>5, SteadyConfig DEF AutoKept, RP, Recover
<1> QED BY <1>2, <1>3, <1>4, <1>6, <1>7 DEF BankKept

LEMMA TypesStep ==
    ASSUME Types, [Next]_vars
    PROVE  Types'
BY IssueTypes, TickTypes, StutterInv DEF Next

LEMMA BusStep ==
    ASSUME Types, BusKept, DataBusFree, [Next]_vars
    PROVE  BusKept' /\ DataBusFree'
BY BusIssue, BusTick, StutterInv DEF Next

LEMMA BankStep ==
    ASSUME Types, TablesSuffice, BankKept, [Next]_vars
    PROVE  BankKept'
<1>1. ASSUME NEW c \in Cmds, NEW a \in Bank, Issue(c, a)
      PROVE  BankKept'
  BY <1>1, RowIssue, AutoIssue, BusyIssue DEF BankKept
<1> QED BY <1>1, BankTick, StutterInv DEF Next

\* The inductive invariant: what cmd_timing_ and four_aw_ hold covers, for every bank
\* and command, the bursts on the bus, the activations in the window and the commands
\* of this cycle.
THEOREM TimingInvariant == Spec => []TimingInv
<1>1. Init => TimingInv
  BY InitInv
<1>2. TimingInv /\ [Next]_vars => TimingInv'
  BY TypesStep, WindowStep, BusStep, ColumnsStep DEF TimingInv
<1> QED BY <1>1, <1>2, PTL DEF Spec

\* No two bursts meet on the data bus of a channel, whatever commands its queues ask
\* for: the delays of timing.cc leave each burst its time, and tRTRS where the bus
\* turns or another rank takes it over.
THEOREM BusFree == Spec => []DataBusFree
<1>1. TimingInv => DataBusFree
  BY DEF TimingInv
<1> QED BY <1>1, TimingInvariant, PTL

\* With two commands a cycle, no second read or write is ready in the cycle of one, so
\* that ClockTick drops no command that it has taken out of its queue.
THEOREM SecondColumn == Spec => []SecondColumnNeverReady
<1>1. TimingInv => SecondColumnNeverReady
  <2>1. SUFFICES ASSUME TimingInv, DualCmd, NEW i \in DOMAIN issued,
                        issued[i].cmd \in Columns, NEW c \in Columns \cap Cmds,
                        NEW b \in Bank, Ready(c, b)
                 PROVE  FALSE
    BY DEF SecondColumnNeverReady
  <2>2. b \in Targets(c, b)
    BY DEF Targets, RankCmds, SbCmds, Columns, Reads, Writes
  <2>3. Before(c) = "OPEN"
    BY DEF Before, Columns, Reads, Writes
  <2>4. state[b] = "OPEN" /\ wait[b][c] = 0
    BY <2>1, <2>2, <2>3 DEF Ready
  <2> QED BY <2>1, <2>4 DEF TimingInv, ColumnsBlocked
<1> QED BY <1>1, TimingInvariant, PTL

\* The activation that IsFAWReady lets through is never the fifth in tFAW cycles.
THEOREM FourActivates == Spec => FourActivateWindow
<1>1. ASSUME TimingInv, [Next]_vars
      PROVE  [\A b \in Bank : Issues("ACTIVATE", b) /\ Len(acts[b.rank]) = 4
                 => acts[b.rank][1] >= T.tFAW]_vars
  <2>1. SUFFICES ASSUME Next, NEW b \in Bank, Issues("ACTIVATE", b),
                        Len(acts[b.rank]) = 4
                 PROVE  acts[b.rank][1] >= T.tFAW
    BY <1>1
  <2>2. Types /\ WindowKept /\ config \in Configs
    BY <1>1 DEF TimingInv, Types
  <2>3. "ACTIVATE" \in Cmds /\ b.rank \in RankIds /\ T.tFAW \in Nat
    BY <2>2, ConfigTypes, BankFields, ParameterTypes
  <2>4. Issue("ACTIVATE", b)
    BY <2>1, <2>2, <2>3, IssuesIsIssue
  <2> DEFINE f == fourAw[b.rank]
             s == acts[b.rank]
  <2>5. ~(Len(f) >= 4 /\ f[1] > 0)
    BY <2>4 DEF Issue, Ready, IsFAWReady
  <2>6. f \in Seq(Nat) /\ s \in Seq(Nat) /\ Window(f, s, T.tFAW)
    BY <2>2, <2>3 DEF Types, WindowKept
  <2>7. Len(s) = 4
    BY <2>1
  <2> HIDE DEF f, s
  <2>8. s[1] >= T.tFAW
    <3>1. CASE Len(f) = 4
      <4>1. 1 \in 1 .. Len(f) /\ f[1] \in Nat /\ s[1] \in Nat
        <5>1. f \in Seq(Nat) /\ s \in Seq(Nat)
          BY <2>6
        <5> QED BY <3>1, <5>1, <2>7
      <4>2. f[1] = T.tFAW - s[1]
        BY <3>1, <4>1, <2>6, <2>7 DEF Window
      <4> QED BY <3>1, <4>1, <4>2, <2>3, <2>5
    <3>2. CASE Len(f) < 4
      <4>1. 1 \in 1 .. Len(s) - Len(f)
        BY <3>2, <2>6, <2>7
      <4>2. s[1] = T.tFAW
        BY <4>1, <2>6 DEF Window
      <4> QED BY <4>2, <2>3
    <3> QED BY <3>1, <3>2, <2>6, <2>7 DEF Window
  <2> QED BY <2>8 DEF s
<1> QED BY <1>1, TimingInvariant, PTL DEF Spec, FourActivateWindow

\* Where the tables hold all that its commands need, a bank is given its times: tRAS
\* and the recovery of reads and writes before a row is closed, tRP before the next is
\* opened, and the whole of a refresh or RFM before any other command.
THEOREM BankTimes == TablesSuffice /\ Spec => BankTimesKept
<1>1. TablesSuffice /\ Spec => []BankKept
  <2>1. Init => BankKept
    BY InitInv
  <2>2. TablesSuffice /\ TimingInv /\ BankKept /\ [Next]_vars => BankKept'
    BY BankStep DEF TimingInv
  <2>3. TablesSuffice => []TablesSuffice
    <3>1. TablesSuffice => TablesSuffice'
      BY DEF TablesSuffice
    <3> QED BY <3>1, PTL
  <2> QED BY <2>1, <2>2, <2>3, TimingInvariant, PTL DEF Spec
<1>2. ASSUME TimingInv, BankKept, [Next]_vars
      PROVE  [\A c \in Cmds, a \in Bank : Issues(c, a) =>
                 /\ c \in Precharges => hold[a][Kind(c)] = 0
                 /\ c = "ACTIVATE" => idle[a] = 0
                 /\ \A b \in Targets(c, a) : busy[b] = 0]_vars
  <2>1. SUFFICES ASSUME Next, NEW c \in Cmds, NEW a \in Bank, Issues(c, a)
                 PROVE  /\ c \in Precharges => hold[a][Kind(c)] = 0
                        /\ c = "ACTIVATE" => idle[a] = 0
                        /\ \A b \in Targets(c, a) : busy[b] = 0
    BY <1>2
  <2>2. Types /\ Issue(c, a) /\ c \in Commands
    BY <1>2, <2>1, IssuesIsIssue, ConfigTypes DEF TimingInv, Types
  <2>3. ASSUME c \in Precharges \cup {"ACTIVATE"}
        PROVE  wait[a][c] = 0
    <3>1. a \in Targets(c, a)
      BY <2>3 DEF Targets, RankCmds, SbCmds, Precharges
    <3> QED BY <2>2, <3>1, StateStep
  <2>4. ASSUME c \in Precharges
        PROVE  hold[a][Kind(c)] = 0
    <3>1. hold[a][Kind(c)] \in Nat
      BY <2>2, CommandTypes DEF Types
    <3>2. hold[a][Kind(c)] <= wait[a][c]
      BY <1>2, <2>4 DEF BankKept, RowKept
    <3> QED BY <2>3, <2>4, <3>1, <3>2
  <2>5. ASSUME c = "ACTIVATE"
        PROVE  idle[a] = 0
    <3>1. idle[a] \in Nat /\ idle[a] <= wait[a][c]
      BY <1>2, <2>2, <2>5 DEF BankKept, RowKept, Types
    <3> QED BY <2>3, <2>5, <3>1
  <2>6. \A b \in Targets(c, a) : busy[b] = 0
    BY <1>2, <2>2, BusyOver DEF BankKept
  <2> QED BY <2>4, <2>5, <2>6
<1> QED BY <1>1, <1>2, TimingInvariant, PTL DEF Spec, BankTimesKept
=============================================================================

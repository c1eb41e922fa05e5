------------------------------ MODULE LegacyMap ------------------------------
(***************************************************************************)
(* dram_parseaddr (dram.cpp): channel, bank and row of a line address      *)
(* under the four mapping policies.                                        *)
(***************************************************************************)
EXTENDS Integers

CONSTANTS
    NumChannels,        \* num_channels
    BanksInChannel,     \* banks_in_channel
    LinesInRow,         \* lines_in_rowbuf
    RowsInBank,         \* num_rows of a bank
    Gang                \* DRAM_MOP_GANGSIZE

ASSUME LegacyMapConstants ==
    /\ {NumChannels, BanksInChannel, LinesInRow, RowsInBank, Gang} \subseteq Nat \ {0}
    /\ LinesInRow % 2 = 0 /\ LinesInRow % Gang = 0

Policies == {"COFFEELAKE", "SKYLAKE", "MOP", "ZEN"}
LinesInMem == NumChannels * BanksInChannel * RowsInBank * LinesInRow

\* n counts units that go round the channels and then the banks; row units of a bank
\* later the row is the next one.
Striped(n, row) ==
    [channel |-> n % NumChannels,
     bank    |-> (n \div NumChannels) % BanksInChannel,
     row     |-> ((n \div NumChannels) \div BanksInChannel) \div row]

\* Mutant: the lines of a row are not divided by the gang.
Mop_WholeRow(l) == Striped(l \div Gang, LinesInRow)

Mop(l) == Striped(l \div Gang, LinesInRow \div Gang)

\* Pairs of lines go round the channels, whole rows round the banks.
Skylake(l) ==
    LET pair == l \div 2
        inBank == (pair \div NumChannels) \div (LinesInRow \div 2)
    IN  [channel |-> pair % NumChannels,
         bank    |-> inBank % BanksInChannel,
         row     |-> inBank \div BanksInChannel]

\* Lines go round the channels, pairs of a channel's lines round the banks.
Zen(l) ==
    LET pair == (l \div NumChannels) \div 2
    IN  [channel |-> l % NumChannels,
         bank    |-> pair % BanksInChannel,
         row     |-> (pair \div BanksInChannel) \div (LinesInRow \div 2)]

dram_parseaddr(policy, l) ==
    CASE policy = "COFFEELAKE" -> Striped(l \div LinesInRow, 1)
      [] policy = "SKYLAKE" -> Skylake(l)
      [] policy = "MOP" -> Mop(l)
      [] policy = "ZEN" -> Zen(l)
=============================================================================

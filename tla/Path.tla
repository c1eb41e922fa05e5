-------------------------------- MODULE Path --------------------------------
(***************************************************************************)
(* The path of an address: a core's virtual line is translated by the page *)
(* allocator (module OS), multiplied by the line size in memsys_access and *)
(* cut into the place of a DRAM cell, by DRAMsim3 (module AddressMap) or   *)
(* by the simulator's own memory (module LegacyMap).                       *)
(***************************************************************************)
EXTENDS OS, AddressMap, LegacyMap, FiniteSets

CONSTANTS
    Orders,             \* address_mapping of the configurations, as sequences
    LineSize            \* LINESIZE

\* SetAddressMapping exits for another number of fields or a field it does not know,
\* and at() throws for a field that is missing.
PlainFields == {"ch", "ra", "bg", "ba", "ro", "co"}
MopFields == {"ch", "ra", "bg", "ba", "ro", "hi", "lo"}

\* The frames of the allocator are those of the memory, whose requests are lines.
ASSUME PathConstants ==
    /\ Orders \subseteq {o \in [1 .. 6 -> PlainFields] : Range(o) = PlainFields}
                        \cup {o \in [1 .. 7 -> MopFields] : Range(o) = MopFields}
    /\ LineSize = RequestSize
    /\ NumPages * LinesInPage <= Channels * Ranks * Bankgroups * BanksPerGroup
                                   * Rows * Columns
    /\ NumPages * LinesInPage <= LinesInMem

VARIABLE mapping        \* address_mapping or, without DRAMSIM3, DRAM_MAP_POLICY

PathInit == Init /\ mapping \in Orders \cup {<<p>> : p \in Policies}
PathNext == Next /\ UNCHANGED mapping
PathSpec == PathInit /\ [][PathNext]_<<vars, mapping>>

\* memsys_access: byteaddress.
ByteAddress(tid, va) == os_v2p_lineaddr(tid, va) * LineSize

-----------------------------------------------------------------------------
\* Two accesses of the cores meet in a cell of the DRAM only if they are the same
\* thread's accesses to the same line, whatever the order of the fields: no bits of
\* the translated address are lost or used twice.
CellsAreDistinct ==
    mapping \in Orders =>
        \A t, u \in Tid, va, vb \in VaLine :
           /\ Mapped(t, va) /\ Mapped(u, vb)
           /\ AddressMapping(mapping, ByteAddress(t, va))
                = AddressMapping(mapping, ByteAddress(u, vb))
           => t = u /\ va = vb

\* Every access goes to a bank and a row that exist, which dram_channel_insert and
\* dram_bank_insert assert, and the row is given as many lines of the memory as fit.
RowsAreFilled ==
    mapping \notin Orders =>
        \A t \in Tid, va \in VaLine :
           Mapped(t, va) =>
              LET at == dram_parseaddr(mapping[1], os_v2p_lineaddr(t, va))
              IN  /\ at.bank < BanksInChannel /\ at.row < RowsInBank
                  /\ Cardinality({l \in 0 .. LinesInMem - 1 :
                                    dram_parseaddr(mapping[1], l) = at}) = LinesInRow
=============================================================================

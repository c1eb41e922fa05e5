----------------------------- MODULE AddressMap ------------------------------
(***************************************************************************)
(* Config::SetAddressMapping and Config::AddressMapping                    *)
(* (configuration.cc): the fields of an address stand in the order that    *)
(* the configuration names, most significant first, and each is cut out    *)
(* with a shift and a mask.  With MOP the column is split into hi and lo.  *)
(***************************************************************************)
EXTENDS Integers, Sequences, Functions

CONSTANTS
    Channels, Ranks, Bankgroups, BanksPerGroup, Rows,
    Columns,            \* columns / BL
    MopSize,            \* mop_size
    RequestSize         \* request_size_bytes

\* 1 << k
Pow2[k \in Nat] == IF k = 0 THEN 1 ELSE 2 * Pow2[k - 1]

PowersOfTwo == {Pow2[k] : k \in 0 .. 20}

\* The sizes of a DRAM device are powers of two: LogBase2 would round others down.
ASSUME AddressMapConstants ==
    /\ {Channels, Ranks, Bankgroups, BanksPerGroup, Rows, Columns, MopSize, RequestSize}
         \subseteq PowersOfTwo
    /\ MopSize <= Columns

\* mop_enabled: the configuration names 7 fields.
MopEnabled(order) == Len(order) = 7

LogBase2(n) == CHOOSE k \in 0 .. 20 : Pow2[k] <= n /\ n < Pow2[k + 1]

field_widths ==
    [ch |-> LogBase2(Channels), ra |-> LogBase2(Ranks), bg |-> LogBase2(Bankgroups),
     ba |-> LogBase2(BanksPerGroup), ro |-> LogBase2(Rows), co |-> LogBase2(Columns),
     hi |-> LogBase2(Columns) - LogBase2(MopSize), lo |-> LogBase2(MopSize)]

\* pos when i fields have been taken from the back.
Pos(order) ==
    LET pos[i \in 0 .. Len(order)] ==
            IF i = 0 THEN 0 ELSE pos[i - 1] + field_widths[order[Len(order) - i + 1]]
    IN  pos

\* ch_pos, ra_pos...: where the field is taken.
FieldPos(order, f) ==
    Pos(order)[Len(order) - (CHOOSE i \in DOMAIN order : order[i] = f)]

\* (hex_addr >> pos) & mask, after the shift by the size of a request.
Cut(order, a, f) ==
    ((a \div Pow2[LogBase2(RequestSize)]) \div Pow2[FieldPos(order, f)])
        % Pow2[field_widths[f]]

\* Mutant: the high bits of the column overlap the low ones.
Column_NoShift(order, a) ==
    IF MopEnabled(order) THEN Cut(order, a, "hi") + Cut(order, a, "lo")
    ELSE Cut(order, a, "co")

Column(order, a) ==
    IF MopEnabled(order) THEN Cut(order, a, "hi") * MopSize + Cut(order, a, "lo")
    ELSE Cut(order, a, "co")

AddressMapping(order, a) ==
    [channel |-> Cut(order, a, "ch"), rank |-> Cut(order, a, "ra"),
     bankgroup |-> Cut(order, a, "bg"), bank |-> Cut(order, a, "ba"),
     row |-> Cut(order, a, "ro"), column |-> Column(order, a)]
=============================================================================

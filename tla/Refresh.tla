------------------------------ MODULE Refresh -------------------------------
(***************************************************************************)
(* The refresh timer of a channel (refresh.cc): which rank, bank set (the  *)
(* same bank of every bank group) or bank is refreshed next, according to  *)
(* Config::refresh_policy.  The operators take the configuration c (the    *)
(* fields policy, ranks, bankGroups and banksPerGroup), the cursor n, which*)
(* is next_rank_, next_bg_ and next_bank_, and the set asleep of the ranks *)
(* that refresh themselves.  Module ChannelState keeps the state.          *)
(***************************************************************************)
EXTENDS Integers, FiniteSets

All == -1               \* an address field that the command does not use
Policies == {"RANK_LEVEL_SIMULTANEOUS", "RANK_LEVEL_STAGGERED",
             "BANKSET_LEVEL_STAGGERED", "BANK_LEVEL_STAGGERED"}

BankAddr(c) == [rank : 0 .. c.ranks - 1, bg : 0 .. c.bankGroups - 1,
                bank : 0 .. c.banksPerGroup - 1]

\* The command that RankNeedRefresh, BanksetNeedRefresh or BankNeedRefresh queues.
RefreshType(c) == CASE c.policy = "BANKSET_LEVEL_STAGGERED" -> "REFsb"
                    [] c.policy = "BANK_LEVEL_STAGGERED"    -> "REFRESH_BANK"
                    [] OTHER                                -> "REFab"

\* What it covers of the bank b.
UnitOf(c, b) ==
    [type |-> RefreshType(c),
     rank |-> b.rank,
     bg   |-> IF RefreshType(c) = "REFRESH_BANK" THEN b.bg ELSE All,
     bank |-> IF RefreshType(c) = "REFab" THEN All ELSE b.bank]
Units(c) == {UnitOf(c, b) : b \in BankAddr(c)}

Cursor0 == [rank |-> 0, bg |-> 0, bank |-> 0]

\* The requests of one InsertRefresh.  The break after the first rank that is awake
\* ends the loop of the simultaneous policy.
Requested(c, n, asleep) ==
    IF c.policy = "RANK_LEVEL_SIMULTANEOUS"
    THEN {u \in Units(c) : /\ u.rank \notin asleep
                           /\ \A r \in 0 .. u.rank - 1 : r \in asleep}
    ELSE {UnitOf(c, b) : b \in {x \in {n} : x.rank \notin asleep}}

\* Mutant: the last rank is followed by one that does not exist.
NextRank_NoWrap(c, n) == [n EXCEPT !.rank = @ + 1]

NextRank(c, n) == [n EXCEPT !.rank = (@ + 1) % c.ranks]
NextBank(c, n) ==
    LET m == [n EXCEPT !.bank = (@ + 1) % c.banksPerGroup]
    IN  IF m.bank = 0 THEN NextRank(c, m) ELSE m
NextGroup(c, n) ==
    LET m == [n EXCEPT !.bg = (@ + 1) % c.bankGroups]
    IN  IF m.bg = 0 THEN NextBank(c, m) ELSE m

\* The case of the bank sets has no return and falls through into the case of the
\* banks.
IterateNext(c, n) ==
    CASE c.policy = "RANK_LEVEL_SIMULTANEOUS" -> n
      [] c.policy = "RANK_LEVEL_STAGGERED"    -> NextRank(c, n)
      [] c.policy = "BANKSET_LEVEL_STAGGERED" -> NextGroup(c, NextBank(c, n))
      [] c.policy = "BANK_LEVEL_STAGGERED"    -> NextGroup(c, n)
=============================================================================

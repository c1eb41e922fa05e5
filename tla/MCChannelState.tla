--------------------------- MODULE MCChannelState ---------------------------
(* Small channels for ChannelState.                                        *)
EXTENDS ChannelState

\* One rank; RFMs of the rank, asked for by the counters and by alerts.  Two refreshes
\* can be due at once.
OneRank ==
    [policy |-> "RANK_LEVEL_STAGGERED", ranks |-> 1, bankGroups |-> 1,
     banksPerGroup |-> 2, rfmMode |-> 2, alertMode |-> 1, aboDelayActs |-> 1,
     aboGrace |-> TRUE, raammt |-> 1, refRaaDecrement |-> 1, rfmRaaDecrement |-> 1,
     enableSelfRefresh |-> FALSE, cmdQueueSize |-> 1, maxRefreshes |-> 2,
     fair |-> TRUE]

\* The channels of config_dramsim3/prac: one rank, alerts, tABO = 0 and no RFMs by counters.
Prac == [OneRank EXCEPT !.rfmMode = 0, !.aboGrace = FALSE]
\* Banks one by one.
ByBank == [OneRank EXCEPT !.policy = "BANK_LEVEL_STAGGERED", !.alertMode = 0]
\* Bank sets and their RFMs.
BankSets == [OneRank EXCEPT !.policy = "BANKSET_LEVEL_STAGGERED", !.bankGroups = 2,
                            !.rfmMode = 1, !.alertMode = 0, !.raammt = 1,
                            !.maxRefreshes = 1, !.fair = FALSE]
\* Two ranks with alerts and tABO = 0; no configuration file has both.
TwoRanks == [OneRank EXCEPT !.ranks = 2, !.banksPerGroup = 1, !.rfmMode = 0, !.aboGrace = FALSE,
                            !.fair = FALSE]
\* Two ranks that may sleep.
Sleeping == [TwoRanks EXCEPT !.banksPerGroup = 2, !.alertMode = 0, !.enableSelfRefresh = TRUE,
                             !.maxRefreshes = 1]
\* All ranks at once.
AtOnce == [Sleeping EXCEPT !.policy = "RANK_LEVEL_SIMULTANEOUS", !.banksPerGroup = 1]

MCConfigs == {OneRank, Prac, ByBank, BankSets, TwoRanks, Sleeping, AtOnce}
=============================================================================

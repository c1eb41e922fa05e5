------------------------------ MODULE MCTiming ------------------------------
(* Small channels for Timing.  The delays  keep the order that they have in *)
(* the configuration files: tCCD_L > tCCD_S >= burst, tRAS2 < tRAS,        *)
(* tRP2 > tRP, tFAW > 4 tRRD_S, tRCD + tRTP < tRAS.                        *)
EXTENDS Timing

Small ==
    [AL |-> 0, CL |-> 3, CWL |-> 2, burst |-> 1, tCCD_S |-> 1, tCCD_L |-> 2,
     tRTRS |-> 1, tRTP |-> 1, tWTR_S |-> 0, tWTR_L |-> 1, tWR |-> 1,
     tRCDRD |-> 1, tRCDWR |-> 1, tRAS |-> 4, tRP |-> 2, tRC |-> 6,
     tRAS2 |-> 3, tRP2 |-> 4, tRRD_S |-> 1, tRRD_L |-> 2, tFAW |-> 6,
     tPPD |-> 0, tRFC |-> 4, tRFCsb |-> 3, tRFCb |-> 3, tREFIb |-> 3,
     tREFSBRD |-> 1, tRFM |-> 3, tRFMsb |-> 2, tCKESR |-> 2, tXS |-> 4]

\* Longer bursts and a longer gap, for the data bus.
Wide == [Small EXCEPT !.CL = 4, !.burst = 2, !.tCCD_S = 2, !.tCCD_L = 3, !.tRTRS = 2,
                       !.tRCDRD = 2, !.tRCDWR = 2]

Channel(r, g, b, cs) == [ranks |-> r, bankGroups |-> g, banksPerGroup |-> b,
                         cmds |-> cs, dualCmd |-> FALSE, T |-> Small]

\* Open pages, rank refreshes and self-refresh, in two bank groups.
OpenPage == Channel(1, 2, 1, {"ACTIVATE", "READ", "WRITE", "PRECHARGE", "REFab",
                              "SREF_ENTER", "SREF_EXIT"})
\* Auto-precharge, refreshes and RFMs of bank sets.
ClosePage == Channel(1, 2, 2, {"ACTIVATE", "READ_PRECHARGE", "WRITE_PRECHARGE",
                               "REFsb", "RFMsb"})
\* Precharges of both kinds, as PAC mixes them, and all-bank RFMs.
Counted == Channel(1, 1, 2, {"ACTIVATE", "READ", "WRITE", "READ_PRECHARGE2",
                             "PRECHARGE2", "PRECHARGE", "REFab", "RFMab"})
\* Two ranks on the data bus.
TwoRanks == [Channel(2, 1, 1, {"ACTIVATE", "READ", "WRITE", "READ_PRECHARGE",
                               "PRECHARGE"}) EXCEPT !.T = Wide]
\* Six banks for the four-activate window.
ManyBanks == Channel(1, 3, 2, {"ACTIVATE", "PRECHARGE"})
\* HBM: a second command in a cycle.
Dual == [Channel(1, 2, 1, {"ACTIVATE", "READ", "WRITE", "PRECHARGE"})
           EXCEPT !.dualCmd = TRUE]

MCConfigs == {OpenPage, ClosePage, Counted, TwoRanks, ManyBanks, Dual}
=============================================================================

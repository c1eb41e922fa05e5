------------------------------ MODULE MCLegacy ------------------------------
(* Small channels for Legacy.  Line l is in bank l % banks, and the rows    *)
(* follow each other.                                                      *)
EXTENDS Legacy

\* Without refresh and RFM; two rows of bank 0 and a bus that three banks share.
Plain ==
    [banks |-> 3, groupSize |-> 1, lines |-> 0 .. 3, writeBacks |-> {},
     queueSize |-> 1, sched |-> "FRFCFS", refMode |-> "none", rfmPolicy |-> "none",
     para |-> FALSE, tACT |-> 1, tPRE |-> 1, tRAS |-> 3, tRDRD |-> 2, tRFC |-> 4,
     tREFI |-> 7, tDRFM |-> 2, maxOpen |-> 5, pageTimeout |-> FALSE,
     rfmTh |-> 1, rfmRefTh |-> 1]

\* A dirty victim and a full queue; two rows of a bank.
WriteBack == [Plain EXCEPT !.lines = {0, 1, 3}, !.writeBacks = {6}, !.pageTimeout = TRUE,
                           !.banks = 3]
\* Queues of two requests, served in order or by row.
InOrder == [Plain EXCEPT !.banks = 2, !.lines = {0, 2, 4}, !.queueSize = 2,
                         !.sched = "FCFS", !.refMode = "AB"]
ByRow == [InOrder EXCEPT !.sched = "FRFCFS", !.refMode = "none", !.tRDRD = 3]
\* All-bank RFMs and PARA, with refreshes.
AllBank == [Plain EXCEPT !.banks = 2, !.lines = {0, 1, 2}, !.refMode = "AB",
                         !.rfmPolicy = "AB", !.para = TRUE, !.tREFI = 10,
                         !.pageTimeout = TRUE]
\* RFMs of several bank groups that wait for each other.
SameBank == [Plain EXCEPT !.lines = 0 .. 2, !.rfmPolicy = "SB", !.tRAS = 1, !.tRFC = 4,
                          !.maxOpen = 1,
                          !.pageTimeout = TRUE]
\* Refreshes of a bank group at a time.
Groupwise == [Plain EXCEPT !.banks = 4, !.groupSize = 2, !.lines = {0, 2},
                           !.refMode = "SB", !.tREFI = 4]

MCConfigs == {Plain, WriteBack, InOrder, ByRow, AllBank, SameBank, Groupwise}
=============================================================================

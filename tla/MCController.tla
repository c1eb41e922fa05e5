---------------------------- MODULE MCController ----------------------------
(* The controller with a read queue and a write buffer and, chosen in the  *)
(* beginning, with one queue for both and rows that are closed as soon as  *)
(* nobody wants them.  x and y compete for the row of one bank.            *)
EXTENDS Controller

CONSTANTS x, y, z, b1, b2, r1, r2

MCBankOf == [a \in {x, y, z} |-> IF a = z THEN b2 ELSE b1]
MCRowOf == [a \in {x, y, z} |-> IF a = y THEN r2 ELSE r1]

TwoBankOf == [a \in {x, y} |-> b1]
TwoRowOf == [a \in {x, y} |-> IF a = y THEN r2 ELSE r1]

VARIABLE unified        \* Config::unified_queue
mcVars == <<vars, unified>>

U == INSTANCE Controller WITH UnifiedQueue <- TRUE, RowBufPolicy <- "SOFT_CLOSE_PAGE"

EitherInit == Init /\ unified \in BOOLEAN
EitherNext == IF unified THEN U!Next ELSE Next
EitherSpec == EitherInit /\ [][EitherNext /\ UNCHANGED unified]_mcVars

\* The fairness of Controller, for the two queue structures.
EitherFairness ==
    /\ WF_vars(IF unified THEN U!IdleTick ELSE IdleTick)
    /\ WF_vars(\E a \in Addr : ReturnDoneTrans(a))
    /\ \A b \in Bank :
          /\ WF_vars(IF unified THEN U!IssueActivate(b) \/ U!IssuePrecharge(b)
                     ELSE IssueActivate(b) \/ IssuePrecharge(b))
          /\ SF_vars(IF unified THEN U!IssueColumn(b) ELSE IssueColumn(b))

EitherFair == EitherSpec /\ EitherFairness

\* Separate queues only.
SplitFair == /\ Init /\ unified = FALSE
             /\ [][EitherNext /\ UNCHANGED unified]_mcVars /\ EitherFairness

\* Every read is answered.  With separate queues this needs that no address ever has
\* a read and a write waiting at the same time (see MCController_drain.cfg).
ReadsReturn ==
    \A a \in Addr : pendingRd[a] > 0 ~>
        \/ pendingRd[a] = 0
        \/ ~unified /\ \E c \in Addr : pendingRd[c] > 0 /\ pendingWr[c]
=============================================================================

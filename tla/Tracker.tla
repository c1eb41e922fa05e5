------------------------------ MODULE Tracker -------------------------------
(***************************************************************************)
(* The row-activation tracker of one bank (bankstate.cc): the per-row      *)
(* activation counters prac_, the single row that MOAT tracks, and, for    *)
(* MOPAC, the buffer of sampled rows whose counters are updated later, on  *)
(* a refresh or an RFM.  CheckAlert is the bank's part in the alert of     *)
(* module ChannelState.                                                    *)
(*                                                                         *)
(* The random choices are free choices here: whether PAC closes a row with *)
(* PRECHARGE2 (which counts) or PRECHARGE, and which activation of a       *)
(* window of PacProb MOPAC samples.                                        *)
(***************************************************************************)
EXTENDS Integers, Sequences, SequencesExt

CONSTANTS
    Impls,              \* values of USE_PRAC: "MOAT", "PAC", "MOPAC"
    RowPress,           \* built with ROWPRESS
    Rows,               \* Config::rows
    RowsRefreshed,      \* Config::rows_refreshed
    Ath,                \* Config::moat_ath
    PacProb,            \* Config::pac_prob
    BufSize,            \* Config::mopac_buf_size
    AboUpdates,         \* Config::mopac_abo_updates
    RefUpdates,         \* Config::mopac_ref_updates
    DrainFreq,          \* Config::mopac_drain_freq
    QueueTh,            \* Config::mopac_queue_th
    MaxCount,           \* bound: counted activations of a row
    MaxCritical         \* bound: mopac_critical_rows_

ASSUME TrackerConstants ==
    /\ Impls \subseteq {"MOAT", "PAC", "MOPAC"}
    /\ RowPress \in BOOLEAN
    /\ {Rows, RowsRefreshed, Ath, PacProb, DrainFreq, QueueTh, MaxCount,
           MaxCritical} \subseteq Nat \ {0}
    /\ {BufSize, AboUpdates, RefUpdates} \subseteq Nat
    /\ Rows % RowsRefreshed = 0

Row == 0 .. Rows - 1
NoRow == -1
Eth == Ath \div 2       \* moat_eth_
MitigationPeriod == 5   \* "If this is the 5th tREFI"

VARIABLES
    impl,               \* USE_PRAC, which does not change
    alertStops,         \* no activation comes between an alert and its RFM
                        \* (tABO = 0), which does not change either
    openRow,            \* open_row_
    trk,                \* prac_ and moat_row_ (NoRow if not moat_row_valid_)
    trefiCnt,           \* moat_trefi_cnt_
    refIdx,             \* ref_idx_
    buf,                \* mopac_buf_
    critical,           \* mopac_critical_rows_
    actCtr, mintSel,    \* mopac_act_ctr_ and mopac_mint_sel_
    countdown,          \* mopac_drain_countdown_
    acc                 \* history: counted activations of a row since it was
                        \* last refreshed or mitigated

mopac == <<buf, critical, actCtr, mintSel, countdown>>
build == <<impl, alertStops>>
vars == <<build, openRow, trk, trefiCnt, refIdx, mopac, acc>>

Init ==
    /\ impl \in Impls /\ alertStops \in BOOLEAN
    /\ openRow = NoRow
    /\ trk = [prac |-> [r \in Row |-> 0], row |-> NoRow]
    /\ trefiCnt = 0 /\ refIdx = 0
    /\ buf = << >> /\ critical = 0
    /\ actCtr = 0 /\ mintSel \in 0 .. PacProb - 1
    /\ countdown = 0
    /\ acc = [r \in Row |-> 0]

-----------------------------------------------------------------------------
(* MOAT: a counter per row and one tracked row.                            *)

\* Mutant: the first row to reach the threshold is kept.
UpdatePRAC_KeepsFirst(t, r, by) ==
    LET p == [t.prac EXCEPT ![r] = @ + by]
    IN  [prac |-> p, row |-> IF p[r] >= Eth /\ t.row = NoRow THEN r ELSE t.row]

\* MopacUpdatePRAC and, with by = 1, the count and MoatUpdate.
UpdatePRAC(t, r, by) ==
    LET p == [t.prac EXCEPT ![r] = @ + by]
    IN  [prac |-> p,
         row |-> IF p[r] >= Eth /\ (t.row = NoRow \/ p[r] > p[t.row])
                 THEN r ELSE t.row]

\* Mutant: the mitigation leaves the tracked row and its counter alone.
MoatMitigate_KeepsCount(t) == t

MoatMitigate(t) ==
    IF t.row = NoRow THEN t
    ELSE [prac |-> [t.prac EXCEPT ![t.row] = 0], row |-> NoRow]

InWindow(r) == r >= refIdx /\ r < refIdx + RowsRefreshed

\* Mutant: the row that was refreshed is still tracked.
ForgetIfRefreshed_Never(t) == t

\* MoatCheckTrackedRowIsRefreshed.
ForgetIfRefreshed(t) == IF InWindow(t.row) THEN [t EXCEPT !.row = NoRow] ELSE t

RefreshRows(t) ==
    [t EXCEPT !.prac = [r \in Row |-> IF InWindow(r) THEN 0 ELSE t.prac[r]]]

MoatHandleRef(t) ==
    ForgetIfRefreshed(
        IF trefiCnt + 1 = MitigationPeriod THEN MoatMitigate(t) ELSE t)

Overloaded(t) == t.row # NoRow /\ t.prac[t.row] >= Ath

CheckAlert == critical > 0 \/ Len(buf) >= BufSize \/ Overloaded(trk)

-----------------------------------------------------------------------------
(* MOPAC: sampled activations wait in a buffer.                            *)

\* MopacFlushNextCtr for the first n entries of a buffer q, or for all of it.
AtMost(n, q) == IF n < Len(q) THEN n ELSE Len(q)

FlushCtrs(t, q, n) ==
    LET f[i \in 0 .. AtMost(n, q)] ==
            IF i = 0 THEN t ELSE UpdatePRAC(f[i - 1], q[i].row, q[i].sctr)
    IN  f[AtMost(n, q)]

Flushed(q, n) == SubSeq(q, AtMost(n, q) + 1, Len(q))

\* Mutant: a row that leaves the buffer is not counted.
HandleCriticalRow_Drops ==
    LET i == SelectInSeq(buf, LAMBDA e : e.sctr >= QueueTh)
    IN  IF i = 0 THEN UNCHANGED <<trk, buf>>
        ELSE trk' = trk /\ buf' = RemoveAt(buf, i)

\* MopacHandleCriticalRow.  SafeDecrement gets a copy of its argument, so that
\* mopac_critical_rows_ stays as it is.
HandleCriticalRow ==
    LET i == SelectInSeq(buf, LAMBDA e : e.sctr >= QueueTh)
    IN  IF i = 0 THEN UNCHANGED <<trk, buf>>
        ELSE /\ trk' = UpdatePRAC(trk, buf[i].row, buf[i].sctr)
             /\ buf' = RemoveAt(buf, i)

MopacMitigate ==
    /\ IF critical > 0 THEN HandleCriticalRow
       ELSE IF Len(buf) < BufSize /\ Overloaded(trk)
       THEN trk' = MoatMitigate(trk) /\ buf' = buf
       ELSE trk' = FlushCtrs(trk, buf, AboUpdates) /\ buf' = Flushed(buf, AboUpdates)
    /\ UNCHANGED critical

\* The entries of the rows that are not being refreshed.
Kept ==
    LET f[i \in 0 .. Len(buf)] ==
            IF i = 0 THEN << >>
            ELSE IF InWindow(buf[i].row) THEN f[i - 1] ELSE Append(f[i - 1], buf[i])
    IN  f[Len(buf)]

\* MopacHandleRef, then the reset of the refreshed rows: their entries leave the
\* buffer first, and every DrainFreq-th refresh updates some counters.
MopacHandleRef ==
    LET n == IF countdown = 0 THEN RefUpdates ELSE 0
    IN  /\ buf' = Flushed(Kept, n)
        /\ countdown' = (IF countdown = 0 THEN DrainFreq ELSE countdown) - 1
        /\ trk' = RefreshRows(ForgetIfRefreshed(FlushCtrs(trk, Kept, n)))

\* MopacCtrUpdate: one activation of each window is sampled.  A row that is in
\* the buffer is counted there; nothing limits the length of the buffer.
Sampled == actCtr = mintSel

MopacCtrUpdate(r) ==
    LET i == SelectInSeq(buf, LAMBDA e : e.row = r) IN
    /\ IF ~Sampled THEN UNCHANGED <<buf, critical, acc>>
       ELSE /\ acc' = [acc EXCEPT ![r] = @ + 1]
            /\ IF i = 0
               THEN /\ buf' = Append(buf, [row |-> r, sctr |-> 1])
                    /\ UNCHANGED critical
               ELSE /\ buf' = [buf EXCEPT ![i].sctr = @ + 1]
                    /\ critical' = critical
                         + (IF buf[i].sctr + 1 = QueueTh THEN 1 ELSE 0)
                    /\ critical' <= MaxCritical
    /\ IF actCtr + 1 = PacProb
       THEN actCtr' = 0 /\ mintSel' \in 0 .. PacProb - 1
       ELSE actCtr' = actCtr + 1 /\ UNCHANGED mintSel

-----------------------------------------------------------------------------
(* The commands of BankState::UpdateState that the tracker sees.           *)

Activate(r) ==
    /\ openRow = NoRow
    /\ alertStops => ~CheckAlert
    /\ acc[r] < MaxCount
    /\ openRow' = r
    /\ IF impl = "MOPAC" THEN MopacCtrUpdate(r)
       ELSE UNCHANGED <<buf, critical, actCtr, mintSel, acc>>
    /\ UNCHANGED <<build, trk, trefiCnt, refIdx, countdown>>

\* PRECHARGE2 counts the activation, PRECHARGE does not.
Counts == CASE impl = "MOAT" -> {TRUE}
            [] impl = "PAC" -> BOOLEAN
            [] impl = "MOPAC" -> {FALSE}

Precharge ==
    /\ openRow # NoRow
    /\ \E counts \in Counts :
          IF counts
          THEN /\ acc' = [acc EXCEPT ![openRow] = @ + 1]
               /\ trk' = UpdatePRAC(trk, openRow, 1)
          ELSE UNCHANGED <<acc, trk>>
    /\ openRow' = NoRow
    /\ UNCHANGED <<build, trefiCnt, refIdx, mopac>>

\* MopacHandleRowpress: a sampled row that stayed open long enough counts again
\* when it is closed (once: longer openings are bounded away).
PrechargeRowpress ==
    /\ RowPress /\ impl = "MOPAC"
    /\ openRow # NoRow
    /\ \E i \in DOMAIN buf : buf[i].row = openRow
    /\ acc[openRow] < MaxCount
    /\ MopacCtrUpdate(openRow)
    /\ openRow' = NoRow
    /\ UNCHANGED <<build, trk, trefiCnt, refIdx, countdown>>

Refresh ==
    /\ openRow = NoRow
    /\ IF impl = "MOPAC"
       THEN MopacHandleRef /\ UNCHANGED <<trefiCnt, critical, actCtr, mintSel>>
       ELSE /\ trk' = MoatHandleRef(RefreshRows(trk))
            /\ trefiCnt' = (trefiCnt + 1) % MitigationPeriod
            /\ UNCHANGED mopac
    /\ acc' = [r \in Row |-> IF InWindow(r) \/ trk'.prac[r] < trk.prac[r]
                            THEN 0 ELSE acc[r]]
    /\ refIdx' = (refIdx + RowsRefreshed) % Rows
    /\ UNCHANGED <<build, openRow>>

\* An RFM: the one the alert asks for, or one for another bank or the RAA count.
RFM ==
    /\ openRow = NoRow
    /\ IF impl = "MOPAC"
       THEN MopacMitigate /\ UNCHANGED <<actCtr, mintSel, countdown>>
       ELSE trk' = MoatMitigate(trk) /\ UNCHANGED mopac
    /\ acc' = [r \in Row |-> IF trk'.prac[r] < trk.prac[r] THEN 0 ELSE acc[r]]
    /\ UNCHANGED <<build, openRow, trefiCnt, refIdx>>

Next ==
    \/ \E r \in Row : Activate(r)
    \/ Precharge
    \/ PrechargeRowpress
    \/ Refresh
    \/ RFM

Spec == Init /\ [][Next]_vars

\* The controller closes the open rows of a rank and issues the RFM that an
\* alert asks for (RefreshesFinish of module ChannelState).
FairSpec == Spec /\ WF_vars(Precharge) /\ WF_vars(RFM)

-----------------------------------------------------------------------------
TypeOK ==
    /\ openRow \in Row \cup {NoRow}
    /\ trk \in [prac : [Row -> Nat], row : Row \cup {NoRow}]
    /\ trefiCnt \in 0 .. MitigationPeriod - 1
    /\ refIdx \in Row
    /\ buf \in Seq([row : Row, sctr : Nat \ {0}])
    /\ critical \in Nat
    /\ actCtr \in 0 .. PacProb - 1 /\ mintSel \in 0 .. PacProb - 1
    /\ countdown \in 0 .. DrainFreq - 1
    /\ acc \in [Row -> 0 .. MaxCount]

\* The row a bank tracks is one that is worth a mitigation: its counter is at
\* the eligibility threshold.  A refresh that clears the counter also makes the
\* bank forget the row (MoatCheckTrackedRowIsRefreshed), whatever the order of
\* refresh, mitigation and counting.
TrackedRowIsEligible == trk.row # NoRow => trk.prac[trk.row] >= Eth

\* MOAT and PAC: no counter passes the alert threshold when nothing is activated
\* between an alert and its RFM.  One tracked row is enough, although the others
\* above the eligibility threshold are forgotten when it is mitigated.
RowsWithinAth ==
    alertStops /\ impl # "MOPAC" => \A r \in Row : trk.prac[r] <= Ath

Waiting(r) == LET i == SelectInSeq(buf, LAMBDA e : e.row = r)
              IN  IF i = 0 THEN 0 ELSE buf[i].sctr

\* No counted activation of a row is lost before the row is refreshed or
\* mitigated: it is in the counter or, with MOPAC, still in the buffer, even when
\* activations during an alert overfill the buffer.
CountsNeverLost == \A r \in Row : trk.prac[r] + Waiting(r) >= acc[r]

\* The RFM that an alert asks for ends the alert, whatever raised it, as long as
\* no row of MOPAC's buffer has become critical (mopac_critical_rows_ is never
\* taken back) and nothing is activated meanwhile.
AlertEnds ==
    alertStops /\ CheckAlert /\ critical = 0 ~> ~CheckAlert \/ critical > 0
=============================================================================
